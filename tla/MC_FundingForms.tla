-------------------------- MODULE MC_FundingForms --------------------------
(***************************************************************************)
(* One tab on the creation page and one on the page of the key.            *)
(***************************************************************************)
EXTENDS FundingForms

CONSTANTS create_tab, key_tab

MCTabs == {create_tab, key_tab}

MCCreateTabs == {create_tab}

=============================================================================
