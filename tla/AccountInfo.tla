----------------------------- MODULE AccountInfo -----------------------------
(***************************************************************************)
(* The wallet demo's card of the connected account (AccountInfo), from the *)
(* time it is rendered until the wallet is disconnected: the loads of the  *)
(* account from Horizon, which may overlap and end in any order, and the   *)
(* request to Friendbot to create an account that Horizon does not know.   *)
(*                                                                         *)
(* Of an account only whether it exists is modelled, and of an answer      *)
(* whether it has found it; a load is answered and then arrives.  Balances *)
(* and the wording of errors are left out.  Anybody may create the account *)
(* at any time, and nobody removes it.                                     *)
(***************************************************************************)
EXTENDS Naturals

CONSTANT Loads  \* identities of the loads in flight

VARIABLES
    exists,   \* the account is on the ledger
    data,     \* the card shows the account
    loading,  \* the card shows that it is loading
    notFound, \* Horizon did not know the account
    error,    \* the card shows an error
    funding,  \* Friendbot is asked
    load      \* load[i]: how far load i is

card == <<data, loading, notFound, error>>
cardVars == <<exists, card, funding, load>>

-----------------------------------------------------------------------------

\* asked: Horizon has not answered; found, missing: its answer is on the way.
Phase == {"none", "asked", "found", "missing"}

CardTypeOK ==
    /\ {exists, data, loading, notFound, error, funding} \subseteq BOOLEAN
    /\ load \in [Loads -> Phase]
    /\ data \/ (\E i \in Loads : load[i] = "found") => exists

InFlight == {i \in Loads : load[i] # "none"}

\* What loadAccount does before it awaits Horizon.
loadAccount(i) ==
    /\ load[i] = "none"
    /\ load' = [load EXCEPT ![i] = "asked"]
    /\ loading' = TRUE
    /\ error' = FALSE
    /\ notFound' = FALSE
    /\ UNCHANGED data

\* The card has been rendered, and its effect has loaded the account.
CardInit ==
    /\ exists \in BOOLEAN
    /\ data = FALSE
    /\ loading = TRUE
    /\ notFound = FALSE
    /\ error = FALSE
    /\ funding = FALSE
    /\ \E i \in Loads : load = [j \in Loads |-> IF j = i THEN "asked" ELSE "none"]

-----------------------------------------------------------------------------
\* Horizon.

\* Faulty variant of Answer, not in CardNext: every account is found.
AnswerFound(i) ==
    /\ load[i] = "asked"
    /\ load' = [load EXCEPT ![i] = "found"]
    /\ UNCHANGED <<exists, card, funding>>

Answer(i) ==
    /\ load[i] = "asked"
    /\ load' = [load EXCEPT ![i] = IF exists THEN "found" ELSE "missing"]
    /\ UNCHANGED <<exists, card, funding>>

Ends(i) ==
    /\ load' = [load EXCEPT ![i] = "none"]
    /\ loading' = FALSE
    /\ UNCHANGED <<exists, funding>>

Found(i) ==
    /\ load[i] = "found"
    /\ Ends(i)
    /\ data' = TRUE
    /\ notFound' = FALSE
    /\ UNCHANGED error

\* An answer of 404: what the card has shown stays.
Missing(i) ==
    /\ load[i] = "missing"
    /\ Ends(i)
    /\ notFound' = TRUE
    /\ UNCHANGED <<data, error>>

\* Faulty variant of LoadFails, not in CardNext: the card goes on loading.
LoadFailsSilently(i) ==
    /\ load[i] # "none"
    /\ load' = [load EXCEPT ![i] = "none"]
    /\ UNCHANGED <<exists, funding, card>>

\* Horizon or the network fails.
LoadFails(i) ==
    /\ load[i] # "none"
    /\ Ends(i)
    /\ error' = TRUE
    /\ UNCHANGED <<data, notFound>>

\* The account is created: by Friendbot, or by anybody else.
Create ==
    /\ ~exists
    /\ exists' = TRUE
    /\ UNCHANGED <<card, funding, load>>

-----------------------------------------------------------------------------
\* What the card offers.

\* Faulty variant of OffersRefresh, not used: the button is always there.
OffersRefreshAlways == TRUE

OffersRefresh == data

Refresh(i) ==
    /\ OffersRefresh
    /\ loadAccount(i)
    /\ UNCHANGED <<exists, funding>>

\* On the test network.
OffersFriendbot == notFound /\ ~loading /\ ~funding

handleFundWithFriendbot ==
    /\ OffersFriendbot
    /\ funding' = TRUE
    /\ error' = FALSE
    /\ UNCHANGED <<exists, data, loading, notFound, load>>

\* Friendbot has created the account, or says that it exists already.
Funded(i) ==
    /\ funding
    /\ exists
    /\ loadAccount(i)
    /\ funding' = FALSE
    /\ UNCHANGED exists

\* Friendbot fails, or its answer is lost: the account may have been created.
NotFunded ==
    /\ funding
    /\ funding' = FALSE
    /\ error' = TRUE
    /\ UNCHANGED <<exists, data, loading, notFound, load>>

-----------------------------------------------------------------------------

LoadEnds(i) == Found(i) \/ Missing(i) \/ LoadFails(i)

FriendbotEnds == NotFunded \/ \E i \in Loads : Funded(i)

CardNext ==
    \/ \E i \in Loads : Answer(i) \/ LoadEnds(i) \/ Refresh(i)
    \/ handleFundWithFriendbot
    \/ FriendbotEnds
    \/ Create

\* Every request ends, with an answer or with an error.
CardFairness ==
    /\ \A i \in Loads : WF_cardVars(LoadEnds(i))
    /\ WF_cardVars(FriendbotEnds)

CardSpec == CardInit /\ [][CardNext]_cardVars /\ CardFairness

-----------------------------------------------------------------------------

\* An account that the card has shown is never said to be missing, in whatever order
\* the answers to overlapping loads arrive.
FoundStaysFound == data => ~notFound

\* "Fund with Friendbot" is offered on the last word of Horizon only: no load is in
\* flight that may find the account.
OfferIsFinal == OffersFriendbot => InFlight = {}

\* A request to Friendbot ends with the account on the card, or with an error.
FundingIsSeen == funding ~> data \/ error

=============================================================================
