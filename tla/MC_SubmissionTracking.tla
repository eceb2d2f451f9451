----------------------- MODULE MC_SubmissionTracking -----------------------
(* SubmissionTracking on a small instance. *)
EXTENDS SubmissionTracking

=============================================================================
