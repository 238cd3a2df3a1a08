---------------------------- MODULE MCSubmission ----------------------------
(***************************************************************************)
(* A backoff of one unit, a Retry-After that outlasts the window and one   *)
(* that does not.                                                          *)
(***************************************************************************)
EXTENDS Submission

MCRetryAfters ==
  {[form |-> "none", value |-> 0], [form |-> "seconds", value |-> 1],
   [form |-> "seconds", value |-> 4]}

=============================================================================
