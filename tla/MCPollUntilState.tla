-------------------------- MODULE MCPollUntilState --------------------------
(***************************************************************************)
(* A second is 2 units, so that a caller can ask for a positive frequency  *)
(* below it.  Three or four polls stand for 10 and 100: enough for a first,*)
(* a middle and a last poll with the transaction moving in between.        *)
(***************************************************************************)
EXTENDS PollUntilState

MCCalls ==
  [states : {{"MINED"}, {"FAILED", "CONFIRMED"}}, failState : {"FAILED", NoState},
   maxPolls : {-1, 1, 2}, pollFrequency : {1, 3}]

MCWaitOptions == [maxPolls : {0, 2}, pollFrequency : {0, 1, 2}]

\* The calls of the tests: a single desired state.
MinedOnly ==
  [states : {{"MINED"}}, failState : {"FAILED"}, maxPolls : {2}, pollFrequency : {2}]

=============================================================================
