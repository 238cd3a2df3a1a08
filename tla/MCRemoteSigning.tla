-------------------------- MODULE MCRemoteSigning --------------------------
(***************************************************************************)
(* Two goroutines with requests that differ in each respect, one without a *)
(* method and one without a path.  A second is 10 milliseconds and         *)
(* milliseconds begin at 100: 0 is no timestamp, 10 is in seconds.         *)
(***************************************************************************)
EXTENDS RemoteSigning

MCTimestamps == {0, 10}

Method(verb, case) == [verb |-> verb, case |-> case]

MCRequests ==
  {[method |-> Method("POST", "upper"), target |-> "submit", timestamp |-> 10],
   [method |-> Method("GET", "upper"), target |-> "transactions", timestamp |-> 0],
   [method |-> Method("POST", "lower"), target |-> "submit", timestamp |-> 0],
   [method |-> Method("", "upper"), target |-> "submit", timestamp |-> 0],
   [method |-> Method("POST", "upper"), target |-> "", timestamp |-> 0]}

=============================================================================
