-------------------------- MODULE AtLeastOnceCall --------------------------
(***************************************************************************)
(* What one retried HTTP call promises, whatever the statuses, delays and  *)
(* cancellations on the way: the server handles at most the requests of    *)
(* the budgeted attempts, each once, possibly after the call has returned; *)
(* the outcome is decided once; and an "answered" call was handled.  An    *)
(* "unknown" outcome promises nothing about what the server did.           *)
(***************************************************************************)
EXTENDS Integers

CONSTANT MaxRetries

VARIABLES handled,  \* attempts whose request the server has handled
          outcome   \* "pending", "answered" or "unknown"

vars == <<handled, outcome>>

Attempts == 0..MaxRetries

Init == handled = {} /\ outcome = "pending"

Handle(a) ==
  /\ a \notin handled
  /\ handled' = handled \cup {a}
  /\ UNCHANGED outcome

Answer ==
  /\ outcome = "pending"
  /\ handled # {}
  /\ outcome' = "answered"
  /\ UNCHANGED handled

GiveUp ==
  /\ outcome = "pending"
  /\ outcome' = "unknown"
  /\ UNCHANGED handled

Next == (\E a \in Attempts : Handle(a)) \/ Answer \/ GiveUp

Spec == Init /\ [][Next]_vars

=============================================================================
