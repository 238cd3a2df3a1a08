------------------------- MODULE RelayedOperations -------------------------
(***************************************************************************)
(* What Execute and Deploy, and the Wait on what they return, promise to   *)
(* their callers: a call submits one request at most, a request takes      *)
(* effect on the chain at most once, a call that is turned down has        *)
(* submitted none, and a caller is told that its transaction was mined     *)
(* only when the request it submitted took effect.  Any other answer       *)
(* leaves open whether it did or will.                                     *)
(*                                                                         *)
(* Callers with identical requests share an effect: all of them may be     *)
(* told that it was mined.                                                 *)
(***************************************************************************)
EXTENDS Integers

CONSTANT Callers

VARIABLES submitted, \* the request each caller has submitted, if any
          effects,   \* how often each request has taken effect that has
          told       \* what each caller has been told

vars == <<submitted, effects, told>>

Init ==
  /\ submitted = [c \in Callers |-> {}]
  /\ effects = [request \in {} |-> 0]
  /\ told = [c \in Callers |-> "pending"]

Submit(c) ==
  /\ told[c] = "pending"
  /\ submitted[c] = {}
  /\ \E request \in submitted'[c] : submitted' = [submitted EXCEPT ![c] = {request}]
  /\ UNCHANGED <<effects, told>>

TakeEffect(c) ==
  /\ \E request \in submitted[c] \ DOMAIN effects :
       effects' = [r \in DOMAIN effects \cup {request} |->
                     IF r = request THEN 1 ELSE effects[r]]
  /\ UNCHANGED <<submitted, told>>

Tell(c, answer) ==
  /\ told' = [told EXCEPT ![c] = answer]
  /\ UNCHANGED <<submitted, effects>>

Reject(c) == told[c] = "pending" /\ submitted[c] = {} /\ Tell(c, "rejected")

Accept(c) == told[c] = "pending" /\ submitted[c] # {} /\ Tell(c, "submitted")

LoseTrack(c) == told[c] \in {"pending", "submitted"} /\ Tell(c, "unknown")

Confirm(c) ==
  told[c] = "submitted" /\ submitted[c] \cap DOMAIN effects # {} /\ Tell(c, "mined")

Fail(c) == told[c] = "submitted" /\ Tell(c, "failed")

Next ==
  \E c \in Callers :
    Submit(c) \/ TakeEffect(c) \/ Reject(c) \/ Accept(c) \/ LoseTrack(c) \/ Confirm(c) \/ Fail(c)

Spec == Init /\ [][Next]_vars

=============================================================================
