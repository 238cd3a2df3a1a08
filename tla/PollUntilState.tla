--------------------------- MODULE PollUntilState ---------------------------
(***************************************************************************)
(* One wait for a relayer transaction: PollUntilState called directly, or  *)
(* by Wait or WaitWithOptions.  While the caller polls, the relayer moves  *)
(* the transaction on, so an answer may be stale when it is examined and a *)
(* state may come and go between two polls.                                *)
(*                                                                         *)
(* GetTransaction is one call of the transport (HTTPTransport): it answers *)
(* with what the relayer read at some moment of the call, or it fails.     *)
(***************************************************************************)
EXTENDS Integers

CONSTANTS
  Second,           \* time.Second, in units of time
  DefaultFrequency, \* pollFrequency when the caller's is below a second (2 s)
  DefaultPolls,     \* maxPolls when the caller's is not positive (10)
  WaitPolls,        \* polls of Wait, and of WaitWithOptions by default (100)
  Calls,            \* arguments PollUntilState is called with
  WaitOptions       \* options WaitWithOptions is called with

Absent == "absent"
NoState == ""
TxStates == {"NEW", "EXECUTED", "MINED", "INVALID", "CONFIRMED", "FAILED"}

Arguments == [states : SUBSET TxStates, failState : TxStates \cup {NoState},
              maxPolls : Int, pollFrequency : Int]

ASSUME TimeAssumption == Second \in Nat \ {0} /\ DefaultFrequency \in Nat /\ DefaultFrequency >= Second
ASSUME PollsAssumption == DefaultPolls \in Nat \ {0} /\ WaitPolls \in Nat \ {0}
ASSUME CallsAssumption == Calls \subseteq Arguments
ASSUME OptionsAssumption == WaitOptions \subseteq [maxPolls : Int, pollFrequency : Int]

VARIABLES
  pc,       \* where the call is
  caller,   \* the method that was called
  args,     \* the arguments of PollUntilState, defaults filled in
  polls,    \* polls that are over
  slept,    \* time slept since the last query
  txns,     \* state of the transaction in the last answer, Absent if it had none
  result,   \* what the call returned
  ctxDone,  \* the caller's context is done
  tx        \* the state of the transaction at the relayer

poller == <<pc, caller, args, polls, slept, txns, result>>
vars == <<poller, ctxDone, tx>>

Pending == [kind |-> "pending", state |-> NoState]

Init ==
  /\ pc = "idle"
  /\ caller = "none"
  /\ args = [states |-> {}, failState |-> NoState, maxPolls |-> 1, pollFrequency |-> Second]
  /\ polls = 0
  /\ slept = 0
  /\ txns = Absent
  /\ result = Pending
  /\ ctxDone = FALSE
  /\ tx = Absent

-----------------------------------------------------------------------------
(* The call *)

\* Mutant of frequencyOf: only a frequency that is missing gets the default.
frequencyIfGiven(pollFrequency) ==
  IF pollFrequency <= 0 THEN DefaultFrequency ELSE pollFrequency

frequencyOf(pollFrequency) ==
  IF pollFrequency < Second THEN DefaultFrequency ELSE pollFrequency

\* Entry of PollUntilState, whoever calls it.
Start(method, a) ==
  /\ pc = "idle"
  /\ pc' = "loop"
  /\ caller' = method
  /\ args' = [a EXCEPT !.maxPolls = IF @ <= 0 THEN DefaultPolls ELSE @,
                       !.pollFrequency = frequencyOf(@)]
  /\ UNCHANGED <<polls, slept, txns, result, ctxDone, tx>>

Poll == \E a \in Calls : Start("PollUntilState", a)

\* Mutant of WaitStates: an executed transaction is taken for a mined one.
WaitStatesTooSoon == {"EXECUTED", "MINED", "CONFIRMED"}

WaitStates == {"MINED", "CONFIRMED"}

waitArguments(maxPolls, pollFrequency) ==
  [states |-> WaitStates, failState |-> "FAILED",
   maxPolls |-> maxPolls, pollFrequency |-> pollFrequency]

Wait == Start("Wait", waitArguments(WaitPolls, 0))

WaitWithOptions ==
  \E opts \in WaitOptions :
    Start("WaitWithOptions",
          waitArguments(IF opts.maxPolls <= 0 THEN WaitPolls ELSE opts.maxPolls,
                        opts.pollFrequency))

Return(kind, state) ==
  /\ pc' = "done"
  /\ result' = [kind |-> kind, state |-> state]
  /\ UNCHANGED <<caller, args, polls, slept, txns, ctxDone, tx>>

TimedOut ==
  /\ pc = "loop"
  /\ polls >= args.maxPolls
  /\ Return("timeout", NoState)

Cancelled ==
  /\ pc = "loop"
  /\ polls < args.maxPolls
  /\ ctxDone
  /\ Return("context", NoState)

\* Mutant of Query: the context is not looked at before a poll.
QueryAnyway ==
  /\ pc = "loop"
  /\ polls < args.maxPolls
  /\ pc' = "query"
  /\ slept' = 0
  /\ UNCHANGED <<caller, args, polls, txns, result, ctxDone, tx>>

Query ==
  /\ pc = "loop"
  /\ polls < args.maxPolls
  /\ ~ctxDone
  /\ pc' = "query"
  /\ slept' = 0
  /\ UNCHANGED <<caller, args, polls, txns, result, ctxDone, tx>>

\* The relayer reads the transaction, or does not find it: the list is empty.
Answer ==
  /\ pc = "query"
  /\ pc' = "examine"
  /\ txns' \in {tx, Absent}
  /\ UNCHANGED <<caller, args, polls, slept, result, ctxDone, tx>>

\* GetTransaction fails, on its context or after its retries.
QueryFails ==
  /\ pc = "query"
  /\ \/ Return("error", NoState)
     \/ ctxDone /\ Return("context", NoState)

Desired == txns \in args.states

Failed == ~Desired /\ args.failState # NoState /\ txns = args.failState

Found ==
  /\ pc = "examine"
  /\ Desired
  /\ Return("transaction", txns)

FoundFailed ==
  /\ pc = "examine"
  /\ Failed
  /\ Return("failed", txns)

\* Mutant of NotYet: the last poll's verdict goes unread and the loop goes on.
NotYetAtLast ==
  /\ pc = "examine"
  /\ \/ polls = args.maxPolls - 1 /\ pc' = "loop" /\ polls' = polls + 1
     \/ ~Desired /\ ~Failed /\ polls # args.maxPolls - 1 /\ pc' = "sleep" /\ UNCHANGED polls
  /\ UNCHANGED <<caller, args, slept, txns, result, ctxDone, tx>>

\* Another poll follows a pause; the last one follows none.
NotYet ==
  /\ pc = "examine"
  /\ ~Desired /\ ~Failed
  /\ IF polls = args.maxPolls - 1
     THEN pc' = "loop" /\ polls' = polls + 1
     ELSE pc' = "sleep" /\ UNCHANGED polls
  /\ UNCHANGED <<caller, args, slept, txns, result, ctxDone, tx>>

\* Mutant of Wake: the poll that is over is not counted.
WakeUncounted ==
  /\ pc = "sleep"
  /\ pc' = "loop"
  /\ slept' = args.pollFrequency
  /\ UNCHANGED <<caller, args, polls, txns, result, ctxDone, tx>>

\* The timer fires, if need be along with the cancellation.
Wake ==
  /\ pc = "sleep"
  /\ pc' = "loop"
  /\ polls' = polls + 1
  /\ slept' = args.pollFrequency
  /\ UNCHANGED <<caller, args, txns, result, ctxDone, tx>>

SleepCancelled ==
  /\ pc = "sleep"
  /\ ctxDone
  /\ Return("context", NoState)

-----------------------------------------------------------------------------
(* The environment *)

CancelContext ==
  /\ ~ctxDone
  /\ pc # "done"
  /\ ctxDone' = TRUE
  /\ UNCHANGED <<poller, tx>>

Successors ==
  [s \in TxStates \cup {Absent} |->
     CASE s = Absent     -> {"NEW"}
       [] s = "NEW"      -> {"EXECUTED", "INVALID", "FAILED"}
       [] s = "EXECUTED" -> {"MINED", "FAILED"}
       [] s = "MINED"    -> {"CONFIRMED"}
       [] OTHER          -> {}]

\* The relayer submits the transaction and follows it on the chain.
RelayerAdvances ==
  /\ tx' \in Successors[tx]
  /\ UNCHANGED <<poller, ctxDone>>

PollStep ==
  \/ TimedOut \/ Cancelled \/ Query \/ Answer \/ QueryFails
  \/ Found \/ FoundFailed \/ NotYet \/ Wake \/ SleepCancelled

Next ==
  \/ Poll \/ Wait \/ WaitWithOptions
  \/ PollStep \/ CancelContext \/ RelayerAdvances

Spec == Init /\ [][Next]_vars

\* The goroutine runs, timers fire and the transport's calls return.  The relayer
\* need not advance and the context need not end.
FairSpec == Spec /\ WF_vars(PollStep)

-----------------------------------------------------------------------------
(* Properties *)

\* The variables have their types.
TypeOK ==
  /\ pc \in {"idle", "loop", "query", "examine", "sleep", "done"}
  /\ caller \in {"none", "PollUntilState", "Wait", "WaitWithOptions"}
  /\ args \in Arguments /\ args.maxPolls >= 1 /\ args.pollFrequency >= Second
  /\ polls \in Nat /\ polls <= args.maxPolls
  /\ slept \in Nat
  /\ txns \in TxStates \cup {Absent}
  /\ result \in [kind : {"pending", "transaction", "failed", "timeout", "context", "error"},
                 state : TxStates \cup {NoState}]
  /\ ctxDone \in BOOLEAN
  /\ tx \in TxStates \cup {Absent}

\* States a transaction in state s has certainly been in.
Passed(s) ==
  {s} \cup IF s = "CONFIRMED" THEN {"NEW", "EXECUTED", "MINED"}
          ELSE IF s = "MINED" THEN {"NEW", "EXECUTED"}
          ELSE IF s # Absent THEN {"NEW"} ELSE {}

Waited == caller \in {"Wait", "WaitWithOptions"}

(***************************************************************************)
(* What Wait tells its caller is true when it tells it, although the       *)
(* answer it is based on may be stale: a transaction it returns is mined   *)
(* or confirmed, and one it calls failed has failed.                       *)
(***************************************************************************)
WaitTellsTheTruth ==
  Waited =>
    /\ result.kind = "transaction" => tx \in {"MINED", "CONFIRMED"} /\ result.state \in Passed(tx)
    /\ result.kind = "failed" => tx = "FAILED"

(***************************************************************************)
(* A timeout is reported only after every poll the caller paid for, and    *)
(* never against an answer the loop was given, the last poll's included.   *)
(* Wait and WaitWithOptions ask for states enough that none of them can    *)
(* come and go between two polls: their timeout means that no desired      *)
(* state had been reached at all when the relayer last answered.           *)
(***************************************************************************)
TimeoutIsEarned ==
  result.kind = "timeout" =>
    /\ polls = args.maxPolls
    /\ txns \notin args.states \cup {args.failState}
    /\ Waited => Passed(txns) \cap args.states = {}

(***************************************************************************)
(* Two queries are never less than a second apart, whatever frequency the  *)
(* caller asked for.                                                       *)
(***************************************************************************)
QueriesAreSpaced ==
  [][pc' = "query" /\ pc # "query" => (polls = 0 \/ slept >= Second)]_vars

(***************************************************************************)
(* A wait cancelled while it has polls left, in a pause or between two     *)
(* polls, ends with the context's error: neither with a timeout, be it on  *)
(* its last poll, nor with an answer, whichever way its select goes.       *)
(***************************************************************************)
BetweenPolls == pc = "sleep" \/ (pc = "loop" /\ polls < args.maxPolls)

CancelledBetweenPolls ==
  [](ctxDone /\ BetweenPolls => [](pc = "done" => result.kind = "context"))

\* A call that has begun returns.
Terminates == (pc = "loop") ~> (pc = "done")

(***************************************************************************)
(* response.go:39: WaitWithOptions "polls until the transaction reaches a  *)
(* terminal state".  A transaction read as INVALID is polled again.        *)
(***************************************************************************)
TerminalEndsTheWait ==
  [][Waited /\ pc = "examine" /\ Successors[txns] = {} => pc' = "done" \/ pc' = pc]_vars

=============================================================================
