----------------------- MODULE PollUntilStateProofs -----------------------
(***************************************************************************)
(* Proofs about one wait for a transaction, for every set of arguments,    *)
(* every default and every unit of time.                                   *)
(***************************************************************************)
EXTENDS PollUntilState, TLAPS

-----------------------------------------------------------------------------
(* The inductive invariant *)

\* A poll that is under way is one of those the caller paid for, and the one
\* that sleeps is not the last.
PollsRemain ==
  /\ pc \in {"query", "examine"} => polls < args.maxPolls
  /\ pc = "sleep" => polls < args.maxPolls - 1

\* The loop is left with polls over only by the last poll, after it has read
\* its answer, and is otherwise entered from a pause.
LoopEntry ==
  pc = "loop" =>
    /\ polls >= args.maxPolls => ~Desired /\ txns # args.failState
    /\ polls < args.maxPolls => polls = 0 \/ slept >= Second

\* An answer may be stale, but not about the states from which nothing else
\* follows than what Wait reports.
AnswerKeeps ==
  /\ txns = "MINED" => tx \in {"MINED", "CONFIRMED"}
  /\ txns \in {"CONFIRMED", "FAILED"} => tx = txns

\* What was returned is what the last answer says under the arguments.
ResultOfPolls ==
  /\ result.kind # "pending" => pc = "done"
  /\ result.kind = "transaction" => Desired /\ result.state = txns
  /\ result.kind = "failed" => txns = args.failState
  /\ result.kind = "timeout" =>
       polls = args.maxPolls /\ ~Desired /\ txns # args.failState

ArgumentsOfWait ==
  Waited => args.states = {"MINED", "CONFIRMED"} /\ args.failState = "FAILED"

BeforeTheCall == pc = "idle" => caller = "none" /\ polls = 0

IInv ==
  /\ TypeOK
  /\ PollsRemain
  /\ LoopEntry
  /\ AnswerKeeps
  /\ ResultOfPolls
  /\ ArgumentsOfWait
  /\ BeforeTheCall

-----------------------------------------------------------------------------
(* Entry of the call *)

LEMMA FrequencyIsSpaced ==
  ASSUME NEW f \in Int
  PROVE  frequencyOf(f) \in Int /\ frequencyOf(f) >= Second
BY TimeAssumption DEF frequencyOf

LEMMA ArgumentFields ==
  ASSUME NEW a \in Arguments
  PROVE  /\ a.maxPolls \in Int /\ a.pollFrequency \in Int
         /\ a.states \in SUBSET TxStates /\ a.failState \in TxStates \cup {NoState}
BY DEF Arguments

LEMMA TypesOfPolls ==
  ASSUME TypeOK
  PROVE  /\ polls \in Nat /\ slept \in Nat /\ polls <= args.maxPolls
         /\ args.maxPolls \in Int /\ args.pollFrequency \in Int
         /\ args.pollFrequency >= Second
         /\ args.states \in SUBSET TxStates /\ args.failState \in TxStates \cup {NoState}
BY ArgumentFields DEF TypeOK

\* Start fills the defaults in and leaves a call with polls to spend.
LEMMA StartFillsIn ==
  ASSUME NEW method, NEW a \in Arguments, Start(method, a)
  PROVE  /\ args' \in Arguments
         /\ args'.maxPolls >= 1 /\ args'.pollFrequency >= Second
         /\ args'.states = a.states /\ args'.failState = a.failState
<1> DEFINE m == IF a.maxPolls <= 0 THEN DefaultPolls ELSE a.maxPolls
           f == frequencyOf(a.pollFrequency)
<1>1. m \in Int /\ m >= 1
  BY PollsAssumption, ArgumentFields
<1>2. f \in Int /\ f >= Second
  BY FrequencyIsSpaced, ArgumentFields
<1>3. args' = [a EXCEPT !.maxPolls = m, !.pollFrequency = f]
  BY DEF Start
<1> HIDE DEF m, f
<1>4. /\ args' \in Arguments
      /\ args'.maxPolls = m /\ args'.pollFrequency = f
      /\ args'.states = a.states /\ args'.failState = a.failState
  BY <1>1, <1>2, <1>3 DEF Arguments
<1> QED
  BY <1>1, <1>2, <1>4

LEMMA StartKeepsIInv ==
  ASSUME IInv, NEW method \in {"PollUntilState", "Wait", "WaitWithOptions"},
         NEW a \in Arguments, Start(method, a),
         method \in {"Wait", "WaitWithOptions"} =>
           a.states = {"MINED", "CONFIRMED"} /\ a.failState = "FAILED"
  PROVE  IInv'
<1>1. /\ args' \in Arguments
      /\ args'.maxPolls >= 1 /\ args'.pollFrequency >= Second
      /\ args'.states = a.states /\ args'.failState = a.failState
  BY StartFillsIn
<1>2. args'.maxPolls \in Int
  BY <1>1, ArgumentFields
<1>3. /\ pc = "idle" /\ pc' = "loop" /\ caller' = method
      /\ polls' = 0 /\ slept' = slept /\ txns' = txns
      /\ result' = result /\ ctxDone' = ctxDone /\ tx' = tx
      /\ result.kind = "pending"
  BY DEF Start, IInv, BeforeTheCall, ResultOfPolls
<1>4. TypeOK'
  BY <1>1, <1>2, <1>3 DEF IInv, TypeOK
<1>5. PollsRemain' /\ LoopEntry'
  BY <1>1, <1>2, <1>3 DEF PollsRemain, LoopEntry
<1>6. AnswerKeeps' /\ BeforeTheCall'
  BY <1>3 DEF IInv, AnswerKeeps, BeforeTheCall
<1>7. ResultOfPolls'
  BY <1>3 DEF ResultOfPolls
<1>8. ArgumentsOfWait'
  BY <1>1, <1>3 DEF ArgumentsOfWait, Waited
<1> QED
  BY <1>4, <1>5, <1>6, <1>7, <1>8 DEF IInv

LEMMA WaitArgumentsAreArguments ==
  ASSUME NEW m \in Int, NEW f \in Int
  PROVE  /\ waitArguments(m, f) \in Arguments
         /\ waitArguments(m, f).states = {"MINED", "CONFIRMED"}
         /\ waitArguments(m, f).failState = "FAILED"
BY DEF waitArguments, WaitStates, Arguments, TxStates

-----------------------------------------------------------------------------
(* Returning *)

\* A return keeps the invariant when the result it gives fits the last answer.
LEMMA ReturnKeepsIInv ==
  ASSUME IInv, pc # "idle",
         NEW kind \in {"transaction", "failed", "timeout", "context", "error"},
         NEW state \in TxStates \cup {NoState}, Return(kind, state),
         kind = "transaction" => Desired /\ state = txns,
         kind = "failed" => txns = args.failState,
         kind = "timeout" => polls = args.maxPolls /\ ~Desired /\ txns # args.failState
  PROVE  IInv'
<1> USE DEF IInv, Return
<1>1. result'.kind = kind /\ result'.state = state
  OBVIOUS
<1>2. TypeOK'
  BY DEF TypeOK
<1>3. PollsRemain' /\ LoopEntry' /\ AnswerKeeps' /\ BeforeTheCall'
  BY DEF PollsRemain, LoopEntry, AnswerKeeps, BeforeTheCall
<1>4. ResultOfPolls'
  BY <1>1 DEF ResultOfPolls, Desired
<1>5. ArgumentsOfWait'
  BY DEF ArgumentsOfWait, Waited
<1> QED
  BY <1>2, <1>3, <1>4, <1>5

-----------------------------------------------------------------------------
(* The relayer *)

LEMMA RelayerOnlyMovesOn ==
  ASSUME tx \in TxStates \cup {Absent}, AnswerKeeps, RelayerAdvances
  PROVE  tx' \in TxStates /\ AnswerKeeps'
<1> USE DEF TxStates, Absent
<1>1. tx \in {"MINED", "CONFIRMED", "FAILED", "INVALID", "EXECUTED", "NEW", "absent"}
  OBVIOUS
<1>2. tx' \in Successors[tx] /\ txns' = txns
  BY DEF RelayerAdvances, poller
<1>3. CASE tx = "MINED"
  <2>1. tx' = "CONFIRMED"
    BY <1>2, <1>3 DEF Successors
  <2> QED
    BY <1>2, <1>3, <2>1 DEF AnswerKeeps
<1>4. CASE tx \in {"CONFIRMED", "FAILED", "INVALID"}
  <2>1. Successors[tx] = {}
    BY <1>4 DEF Successors
  <2> QED
    BY <1>2, <2>1
<1>5. CASE tx \in {"EXECUTED", "NEW", "absent"}
  <2>1. tx' \in TxStates
    BY <1>2, <1>5 DEF Successors
  <2>2. txns \notin {"MINED", "CONFIRMED", "FAILED"}
    BY <1>5 DEF AnswerKeeps
  <2> QED
    BY <1>2, <2>1, <2>2 DEF AnswerKeeps
<1> QED
  BY <1>1, <1>3, <1>4, <1>5

-----------------------------------------------------------------------------
(* Induction *)

LEMMA InitEstablishes == Init => IInv
<1> SUFFICES ASSUME Init PROVE IInv
  OBVIOUS
<1>1. args \in Arguments /\ args.maxPolls = 1 /\ args.pollFrequency = Second
  <2>1. Second \in Int /\ {} \in SUBSET TxStates /\ NoState \in TxStates \cup {NoState}
    BY TimeAssumption
  <2>2. args = [states |-> {}, failState |-> NoState, maxPolls |-> 1, pollFrequency |-> Second]
    BY DEF Init
  <2> QED
    BY <2>1, <2>2 DEF Arguments
<1>2. result \in [kind : {"pending"}, state : {NoState}]
  BY DEF Init, Pending
<1>3. TypeOK
  <2>1. args \in Arguments /\ args.maxPolls >= 1 /\ args.pollFrequency >= Second
    BY <1>1, TimeAssumption
  <2>2. polls = 0 /\ slept = 0 /\ polls <= args.maxPolls
    BY <1>1 DEF Init
  <2>3. result \in [kind : {"pending", "transaction", "failed", "timeout", "context", "error"},
                    state : TxStates \cup {NoState}]
    BY <1>2
  <2>4. /\ pc = "idle" /\ caller = "none" /\ ctxDone = FALSE
        /\ txns = Absent /\ tx = Absent
    BY DEF Init
  <2> QED
    BY <2>1, <2>2, <2>3, <2>4 DEF TypeOK
<1> QED
  BY <1>3 DEF Init, IInv, PollsRemain, LoopEntry, AnswerKeeps, ResultOfPolls, Absent, Pending,
              ArgumentsOfWait, Waited, BeforeTheCall

LEMMA StepPreserves == IInv /\ [Next]_vars => IInv'
<1> SUFFICES ASSUME IInv, [Next]_vars PROVE IInv'
  OBVIOUS
<1> USE DEF IInv
<1>1. CASE Poll
  <2>1. PICK a \in Calls : Start("PollUntilState", a)
    BY <1>1 DEF Poll
  <2>2. a \in Arguments
    BY CallsAssumption
  <2> QED
    BY <2>1, <2>2, StartKeepsIInv
<1>2. CASE Wait
  <2>1. WaitPolls \in Int
    BY PollsAssumption
  <2> QED
    BY <1>2, <2>1, WaitArgumentsAreArguments, StartKeepsIInv DEF Wait
<1>3. CASE WaitWithOptions
  <2>1. PICK opts \in WaitOptions :
          Start("WaitWithOptions",
                waitArguments(IF opts.maxPolls <= 0 THEN WaitPolls ELSE opts.maxPolls,
                              opts.pollFrequency))
    BY <1>3 DEF WaitWithOptions
  <2>2. /\ (IF opts.maxPolls <= 0 THEN WaitPolls ELSE opts.maxPolls) \in Int
        /\ opts.pollFrequency \in Int
    BY OptionsAssumption, PollsAssumption
  <2> QED
    BY <2>1, <2>2, WaitArgumentsAreArguments, StartKeepsIInv
<1>4. CASE TimedOut
  <2>1. polls = args.maxPolls /\ ~Desired /\ txns # args.failState
    BY <1>4, TypesOfPolls DEF TimedOut, LoopEntry
  <2> QED
    BY <1>4, <2>1, ReturnKeepsIInv DEF TimedOut
<1>5. CASE Cancelled
  BY <1>5, ReturnKeepsIInv DEF Cancelled
<1>6. CASE Query
  <2> USE <1>6 DEF Query
  <2>1. TypeOK'
    BY DEF TypeOK
  <2>2. PollsRemain' /\ LoopEntry' /\ AnswerKeeps' /\ BeforeTheCall'
    BY TypesOfPolls DEF PollsRemain, LoopEntry, AnswerKeeps, BeforeTheCall
  <2>3. ResultOfPolls' /\ ArgumentsOfWait'
    BY DEF ResultOfPolls, ArgumentsOfWait, Waited, Desired
  <2> QED
    BY <2>1, <2>2, <2>3
<1>7. CASE Answer
  <2> USE <1>7 DEF Answer
  <2>1. TypeOK'
    BY DEF TypeOK
  <2>2. PollsRemain' /\ LoopEntry' /\ AnswerKeeps' /\ BeforeTheCall'
    BY DEF PollsRemain, LoopEntry, AnswerKeeps, BeforeTheCall, Absent
  <2>3. ResultOfPolls' /\ ArgumentsOfWait'
    BY DEF ResultOfPolls, ArgumentsOfWait, Waited, Desired
  <2> QED
    BY <2>1, <2>2, <2>3
<1>8. CASE QueryFails
  BY <1>8, ReturnKeepsIInv DEF QueryFails
<1>9. CASE Found
  <2>1. txns \in TxStates
    BY <1>9, TypesOfPolls DEF Found, Desired
  <2> QED
    BY <1>9, <2>1, ReturnKeepsIInv DEF Found
<1>10. CASE FoundFailed
  <2>1. txns = args.failState /\ txns \in TxStates
    BY <1>10, TypesOfPolls DEF FoundFailed, Failed
  <2> QED
    BY <1>10, <2>1, ReturnKeepsIInv DEF FoundFailed
<1>11. CASE NotYet
  <2> USE <1>11 DEF NotYet
  <2>1. polls < args.maxPolls /\ args.maxPolls \in Int /\ polls \in Nat
    BY TypesOfPolls DEF PollsRemain
  <2>2. TypeOK'
    BY <2>1 DEF TypeOK
  <2>3. ~Desired /\ txns # args.failState
    <3>1. txns # NoState
      BY DEF TypeOK, TxStates, Absent, NoState
    <3> QED
      BY <3>1 DEF Failed
  <2>4. PollsRemain'
    BY <2>1 DEF PollsRemain
  <2>5. LoopEntry'
    BY <2>1, <2>3 DEF LoopEntry, Desired
  <2>6. AnswerKeeps' /\ BeforeTheCall' /\ ResultOfPolls' /\ ArgumentsOfWait'
    BY DEF AnswerKeeps, BeforeTheCall, ResultOfPolls, ArgumentsOfWait, Waited, Desired
  <2> QED
    BY <2>2, <2>4, <2>5, <2>6
<1>12. CASE Wake
  <2> USE <1>12 DEF Wake
  <2>1. /\ polls < args.maxPolls - 1 /\ args.maxPolls \in Int /\ polls \in Nat
        /\ args.pollFrequency \in Int /\ args.pollFrequency >= Second
    BY TypesOfPolls DEF PollsRemain
  <2>2. Second \in Nat
    BY TimeAssumption
  <2>3. TypeOK'
    BY <2>1, <2>2 DEF TypeOK
  <2>4. PollsRemain' /\ LoopEntry'
    BY <2>1, <2>2 DEF PollsRemain, LoopEntry
  <2>5. AnswerKeeps' /\ BeforeTheCall' /\ ResultOfPolls' /\ ArgumentsOfWait'
    BY DEF AnswerKeeps, BeforeTheCall, ResultOfPolls, ArgumentsOfWait, Waited, Desired
  <2> QED
    BY <2>3, <2>4, <2>5
<1>13. CASE SleepCancelled
  BY <1>13, ReturnKeepsIInv DEF SleepCancelled
<1>14. CASE CancelContext
  <2> USE <1>14 DEF CancelContext, poller
  <2>1. TypeOK'
    BY DEF TypeOK
  <2> QED
    BY <2>1 DEF PollsRemain, LoopEntry, AnswerKeeps, ResultOfPolls, ArgumentsOfWait,
                Waited, BeforeTheCall, Desired
<1>15. CASE RelayerAdvances
  <2>1. tx' \in TxStates /\ AnswerKeeps'
    BY <1>15, RelayerOnlyMovesOn DEF TypeOK
  <2> USE <1>15 DEF RelayerAdvances, poller
  <2>2. TypeOK'
    BY <2>1 DEF TypeOK
  <2> QED
    BY <2>1, <2>2 DEF PollsRemain, LoopEntry, ResultOfPolls, ArgumentsOfWait,
                      Waited, BeforeTheCall, Desired
<1>16. CASE UNCHANGED vars
  <2> USE <1>16 DEF vars, poller
  <2>1. TypeOK'
    BY DEF TypeOK
  <2> QED
    BY <2>1 DEF PollsRemain, LoopEntry, AnswerKeeps, ResultOfPolls, ArgumentsOfWait,
                Waited, BeforeTheCall, Desired
<1> QED
  BY <1>1, <1>2, <1>3, <1>4, <1>5, <1>6, <1>7, <1>8, <1>9, <1>10, <1>11, <1>12,
     <1>13, <1>14, <1>15, <1>16 DEF Next, PollStep

LEMMA InvariantHolds == Spec => []IInv
BY InitEstablishes, StepPreserves, PTL DEF Spec

-----------------------------------------------------------------------------
(* Theorems *)

\* The variables of a wait keep their types: the arguments filled in at entry
\* ask for a poll at least and a second at least between two of them.
THEOREM TypeCorrectness == Spec => []TypeOK
<1>1. IInv => TypeOK
  BY DEF IInv
<1> QED
  BY <1>1, InvariantHolds, PTL

\* What Wait and WaitWithOptions say of the transaction is true when they say
\* it, however stale the answer of the relayer was.
THEOREM WaitIsTruthful == Spec => []WaitTellsTheTruth
<1>1. IInv => WaitTellsTheTruth
  <2> SUFFICES ASSUME IInv, Waited
               PROVE  /\ result.kind = "transaction" =>
                           tx \in {"MINED", "CONFIRMED"} /\ result.state \in Passed(tx)
                      /\ result.kind = "failed" => tx = "FAILED"
    BY DEF WaitTellsTheTruth
  <2>1. args.states = {"MINED", "CONFIRMED"} /\ args.failState = "FAILED"
    BY DEF IInv, ArgumentsOfWait
  <2>2. ASSUME result.kind = "transaction"
        PROVE  tx \in {"MINED", "CONFIRMED"} /\ result.state \in Passed(tx)
    <3>1. txns \in {"MINED", "CONFIRMED"} /\ result.state = txns
      BY <2>1, <2>2 DEF IInv, ResultOfPolls, Desired
    <3>2. \/ tx = "MINED" /\ txns = "MINED"
          \/ tx = "CONFIRMED"
      BY <3>1 DEF IInv, AnswerKeeps
    <3> QED
      BY <3>1, <3>2 DEF Passed
  <2>3. ASSUME result.kind = "failed"
        PROVE  tx = "FAILED"
    BY <2>1, <2>3 DEF IInv, ResultOfPolls, AnswerKeeps
  <2> QED
    BY <2>2, <2>3
<1> QED
  BY <1>1, InvariantHolds, PTL

\* ErrTransactionTimeout comes after every poll and against no answer, and Wait
\* has not missed a state it was asked for between two polls.
THEOREM TimeoutComesLast == Spec => []TimeoutIsEarned
<1>1. IInv => TimeoutIsEarned
  <2> SUFFICES ASSUME IInv, result.kind = "timeout"
               PROVE  /\ polls = args.maxPolls
                      /\ txns \notin args.states \cup {args.failState}
                      /\ Waited => Passed(txns) \cap args.states = {}
    BY DEF TimeoutIsEarned
  <2>1. polls = args.maxPolls /\ ~Desired /\ txns # args.failState
    BY DEF IInv, ResultOfPolls
  <2>2. txns \in TxStates \cup {Absent}
    BY DEF IInv, TypeOK
  <2>3. ASSUME Waited PROVE Passed(txns) \cap args.states = {}
    <3>1. args.states = {"MINED", "CONFIRMED"}
      BY <2>3 DEF IInv, ArgumentsOfWait
    <3>2. txns \notin args.states
      BY <2>1, <2>2, <3>1 DEF Desired, Absent
    <3> QED
      BY <3>1, <3>2 DEF Passed
  <2> QED
    BY <2>1, <2>2, <2>3 DEF Desired
<1> QED
  BY <1>1, InvariantHolds, PTL

\* At least a second separates two queries, whatever the caller asked for.
THEOREM PollingIsSpaced == Spec => QueriesAreSpaced
<1>1. IInv /\ [Next]_vars => [pc' = "query" /\ pc # "query" => (polls = 0 \/ slept >= Second)]_vars
  <2> SUFFICES ASSUME IInv, Next, pc' = "query", pc # "query"
               PROVE  polls = 0 \/ slept >= Second
    OBVIOUS
  <2>1. pc = "loop" /\ polls < args.maxPolls
    BY DEF Next, PollStep, Poll, Wait, WaitWithOptions, Start, TimedOut, Cancelled, Query,
           Answer, QueryFails, Found, FoundFailed, NotYet, Wake, SleepCancelled, Return,
           CancelContext, RelayerAdvances, poller
  <2> QED
    BY <2>1 DEF IInv, LoopEntry
<1> QED
  BY <1>1, InvariantHolds, PTL DEF Spec, QueriesAreSpaced

(***************************************************************************)
(* A wait cancelled between two polls ends with the context's error: the   *)
(* poll it sleeps before is one it still has (PollsRemain).                *)
(***************************************************************************)
GivenUp ==
  /\ ctxDone
  /\ BetweenPolls \/ (pc = "done" /\ result.kind = "context")

LEMMA GivenUpStays == IInv /\ GivenUp /\ [Next]_vars => GivenUp'
<1> SUFFICES ASSUME IInv, GivenUp, [Next]_vars PROVE GivenUp'
  OBVIOUS
<1> USE DEF GivenUp, BetweenPolls
<1>1. CASE Cancelled \/ SleepCancelled
  <2>1. /\ pc' = "done" /\ ctxDone' = ctxDone
        /\ result' = [kind |-> "context", state |-> NoState]
    BY <1>1 DEF Cancelled, SleepCancelled, Return
  <2>2. result'.kind = "context"
    BY <2>1
  <2> QED
    BY <2>1, <2>2
<1>2. CASE Wake
  <2>1. polls < args.maxPolls - 1 /\ polls \in Nat /\ args.maxPolls \in Int
    BY <1>2, TypesOfPolls DEF Wake, IInv, PollsRemain
  <2>2. pc' = "loop" /\ polls' = polls + 1 /\ args' = args /\ ctxDone' = ctxDone
    BY <1>2 DEF Wake
  <2> QED
    BY <2>1, <2>2
<1>3. CASE TimedOut
  BY <1>3, TypesOfPolls DEF TimedOut, IInv
<1>4. CASE Poll \/ Wait \/ WaitWithOptions \/ Query \/ Answer \/ QueryFails \/ Found
           \/ FoundFailed \/ NotYet
  BY <1>4 DEF Poll, Wait, WaitWithOptions, Start, Query, Answer, QueryFails, Found,
              FoundFailed, NotYet
<1>5. CASE CancelContext \/ RelayerAdvances \/ UNCHANGED vars
  BY <1>5 DEF CancelContext, RelayerAdvances, poller, vars
<1> QED
  BY <1>1, <1>2, <1>3, <1>4, <1>5 DEF Next, PollStep

\* A wait cancelled while it has polls left returns the context's error, for every
\* caller, number of polls and frequency.
THEOREM CancelledWaitsSaySo == Spec => CancelledBetweenPolls
<1>1. ctxDone /\ BetweenPolls => GivenUp
  BY DEF GivenUp
<1>2. GivenUp => (pc = "done" => result.kind = "context")
  BY DEF GivenUp, BetweenPolls
<1> QED
  BY <1>1, <1>2, GivenUpStays, InvariantHolds, PTL DEF Spec, CancelledBetweenPolls

=============================================================================
