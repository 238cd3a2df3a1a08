------------------------------ MODULE EndToEnd ------------------------------
(***************************************************************************)
(* The program of examples/end_to_end: look whether the Safe is deployed,  *)
(* deploy it if not and wait, execute and wait.  Any error is a panic, the *)
(* process may be killed, and the operator starts the program again.  A    *)
(* run never knows what became of what an earlier one left on the wire.    *)
(*                                                                         *)
(* The two calls a run makes are callers of RelayClient: a run's Deploy is *)
(* <<run, "deploy">> and its Execute <<run, "execute">>.                   *)
(***************************************************************************)
EXTENDS RelayClient

CONSTANT Runs  \* how often the program is started

ASSUME RunsAssumption == Runs \in Nat \ {0}
ASSUME CallersAssumption == Callers = (1..Runs) \X {"deploy", "execute"}
ASSUME ProgramAssumption == {"SAFE", "SAFE-CREATE"} \subseteq Operations

VARIABLES
  run,   \* the latest run
  place, \* where each run is
  saw    \* what its own look at the Safe showed

program == <<run, place, saw>>
programVars == <<program, vars>>

Ended == {"panicked", "killed", "done"}

Deployer == <<run, "deploy">>
Executor == <<run, "execute">>

ProgramInit ==
  /\ Init
  /\ run = 1
  /\ place = [r \in 1..Runs |-> "start"]
  /\ saw = [r \in 1..Runs |-> FALSE]

At(here) == place[run] = here

To(there) ==
  /\ place' = [place EXCEPT ![run] = there]
  /\ UNCHANGED run

-----------------------------------------------------------------------------
(* One run *)

\* A setting is missing or does not parse, the chain is unknown, or the look at
\* the Safe fails.
StartFails ==
  /\ At("start")
  /\ To("panicked")
  /\ UNCHANGED <<saw, vars>>

\* Mutant of Look: the answer is read the wrong way round.
LookUpsideDown ==
  /\ At("start")
  /\ \E body \in Bodies \ {"garbled"} :
       /\ saw' = [saw EXCEPT ![run] = Reported(body)]
       /\ To(IF Reported(body) THEN "deploy" ELSE "execute")
  /\ UNCHANGED vars

Look ==
  /\ At("start")
  /\ \E body \in Bodies \ {"garbled"} :
       /\ saw' = [saw EXCEPT ![run] = Reported(body)]
       /\ To(IF Reported(body) THEN "execute" ELSE "deploy")
  /\ UNCHANGED vars

CallDeploy ==
  /\ At("deploy")
  /\ Call(Deployer, "SAFE-CREATE")
  /\ To("deploying")
  /\ UNCHANGED saw

CallExecute ==
  /\ At("execute")
  /\ Call(Executor, "SAFE")
  /\ To("executing")
  /\ UNCHANGED saw

\* The call in progress goes on.
CallGoesOn ==
  /\ \/ At("deploying") /\ CallStep(Deployer)
     \/ At("executing") /\ CallStep(Executor)
  /\ UNCHANGED program

\* Mutants of CallEnds: the deployment is not waited for to the end; an error of
\* the execution is only printed.
CallEndsHastily ==
  /\ \/ At("deploying") /\ pc[Deployer] \in {"wait", "returned"}
          /\ To(IF result[Deployer] = "submitted" THEN "execute" ELSE "panicked")
     \/ At("executing") /\ pc[Executor] = "returned"
          /\ To(IF verdict[Executor] = "mined" THEN "confirmed" ELSE "panicked")
  /\ UNCHANGED <<saw, vars>>

CallEndsQuietly ==
  /\ \/ At("deploying") /\ pc[Deployer] = "returned"
          /\ To(IF verdict[Deployer] = "mined" THEN "execute" ELSE "panicked")
     \/ At("executing") /\ pc[Executor] = "returned"
          /\ To("confirmed")
  /\ UNCHANGED <<saw, vars>>

\* Only a transaction seen mined lets the program go on.
CallEnds ==
  /\ \/ At("deploying") /\ pc[Deployer] = "returned"
          /\ To(IF verdict[Deployer] = "mined" THEN "execute" ELSE "panicked")
     \/ At("executing") /\ pc[Executor] = "returned"
          /\ To(IF verdict[Executor] = "mined" THEN "confirmed" ELSE "panicked")
  /\ UNCHANGED <<saw, vars>>

\* GetTransactions, after "Transaction confirmed" has been printed.
ListTransactions ==
  /\ At("confirmed")
  /\ To("done") \/ To("panicked")
  /\ UNCHANGED <<saw, vars>>

RunStep ==
  StartFails \/ Look \/ CallDeploy \/ CallExecute \/ CallGoesOn \/ CallEnds \/ ListTransactions

-----------------------------------------------------------------------------
(* The operator and the rest of the world *)

Kill ==
  /\ place[run] \notin Ended
  /\ To("killed")
  /\ UNCHANGED <<saw, vars>>

StartAgain ==
  /\ place[run] \in Ended
  /\ run < Runs
  /\ run' = run + 1
  /\ UNCHANGED <<place, saw, vars>>

Relayer == RelayerNext /\ UNCHANGED program

ProgramNext == RunStep \/ Kill \/ StartAgain \/ Relayer

ProgramSpec == ProgramInit /\ [][ProgramNext]_programVars

\* A process that runs goes on; nobody has to start it again, nor the relayer to act.
FairProgramSpec == ProgramSpec /\ WF_programVars(RunStep)

-----------------------------------------------------------------------------
(* Properties *)

(***************************************************************************)
(* A run's Execute is never refused for want of a Safe: the program has    *)
(* seen it deployed, or has waited until its own deployment was mined.     *)
(***************************************************************************)
SafeIsReady == \A r \in 1..Runs : result[<<r, "execute">>] # "safe not deployed"

(***************************************************************************)
(* Deploy tells a run that the Safe is deployed already only if a          *)
(* deployment some earlier run submitted, and did not see mined, took      *)
(* effect between the program's look and Deploy's own.  The program then   *)
(* panics, though it could go on.                                          *)
(***************************************************************************)
LateDeploymentsOnly ==
  \A r \in 1..Runs : result[<<r, "deploy">>] = "safe deployed" =>
    /\ ~saw[r]
    /\ \E s \in 1..(r - 1) : /\ MinedFor(<<s, "deploy">>) # {}
                             /\ verdict[<<s, "deploy">>] # "mined"

(***************************************************************************)
(* What a run has printed as confirmed took effect exactly once, and two   *)
(* runs are never confirmed by one effect, though they execute the same    *)
(* transaction and may submit identical requests.  Of a run that panicked  *)
(* nothing is executed, ever, unless it panicked over a submission or a    *)
(* Wait: a further run then repeats nothing, whatever was left on the      *)
(* wire.                                                                   *)
(***************************************************************************)
Confirmed(r) == place[r] \in {"confirmed", "done"}

PanicsTellTheTruth ==
  \A r \in 1..Runs :
    LET mine == MinedFor(<<r, "execute">>)
    IN  /\ Confirmed(r) => Cardinality(mine) = 1
        /\ \A s \in 1..Runs \ {r} :
             Confirmed(r) /\ Confirmed(s) => mine \cap MinedFor(<<s, "execute">>) = {}
        /\ place[r] = "panicked" /\ mine # {} =>
             result[<<r, "execute">>] \in
               {"submission failed", "declined", "not decoded", "submitted"}

(***************************************************************************)
(* A run ends, by itself or killed, whatever the relayer answers or fails  *)
(* to answer.                                                              *)
(***************************************************************************)
RunEnds == \A r \in 1..Runs : (run = r) ~> (place[r] \in Ended)

=============================================================================
