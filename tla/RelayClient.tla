----------------------------- MODULE RelayClient -----------------------------
(***************************************************************************)
(* Execute (SAFE and PROXY) and Deploy, each called once by a goroutine of *)
(* its own on behalf of one signer, and Wait on what they return.          *)
(*                                                                         *)
(* A GET is one call of the transport: it yields what the relayer read at  *)
(* some moment of the call, nothing at all (a success with an empty body   *)
(* leaves the zero value), or an error.  The POST to /submit is the at-    *)
(* least-once call of AtLeastOnceCall: the same signed request is sent up  *)
(* to MaxRetries + 1 times, and an attempt the client has given up on may  *)
(* still arrive.  The relayer and the chain are the environment, and the   *)
(* relayer sees no goroutines: a request is what was signed, and identical *)
(* requests of two goroutines may be taken for one.                        *)
(***************************************************************************)
EXTENDS Integers, Sequences, FiniteSets

CONSTANTS
  Callers,       \* goroutines
  Operations,    \* operations they may call
  Batches,       \* what Execute may be asked for: transactions and metadata
  MaxRetries,    \* retries of the transport
  InitialNonces, \* nonces the wallets may have used up before
  Bodies         \* bodies of the relayer's successful replies

OperationKinds == {"SAFE", "PROXY", "SAFE-CREATE"}
BodyKinds == {"json", "empty", "garbled"}

ASSUME OperationsAssumption == Operations \subseteq OperationKinds
ASSUME RetriesAssumption == MaxRetries \in Nat
ASSUME NoncesAssumption == InitialNonces \subseteq Nat
ASSUME BodiesAssumption == Bodies \subseteq BodyKinds

VARIABLES
  pc,         \* where each call is
  operation,  \* the operation it performs
  batch,      \* what it was asked for, NoBatch if it is a deployment
  nonce,      \* the nonce it was given, NoNonce if none
  sent,       \* attempts of its POST sent so far
  wire,       \* attempts of its POST that have not arrived yet, with their nonce
  reply,      \* the relayer's reply to the latest attempt
  result,     \* what Execute or Deploy returned
  handle,     \* the TransactionID it returned, NoID if none
  verdict,    \* what Wait returned
  deployedAtCall, \* the Safe was deployed before the call
  deployed,   \* the Safe is deployed
  walletNonce,\* next nonce of the Safe and of the proxy wallet
  records     \* transactions the relayer has accepted; an index is an ID

calls ==
  <<pc, operation, batch, nonce, sent, wire, reply, result, handle, verdict, deployedAtCall>>
chain == <<deployed, walletNonce, records>>
vars == <<calls, chain>>

NoBatch == "none"
NoNonce == -1
NoID == 0
Attempts == 0..MaxRetries
NoReply == [kind |-> "none", id |-> NoID]
Wallets == {"SAFE", "PROXY"}
IDs == DOMAIN records

Set(f, c, v) == [f EXCEPT ![c] = v]

Init ==
  /\ pc = [c \in Callers |-> "idle"]
  /\ operation = [c \in Callers |-> "none"]
  /\ batch = [c \in Callers |-> NoBatch]
  /\ nonce = [c \in Callers |-> NoNonce]
  /\ sent = [c \in Callers |-> 0]
  /\ wire = [c \in Callers |-> {}]
  /\ reply = [c \in Callers |-> NoReply]
  /\ result = [c \in Callers |-> "pending"]
  /\ handle = [c \in Callers |-> NoID]
  /\ verdict = [c \in Callers |-> "none"]
  /\ deployedAtCall = [c \in Callers |-> FALSE]
  /\ deployed \in BOOLEAN
  /\ walletNonce \in [Wallets -> InitialNonces]
  /\ records = <<>>

-----------------------------------------------------------------------------
(* Execute and Deploy up to the submission *)

Goto(c, place) ==
  /\ pc' = Set(pc, c, place)
  /\ UNCHANGED <<operation, batch, sent, wire, reply, result, handle, verdict, deployedAtCall>>

Return(c, answer) ==
  /\ pc' = Set(pc, c, "returned")
  /\ result' = Set(result, c, answer)
  /\ UNCHANGED <<operation, batch, nonce, sent, wire, reply, handle, verdict, deployedAtCall>>

\* The guards before the first request: no signer, no transactions, an
\* unsupported transaction type, a chain without the contracts.
Refuse(c) ==
  /\ pc[c] = "idle"
  /\ Return(c, "refused")
  /\ UNCHANGED chain

Call(c, op) ==
  /\ pc[c] = "idle"
  /\ pc' = Set(pc, c, IF op = "PROXY" THEN "nonce" ELSE "deployed")
  /\ operation' = Set(operation, c, op)
  /\ \E b \in IF op = "SAFE-CREATE" THEN {NoBatch} ELSE Batches : batch' = Set(batch, c, b)
  /\ deployedAtCall' = Set(deployedAtCall, c, deployed)
  /\ UNCHANGED <<nonce, sent, wire, reply, result, handle, verdict>>
  /\ UNCHANGED chain

\* A GET, or the authentication it needs, fails.
RequestFails(c) ==
  /\ pc[c] \in {"deployed", "nonce"}
  /\ Return(c, "request failed")
  /\ UNCHANGED chain

\* The "deployed" of a reply, FALSE if the reply is empty.
Reported(body) == body = "json" /\ deployed

\* Mutant of Deployment: Deploy does not look at the answer.
DeploymentIgnored(c, isDeployed) ==
  \/ operation[c] = "SAFE" /\ isDeployed /\ Goto(c, "nonce") /\ UNCHANGED nonce
  \/ operation[c] = "SAFE" /\ ~isDeployed /\ Return(c, "safe not deployed")
  \/ operation[c] = "SAFE-CREATE" /\ Goto(c, "sign") /\ UNCHANGED nonce

Deployment(c, isDeployed) ==
  \/ operation[c] = "SAFE" /\ isDeployed /\ Goto(c, "nonce") /\ UNCHANGED nonce
  \/ operation[c] = "SAFE" /\ ~isDeployed /\ Return(c, "safe not deployed")
  \/ operation[c] = "SAFE-CREATE" /\ isDeployed /\ Return(c, "safe deployed")
  \/ operation[c] = "SAFE-CREATE" /\ ~isDeployed /\ Goto(c, "sign") /\ UNCHANGED nonce

GetDeployed(c) ==
  /\ pc[c] = "deployed"
  /\ \E body \in Bodies \ {"garbled"} : Deployment(c, Reported(body))
  /\ UNCHANGED chain

\* The relayer counts some of the transactions it has accepted and not executed.
Pending(wallet) == {id \in IDs : records[id].request.operation = wallet /\ records[id].state = "NEW"}

NextNonces(wallet) ==
  walletNonce[wallet]..(walletNonce[wallet] + Cardinality(Pending(wallet)))

\* Mutant of GetNonce: a missing nonce is accepted for the Safe as well.
GetNonceUnchecked(c) ==
  /\ pc[c] = "nonce"
  /\ \E n \in NextNonces(operation[c]), body \in Bodies \ {"garbled"} :
       Goto(c, "sign") /\ nonce' = Set(nonce, c, IF body = "json" THEN n ELSE NoNonce)
  /\ UNCHANGED chain

\* GetNonce for the Safe, GetRelayPayload for the proxy wallet.
GetNonce(c) ==
  /\ pc[c] = "nonce"
  /\ \E n \in NextNonces(operation[c]), body \in Bodies \ {"garbled"} :
       IF body = "json"
       THEN Goto(c, "sign") /\ nonce' = Set(nonce, c, n)
       ELSE \/ operation[c] = "SAFE" /\ Return(c, "invalid nonce")
            \/ operation[c] = "PROXY" /\ Goto(c, "sign") /\ UNCHANGED nonce
  /\ UNCHANGED chain

\* The request is built and signed once; only its nonce is told apart here.
Sign(c) ==
  /\ pc[c] = "sign"
  /\ Goto(c, "submit")
  /\ UNCHANGED nonce
  /\ UNCHANGED chain

\* Encoding, signing or authenticating the request fails: nothing is sent.
SignFails(c) ==
  /\ pc[c] = "sign"
  /\ Return(c, "signing failed")
  /\ UNCHANGED chain

-----------------------------------------------------------------------------
(* The submission *)

\* The nonce that was signed: ParseBigInt reads the missing one as 0.
SignedNonce(n) == IF n = NoNonce THEN 0 ELSE n

\* What the relayer is sent of a call with nonce n.  Signatures are deterministic, and
\* a deployment has no nonce.
SignedAs(c, n) == [operation |-> operation[c], batch |-> batch[c], nonce |-> SignedNonce(n)]

\* Mutants of SendAttempt: the budget is off by one; every attempt is built anew,
\* with the nonce of the moment; attempts are not counted.
SendOnceMore(c) ==
  /\ pc[c] = "submit"
  /\ sent[c] <= MaxRetries + 1
  /\ sent' = Set(sent, c, sent[c] + 1)
  /\ wire' = Set(wire, c, wire[c] \cup {[attempt |-> sent[c], nonce |-> nonce[c]]})
  /\ reply' = Set(reply, c, NoReply)
  /\ UNCHANGED <<pc, operation, batch, nonce, result, handle, verdict, deployedAtCall>>
  /\ UNCHANGED chain

SendRebuilt(c) ==
  /\ pc[c] = "submit"
  /\ sent[c] <= MaxRetries
  /\ \E n \in IF operation[c] \in Wallets THEN NextNonces(operation[c]) ELSE {NoNonce} :
       /\ nonce' = Set(nonce, c, n)
       /\ wire' = Set(wire, c, wire[c] \cup {[attempt |-> sent[c], nonce |-> n]})
  /\ sent' = Set(sent, c, sent[c] + 1)
  /\ reply' = Set(reply, c, NoReply)
  /\ UNCHANGED <<pc, operation, batch, result, handle, verdict, deployedAtCall>>
  /\ UNCHANGED chain

SendUncounted(c) ==
  /\ pc[c] = "submit"
  /\ wire' = Set(wire, c, wire[c] \cup {[attempt |-> sent[c], nonce |-> nonce[c]]})
  /\ reply' = Set(reply, c, NoReply)
  /\ UNCHANGED <<pc, operation, batch, nonce, sent, result, handle, verdict, deployedAtCall>>
  /\ UNCHANGED chain

\* The next attempt of the POST, with the body and headers of the first.
SendAttempt(c) ==
  /\ pc[c] = "submit"
  /\ sent[c] <= MaxRetries
  /\ sent' = Set(sent, c, sent[c] + 1)
  /\ wire' = Set(wire, c, wire[c] \cup {[attempt |-> sent[c], nonce |-> nonce[c]]})
  /\ reply' = Set(reply, c, NoReply)
  /\ UNCHANGED <<pc, operation, batch, nonce, result, handle, verdict, deployedAtCall>>
  /\ UNCHANGED chain

\* The context is done, or the last attempt has failed as well.
GiveUp(c) ==
  /\ pc[c] = "submit"
  /\ Return(c, "submission failed")
  /\ UNCHANGED chain

\* A 4xx.
Declined(c) ==
  /\ pc[c] = "submit"
  /\ reply[c].kind = "declined"
  /\ Return(c, "declined")
  /\ UNCHANGED chain

\* A success: its body names the transaction, is empty, or cannot be decoded.
Submitted(c) ==
  /\ pc[c] = "submit"
  /\ reply[c].kind = "accepted"
  /\ \E body \in Bodies :
       IF body = "garbled"
       THEN Return(c, "not decoded")
       ELSE /\ pc' = Set(pc, c, "wait")
            /\ result' = Set(result, c, "submitted")
            /\ handle' = Set(handle, c, IF body = "json" THEN reply[c].id ELSE NoID)
            /\ UNCHANGED <<operation, batch, nonce, sent, wire, reply, verdict, deployedAtCall>>
  /\ UNCHANGED chain

-----------------------------------------------------------------------------
(* Wait *)

Verdict(c, v) ==
  /\ pc' = Set(pc, c, "returned")
  /\ verdict' = Set(verdict, c, v)
  /\ UNCHANGED <<operation, batch, nonce, sent, wire, reply, result, handle, deployedAtCall>>
  /\ UNCHANGED chain

StateOf(id) == IF id \in IDs THEN records[id].state ELSE "absent"

\* Mutant of WaitEnds: the desired states and the failing one are exchanged.
WaitEndsExchanged(c) ==
  /\ pc[c] = "wait"
  /\ \/ StateOf(handle[c]) = "FAILED" /\ Verdict(c, "mined")
     \/ StateOf(handle[c]) = "MINED" /\ Verdict(c, "failed")

\* PollUntilState reads a state it stops at.
WaitEnds(c) ==
  /\ pc[c] = "wait"
  /\ \/ StateOf(handle[c]) = "MINED" /\ Verdict(c, "mined")
     \/ StateOf(handle[c]) = "FAILED" /\ Verdict(c, "failed")

\* PollUntilState runs out of polls, fails on a request, or is cancelled.
WaitGivesUp(c) ==
  /\ pc[c] = "wait"
  /\ Verdict(c, "timeout")

-----------------------------------------------------------------------------
(* The relayer and the chain *)

\* Only the reply to the latest attempt finds the client waiting, if it still is.
Replied(c, request, kind, id) ==
  reply' = IF pc[c] = "submit" /\ request.attempt = sent[c] - 1
           THEN Set(reply, c, [kind |-> kind, id |-> id])
           ELSE reply

\* The transactions the relayer may recognise a request as: those made of one with the
\* same content, whoever sent it.
Known(c, request) == {id \in IDs : records[id].request = SignedAs(c, request.nonce)}

\* A request arrives and is declined, recognised, or accepted as a transaction.
Arrive(c, request) ==
  /\ wire' = Set(wire, c, wire[c] \ {request})
  /\ UNCHANGED <<pc, operation, batch, nonce, sent, result, handle, verdict, deployedAtCall>>
  /\ UNCHANGED <<deployed, walletNonce>>
  /\ \/ Replied(c, request, "declined", NoID) /\ UNCHANGED records
     \/ \E id \in Known(c, request) : Replied(c, request, "accepted", id) /\ UNCHANGED records
     \/ /\ records' = Append(records, [request |-> SignedAs(c, request.nonce), state |-> "NEW"])
        /\ Replied(c, request, "accepted", Len(records) + 1)

\* The wallet contract takes a transaction with its next nonce only; the factory
\* deploys a Safe once.
Executable(r) ==
  IF r.operation = "SAFE-CREATE" THEN ~deployed
  ELSE /\ r.nonce = walletNonce[r.operation]
       /\ r.operation = "SAFE" => deployed

Mine(id) ==
  /\ records[id].state = "NEW"
  /\ Executable(records[id].request)
  /\ records' = [records EXCEPT ![id].state = "MINED"]
  /\ IF records[id].request.operation = "SAFE-CREATE"
     THEN deployed' = TRUE /\ UNCHANGED walletNonce
     ELSE /\ walletNonce' = [walletNonce EXCEPT ![records[id].request.operation] = @ + 1]
          /\ UNCHANGED deployed
  /\ UNCHANGED calls

Drop(id) ==
  /\ records[id].state = "NEW"
  /\ records' = [records EXCEPT ![id].state = "FAILED"]
  /\ UNCHANGED <<calls, deployed, walletNonce>>

CallStep(c) ==
  \/ RequestFails(c) \/ GetDeployed(c) \/ GetNonce(c) \/ Sign(c) \/ SignFails(c)
  \/ SendAttempt(c) \/ GiveUp(c) \/ Declined(c) \/ Submitted(c)
  \/ WaitEnds(c) \/ WaitGivesUp(c)

CallNext(c) == Refuse(c) \/ (\E op \in Operations : Call(c, op)) \/ CallStep(c)

RelayerNext ==
  \/ \E c \in Callers : \E request \in wire[c] : Arrive(c, request)
  \/ \E id \in IDs : Mine(id) \/ Drop(id)

Next == (\E c \in Callers : CallNext(c)) \/ RelayerNext

Spec == Init /\ [][Next]_vars

-----------------------------------------------------------------------------
(* Properties *)

Results ==
  {"pending", "refused", "request failed", "safe not deployed", "safe deployed",
   "invalid nonce", "signing failed", "submission failed", "declined", "not decoded",
   "submitted"}

Requests == [attempt : Attempts, nonce : Nat \cup {NoNonce}]
Replies == [kind : {"none", "accepted", "declined"}, id : Nat]
SignedRequests ==
  [operation : OperationKinds, batch : Batches \cup {NoBatch}, nonce : Nat]
Transactions == [request : SignedRequests, state : {"NEW", "MINED", "FAILED"}]

\* The variables have their types.
TypeOK ==
  /\ pc \in [Callers -> {"idle", "deployed", "nonce", "sign", "submit", "wait", "returned"}]
  /\ operation \in [Callers -> OperationKinds \cup {"none"}]
  /\ batch \in [Callers -> Batches \cup {NoBatch}]
  /\ nonce \in [Callers -> Nat \cup {NoNonce}]
  /\ sent \in [Callers -> 0..(MaxRetries + 1)]
  /\ wire \in [Callers -> SUBSET Requests]
  /\ reply \in [Callers -> Replies]
  /\ result \in [Callers -> Results]
  /\ handle \in [Callers -> Nat]
  /\ verdict \in [Callers -> {"none", "mined", "failed", "timeout"}]
  /\ deployedAtCall \in [Callers -> BOOLEAN]
  /\ deployed \in BOOLEAN
  /\ walletNonce \in [Wallets -> Nat]
  /\ records \in Seq(Transactions)

\* What each call has put on the wire: one request, however often it was sent.
submissions == [c \in Callers |-> IF sent[c] > 0 THEN {SignedAs(c, nonce[c])} ELSE {}]

Mined == {id \in IDs : records[id].state = "MINED"}
MinedAs(request) == {id \in Mined : records[id].request = request}
MinedFor(c) == {id \in Mined : records[id].request \in submissions[c]}

(***************************************************************************)
(* Retries, late and duplicated submissions and concurrent calls of one    *)
(* signer included, every request takes effect at most once, a call that   *)
(* Execute or Deploy turned down has submitted none, and Wait reports a    *)
(* mined transaction only to a caller whose request took effect.  Callers  *)
(* with identical requests, two deployments or two executions of the same  *)
(* batch with the same nonce, share one effect.                            *)
(***************************************************************************)
effects == [request \in {records[id].request : id \in Mined} |-> Cardinality(MinedAs(request))]

TurnedDown ==
  {"refused", "request failed", "safe not deployed", "safe deployed", "invalid nonce",
   "signing failed"}

ToldBy(answer, waited) ==
  IF waited \in {"mined", "failed"} THEN waited
  ELSE IF answer \in TurnedDown THEN "rejected"
  ELSE IF answer = "pending" THEN "pending"
  ELSE IF answer = "submitted" /\ waited = "none" THEN "submitted"
  ELSE "unknown"

told == [c \in Callers |-> ToldBy(result[c], verdict[c])]

Promise == INSTANCE RelayedOperations
  WITH Callers <- Callers, submitted <- submissions, effects <- effects, told <- told

ImplementsOperations == Promise!Spec

(***************************************************************************)
(* Execute on a Safe submits only with the Safe deployed and with a nonce  *)
(* the relayer gave it, even if replies come back empty.                   *)
(***************************************************************************)
SafeExecutionIsPrepared ==
  \A c \in Callers : operation[c] = "SAFE" /\ sent[c] > 0 => deployed /\ nonce[c] # NoNonce

(***************************************************************************)
(* errors.go:137: ErrInvalidNoncePayload is returned "when the nonce       *)
(* payload is missing or invalid".  Execute on a proxy wallet goes on      *)
(* without one and signs nonce 0.                                          *)
(***************************************************************************)
ProxyExecutionIsPrepared ==
  \A c \in Callers : operation[c] = "PROXY" /\ sent[c] > 0 => nonce[c] # NoNonce

(***************************************************************************)
(* errors.go:127: ErrSafeDeployed is returned "when the Safe is already    *)
(* deployed": a Deploy called on a deployed Safe submits nothing.  An      *)
(* empty reply makes it submit all the same.                               *)
(***************************************************************************)
DeployNeedsNoSafe ==
  \A c \in Callers : operation[c] = "SAFE-CREATE" /\ deployedAtCall[c] => sent[c] = 0

(***************************************************************************)
(* What Wait calls failed has not taken effect and never will, if the      *)
(* transport sent the submission once and nobody else an identical one: a  *)
(* repeated one may have left a twin that is mined.                        *)
(***************************************************************************)
FailureIsFinal ==
  \A c \in Callers :
    /\ verdict[c] = "failed" /\ sent[c] = 1
    /\ \A d \in Callers \ {c} : submissions[d] # submissions[c]
    => MinedFor(c) = {}

=============================================================================
