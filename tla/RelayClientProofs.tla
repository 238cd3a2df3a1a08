-------------------------- MODULE RelayClientProofs --------------------------
(***************************************************************************)
(* Theorems about RelayClient for every set of goroutines, operation,      *)
(* batch, retry budget and initial nonce, identical requests of several    *)
(* goroutines included: the operations are implemented as                  *)
(* RelayedOperations promises.                                             *)
(*                                                                         *)
(* From these, theorems about EndToEnd for any number of runs, any retry   *)
(* budget and whatever earlier runs have left on the wire: the program is  *)
(* a client as RelayClient describes it, and its runs tell the truth.      *)
(***************************************************************************)
EXTENDS EndToEnd, FiniteSetTheorems, TLAPS

Places == {"idle", "deployed", "nonce", "sign", "submit", "wait", "returned"}
States == {"NEW", "MINED", "FAILED"}
Verdicts == {"none", "mined", "failed", "timeout"}

-----------------------------------------------------------------------------
(* The types of a reply, a request and a transaction *)

LEMMA ReplyType ==
  ASSUME NEW kind \in {"none", "accepted", "declined"}, NEW id \in Nat
  PROVE  /\ [kind |-> kind, id |-> id] \in Replies
         /\ [kind |-> kind, id |-> id].kind = kind
         /\ [kind |-> kind, id |-> id].id = id
BY DEF Replies

LEMMA NoReplyType == NoReply \in Replies /\ NoReply.kind = "none"
BY DEF Replies, NoReply, NoID

LEMMA ReplyFields == \A r \in Replies : r.id \in Nat
BY DEF Replies

LEMMA RequestType ==
  ASSUME NEW a \in Attempts, NEW n \in Nat \cup {NoNonce}
  PROVE  /\ [attempt |-> a, nonce |-> n] \in Requests
         /\ [attempt |-> a, nonce |-> n].nonce = n
BY DEF Requests

LEMMA RequestFields == \A r \in Requests : r.nonce \in Nat \cup {NoNonce} /\ r.attempt \in Attempts
BY DEF Requests

LEMMA TransactionType ==
  ASSUME NEW signed \in SignedRequests
  PROVE  LET r == [request |-> signed, state |-> "NEW"]
         IN  r \in Transactions /\ r.request = signed /\ r.state = "NEW"
BY DEF Transactions

LEMMA TransactionFields ==
  ASSUME NEW r \in Transactions
  PROVE  /\ r.request \in SignedRequests
         /\ r.request.operation \in OperationKinds
         /\ r.request.nonce \in Nat
         /\ r.state \in States
<1>1. r.request \in SignedRequests /\ r.state \in States
  BY DEF Transactions, States
<1> QED
  BY <1>1 DEF SignedRequests

LEMMA StateChange ==
  ASSUME NEW r \in Transactions, NEW s \in States
  PROVE  LET q == [r EXCEPT !.state = s]
         IN  q \in Transactions /\ q.request = r.request /\ q.state = s
BY DEF Transactions, States

\* A sequence with one element replaced, and with one appended.
LEMMA Replaced ==
  ASSUME NEW S, NEW s \in Seq(S), NEW i \in DOMAIN s, NEW e \in S
  PROVE  /\ [s EXCEPT ![i] = e] \in Seq(S)
         /\ DOMAIN [s EXCEPT ![i] = e] = DOMAIN s
         /\ [s EXCEPT ![i] = e][i] = e
         /\ \A j \in DOMAIN s : j # i => [s EXCEPT ![i] = e][j] = s[j]
OBVIOUS

LEMMA Appended ==
  ASSUME NEW S, NEW s \in Seq(S), NEW e \in S
  PROVE  /\ Append(s, e) \in Seq(S)
         /\ DOMAIN Append(s, e) = DOMAIN s \cup {Len(s) + 1}
         /\ Len(s) + 1 \notin DOMAIN s
         /\ Len(s) + 1 \in Nat \ {0}
         /\ Append(s, e)[Len(s) + 1] = e
         /\ \A j \in DOMAIN s : Append(s, e)[j] = s[j]
OBVIOUS

LEMMA Incremented ==
  ASSUME NEW S, NEW f \in [S -> Nat], NEW i
  PROVE  /\ [f EXCEPT ![i] = f[i] + 1] \in [S -> Nat]
         /\ i \in S => [f EXCEPT ![i] = f[i] + 1][i] = f[i] + 1
         /\ \A j \in S : j # i => [f EXCEPT ![i] = f[i] + 1][j] = f[j]
<1>1. [f EXCEPT ![i] = f[i] + 1] = [j \in S |-> IF j = i THEN f[i] + 1 ELSE f[j]]
  OBVIOUS
<1>2. \A j \in S : (IF j = i THEN f[i] + 1 ELSE f[j]) \in Nat
  <2> TAKE j \in S
  <2>1. f[j] \in Nat /\ f[j] + 1 \in Nat
    OBVIOUS
  <2> QED
    BY <2>1
<1> QED
  BY <1>1, <1>2

LEMMA Elements ==
  ASSUME NEW S, NEW s \in Seq(S)
  PROVE  /\ \A i \in DOMAIN s : s[i] \in S
         /\ 0 \notin DOMAIN s
         /\ DOMAIN s \subseteq Nat
         /\ IsFiniteSet(DOMAIN s)
<1>1. DOMAIN s = 1..Len(s) /\ Len(s) \in Nat
  OBVIOUS
<1>2. IsFiniteSet(1..Len(s))
  BY <1>1, FS_Interval
<1> QED
  BY <1>1, <1>2

LEMMA SignedNonceType == \A n \in Nat \cup {NoNonce} : SignedNonce(n) \in Nat
BY DEF SignedNonce, NoNonce

\* What a call signs, and has submitted once it has sent it.
Own(c) == SignedAs(c, nonce[c])

LEMMA OwnFields ==
  ASSUME NEW c \in Callers
  PROVE  Own(c).operation = operation[c] /\ Own(c).nonce = SignedNonce(nonce[c])
BY DEF Own, SignedAs

LEMMA SubmissionsAre ==
  ASSUME NEW c \in Callers
  PROVE  /\ submissions[c] = IF sent[c] > 0 THEN {Own(c)} ELSE {}
         /\ \A request : request \in submissions[c] <=> sent[c] > 0 /\ request = Own(c)
<1>1. submissions[c] = IF sent[c] > 0 THEN {Own(c)} ELSE {}
  BY DEF submissions, Own
<1> QED
  BY <1>1

-----------------------------------------------------------------------------
(* Type correctness *)

CallTypes ==
  /\ pc \in [Callers -> Places]
  /\ operation \in [Callers -> OperationKinds \cup {"none"}]
  /\ batch \in [Callers -> Batches \cup {NoBatch}]
  /\ nonce \in [Callers -> Nat \cup {NoNonce}]
  /\ sent \in [Callers -> 0..(MaxRetries + 1)]
  /\ wire \in [Callers -> SUBSET Requests]
  /\ reply \in [Callers -> Replies]
  /\ result \in [Callers -> Results]
  /\ handle \in [Callers -> Nat]
  /\ verdict \in [Callers -> Verdicts]
  /\ deployedAtCall \in [Callers -> BOOLEAN]

ChainTypes ==
  /\ deployed \in BOOLEAN
  /\ walletNonce \in [Wallets -> Nat]
  /\ records \in Seq(Transactions)

LEMMA TypeParts == TypeOK <=> CallTypes /\ ChainTypes
BY DEF TypeOK, CallTypes, ChainTypes, Places, Verdicts

LEMMA InitTypes == Init => TypeOK
<1> SUFFICES ASSUME Init PROVE CallTypes /\ ChainTypes
  BY TypeParts
<1>1. CallTypes
  BY RetriesAssumption, NoReplyType
     DEF Init, CallTypes, Places, OperationKinds, Results, NoID, Verdicts
<1>2. ChainTypes
  <2>1. walletNonce \in [Wallets -> Nat]
    BY NoncesAssumption DEF Init
  <2>2. <<>> \in Seq(Transactions)
    OBVIOUS
  <2> QED
    BY <2>1, <2>2 DEF Init, ChainTypes
<1> QED
  BY <1>1, <1>2

\* Where a call is.
LEMMA Moves ==
  ASSUME CallTypes, NEW c \in Callers, NEW target \in Places, Goto(c, target),
         nonce' \in [Callers -> Nat \cup {NoNonce}]
  PROVE  CallTypes'
BY DEF CallTypes, Goto, Set

LEMMA Returning ==
  ASSUME CallTypes, NEW c \in Callers, NEW answer \in Results, Return(c, answer)
  PROVE  CallTypes'
BY DEF CallTypes, Return, Set, Places

\* The nonce a wallet may be given is a natural number.
LEMMA NoncesAreNatural ==
  ASSUME ChainTypes, NEW wallet \in Wallets
  PROVE  NextNonces(wallet) \subseteq Nat /\ \A n \in NextNonces(wallet) : walletNonce[wallet] <= n
<1>1. IsFiniteSet(IDs)
  BY Elements DEF ChainTypes, IDs
<1>2. IsFiniteSet(Pending(wallet))
  BY <1>1, FS_Subset DEF Pending
<1>3. Cardinality(Pending(wallet)) \in Nat
  BY <1>2, FS_CardinalityType
<1> QED
  BY <1>3 DEF NextNonces, ChainTypes

LEMMA CallTypeStep ==
  ASSUME CallTypes, ChainTypes, NEW c \in Callers, CallNext(c),
         pc[c] = "nonce" => operation[c] \in Wallets
  PROVE  CallTypes' /\ UNCHANGED chain
<1>0. {"refused", "request failed", "safe not deployed", "safe deployed", "invalid nonce",
       "signing failed", "submission failed", "declined", "not decoded", "submitted"} \subseteq Results
      /\ {"nonce", "sign", "submit", "deployed", "wait", "returned"} \subseteq Places
  BY DEF Results, Places
<1>n. nonce \in [Callers -> Nat \cup {NoNonce}]
  BY DEF CallTypes
<1>1. CASE Refuse(c)
  BY <1>0, <1>1, Returning DEF Refuse
<1>2. ASSUME NEW op \in Operations, Call(c, op) PROVE CallTypes' /\ UNCHANGED chain
  <2>1. PICK b \in IF op = "SAFE-CREATE" THEN {NoBatch} ELSE Batches : batch' = Set(batch, c, b)
    BY <1>2 DEF Call
  <2>2. batch' \in [Callers -> Batches \cup {NoBatch}]
    BY <2>1 DEF CallTypes, Set
  <2> QED
    BY <1>2, <2>2, OperationsAssumption DEF Call, CallTypes, Set, Places, ChainTypes
<1>3. CASE RequestFails(c)
  BY <1>0, <1>3, Returning DEF RequestFails
<1>4. CASE GetDeployed(c)
  <2>1. PICK isDeployed : Deployment(c, isDeployed)
    BY <1>4 DEF GetDeployed
  <2>2. CallTypes'
    BY <1>0, <1>n, <2>1, Moves, Returning DEF Deployment
  <2> QED
    BY <1>4, <2>2 DEF GetDeployed
<1>5. CASE GetNonce(c)
  <2>1. PICK n \in NextNonces(operation[c]), body \in Bodies \ {"garbled"} :
          IF body = "json"
          THEN Goto(c, "sign") /\ nonce' = Set(nonce, c, n)
          ELSE \/ operation[c] = "SAFE" /\ Return(c, "invalid nonce")
               \/ operation[c] = "PROXY" /\ Goto(c, "sign") /\ UNCHANGED nonce
    BY <1>5 DEF GetNonce
  <2>2. n \in Nat
    BY <1>5, <2>1, NoncesAreNatural DEF GetNonce
  <2>3. Set(nonce, c, n) \in [Callers -> Nat \cup {NoNonce}]
    BY <1>n, <2>2 DEF Set
  <2>4. CallTypes'
    BY <1>0, <1>n, <2>1, <2>3, Moves, Returning
  <2> QED
    BY <1>5, <2>4 DEF GetNonce
<1>6. CASE Sign(c)
  BY <1>0, <1>n, <1>6, Moves DEF Sign
<1>7. CASE SignFails(c)
  BY <1>0, <1>7, Returning DEF SignFails
<1>8. CASE SendAttempt(c)
  <2>1. sent[c] \in Attempts
    BY <1>8, RetriesAssumption DEF SendAttempt, CallTypes, Attempts
  <2>2. [attempt |-> sent[c], nonce |-> nonce[c]] \in Requests
    BY <1>n, <2>1, RequestType
  <2>3. sent' \in [Callers -> 0..(MaxRetries + 1)]
    BY <1>8, RetriesAssumption DEF SendAttempt, CallTypes, Set
  <2>4. wire' \in [Callers -> SUBSET Requests]
    BY <1>8, <2>2 DEF SendAttempt, CallTypes, Set
  <2>5. reply' \in [Callers -> Replies]
    BY <1>8, NoReplyType DEF SendAttempt, CallTypes, Set
  <2> QED
    BY <1>8, <2>3, <2>4, <2>5 DEF SendAttempt, CallTypes
<1>9. CASE GiveUp(c)
  BY <1>0, <1>9, Returning DEF GiveUp
<1>10. CASE Declined(c)
  BY <1>0, <1>10, Returning DEF Declined
<1>11. CASE Submitted(c)
  <2>1. reply[c].id \in Nat /\ NoID \in Nat
    BY ReplyFields DEF CallTypes, NoID
  <2>2. CASE Return(c, "not decoded")
    BY <1>0, <1>11, <2>2, Returning DEF Submitted
  <2>3. CASE ~Return(c, "not decoded")
    <3>1. PICK body \in Bodies :
            /\ pc' = Set(pc, c, "wait")
            /\ result' = Set(result, c, "submitted")
            /\ handle' = Set(handle, c, IF body = "json" THEN reply[c].id ELSE NoID)
            /\ UNCHANGED <<operation, batch, nonce, sent, wire, reply, verdict, deployedAtCall>>
      BY <1>11, <2>3 DEF Submitted
    <3>2. (IF body = "json" THEN reply[c].id ELSE NoID) \in Nat
      BY <2>1
    <3>3. /\ pc' \in [Callers -> Places]
          /\ result' \in [Callers -> Results]
          /\ handle' \in [Callers -> Nat]
      BY <1>0, <3>1, <3>2 DEF CallTypes, Set
    <3> QED
      BY <1>11, <3>1, <3>3 DEF Submitted, CallTypes
  <2> QED
    BY <2>2, <2>3
<1>12. CASE WaitEnds(c)
  BY <1>12 DEF WaitEnds, Verdict, CallTypes, Set, Verdicts, Places
<1>13. CASE WaitGivesUp(c)
  BY <1>13 DEF WaitGivesUp, Verdict, CallTypes, Set, Verdicts, Places
<1> QED
  BY <1>1, <1>2, <1>3, <1>4, <1>5, <1>6, <1>7, <1>8, <1>9, <1>10, <1>11, <1>12, <1>13
     DEF CallNext, CallStep

LEMMA ArriveTypes ==
  ASSUME CallTypes, ChainTypes, NEW c \in Callers, NEW request \in wire[c], Arrive(c, request),
         operation[c] \in OperationKinds
  PROVE  CallTypes' /\ ChainTypes'
<1>1. request \in Requests /\ SignedAs(c, request.nonce) \in SignedRequests
  <2>1. request \in Requests /\ SignedNonce(request.nonce) \in Nat
    BY RequestFields, SignedNonceType DEF CallTypes
  <2> QED
    BY <2>1 DEF SignedAs, SignedRequests, CallTypes
<1>2. ASSUME NEW kind \in {"none", "accepted", "declined"}, NEW id \in Nat,
             Replied(c, request, kind, id)
      PROVE  reply' \in [Callers -> Replies]
  BY <1>2, ReplyType DEF Replied, CallTypes, Set
<1>3. IDs \subseteq Nat /\ NoID \in Nat /\ Len(records) + 1 \in Nat
  BY Elements, Appended DEF ChainTypes, IDs, NoID
<1>4. reply' \in [Callers -> Replies]
  BY <1>2, <1>3 DEF Arrive, Known
<1>5. records' \in Seq(Transactions)
  <2>1. CASE UNCHANGED records
    BY <2>1 DEF ChainTypes
  <2>2. CASE ~UNCHANGED records
    <3>1. PICK r : r = [request |-> SignedAs(c, request.nonce), state |-> "NEW"]
      OBVIOUS
    <3>2. r \in Transactions
      BY <1>1, <3>1, TransactionType
    <3>3. records' = Append(records, r)
      BY <2>2, <3>1 DEF Arrive
    <3> QED
      BY <3>2, <3>3, Appended DEF ChainTypes
  <2> QED
    BY <2>1, <2>2
<1>6. wire' \in [Callers -> SUBSET Requests]
  BY DEF Arrive, CallTypes, Set
<1> QED
  BY <1>4, <1>5, <1>6 DEF Arrive, CallTypes, ChainTypes

\* What Mine and Drop do to the records.
Marked(id, s) ==
  /\ records' \in Seq(Transactions)
  /\ DOMAIN records' = DOMAIN records
  /\ \A j \in IDs :
       /\ records'[j].request = records[j].request
       /\ records'[j].state = IF j = id THEN s ELSE records[j].state

LEMMA Marking ==
  ASSUME ChainTypes, NEW id \in IDs, NEW s \in States,
         records' = [records EXCEPT ![id].state = s]
  PROVE  Marked(id, s)
<1> DEFINE q == [records[id] EXCEPT !.state = s]
<1>1. records[id] \in Transactions
  BY Elements DEF ChainTypes, IDs
<1>2. q \in Transactions /\ q.request = records[id].request /\ q.state = s
  BY <1>1, StateChange
<1>3. records' = [records EXCEPT ![id] = q]
  OBVIOUS
<1> HIDE DEF q
<1>4. /\ records' \in Seq(Transactions)
      /\ DOMAIN records' = DOMAIN records
      /\ records'[id] = q
      /\ \A j \in DOMAIN records : j # id => records'[j] = records[j]
  <2>1. records \in Seq(Transactions) /\ id \in DOMAIN records
    BY DEF ChainTypes, IDs
  <2> QED
    BY <1>2, <1>3, <2>1, Replaced
<1> QED
  BY <1>2, <1>4 DEF Marked, IDs

LEMMA MineTypes ==
  ASSUME CallTypes, ChainTypes, NEW id \in IDs, Mine(id)
  PROVE  CallTypes' /\ ChainTypes' /\ Marked(id, "MINED")
<1>1. Marked(id, "MINED")
  BY Marking DEF Mine, States
<1>2. deployed' \in BOOLEAN /\ walletNonce' \in [Wallets -> Nat]
  <2>1. deployed \in BOOLEAN /\ walletNonce \in [Wallets -> Nat]
    BY DEF ChainTypes
  <2>2. CASE records[id].request.operation = "SAFE-CREATE"
    BY <2>1, <2>2 DEF Mine
  <2>3. CASE records[id].request.operation # "SAFE-CREATE"
    <3> DEFINE op == records[id].request.operation
    <3>1. walletNonce' = [walletNonce EXCEPT ![op] = walletNonce[op] + 1] /\ UNCHANGED deployed
      BY <2>3 DEF Mine
    <3> HIDE DEF op
    <3> QED
      BY <2>1, <3>1, Incremented
  <2> QED
    BY <2>2, <2>3
<1>3. CallTypes'
  BY DEF Mine, calls, CallTypes
<1> QED
  BY <1>1, <1>2, <1>3 DEF ChainTypes, Marked

LEMMA DropTypes ==
  ASSUME CallTypes, ChainTypes, NEW id \in IDs, Drop(id)
  PROVE  CallTypes' /\ ChainTypes' /\ Marked(id, "FAILED")
<1>1. Marked(id, "FAILED")
  BY Marking DEF Drop, States
<1>2. CallTypes'
  BY DEF Drop, calls, CallTypes
<1> QED
  BY <1>1, <1>2 DEF Drop, ChainTypes, Marked

-----------------------------------------------------------------------------
(* The inductive invariant *)

\* What a call has done by the time it is where it is.
Stage(c) ==
  /\ pc[c] = "idle" => nonce[c] = NoNonce
  /\ pc[c] \in {"idle", "deployed", "nonce", "sign"} => sent[c] = 0
  /\ pc[c] \in {"idle", "deployed", "nonce", "sign", "submit"} => result[c] = "pending"
  /\ pc[c] = "wait" => result[c] = "submitted"
  /\ pc[c] # "returned" => verdict[c] = "none"
  /\ verdict[c] # "none" => result[c] = "submitted"
  /\ pc[c] = "deployed" => operation[c] \in {"SAFE", "SAFE-CREATE"}
  /\ pc[c] = "nonce" => operation[c] \in Wallets
  /\ pc[c] \in {"sign", "submit"} => operation[c] \in OperationKinds

\* Once an attempt is sent the call cannot be turned down; all attempts carry its nonce.
Sending(c) ==
  /\ sent[c] > 0 => operation[c] \in OperationKinds /\ result[c] \notin TurnedDown
  /\ wire[c] # {} => sent[c] > 0
  /\ \A r \in wire[c] : r.nonce = nonce[c] /\ r.attempt < sent[c]

\* What Execute has found out about the Safe.
Prepared(c) ==
  operation[c] = "SAFE" =>
    /\ pc[c] \in {"nonce", "sign", "submit"} \/ sent[c] > 0 => deployed
    /\ pc[c] \in {"sign", "submit"} \/ sent[c] > 0 => nonce[c] # NoNonce

\* What Deploy has found out, if the relayer never leaves a reply empty.
Checked(c) ==
  "empty" \notin Bodies /\ deployedAtCall[c] =>
    /\ deployed
    /\ operation[c] = "SAFE-CREATE" =>
         pc[c] \notin {"nonce", "sign", "submit", "wait"} /\ sent[c] = 0

OwnedBy(c, id) == id \in IDs /\ sent[c] > 0 /\ records[id].request = Own(c)

\* The IDs a call is given name transactions made of what it has submitted, though it
\* may have been another call's identical request they were made of.
Answered(c) ==
  /\ reply[c].kind = "accepted" => OwnedBy(c, reply[c].id)
  /\ handle[c] # NoID => OwnedBy(c, handle[c])
  /\ verdict[c] = "failed" => handle[c] \in IDs /\ records[handle[c]].state = "FAILED"

CallInv(c) == Stage(c) /\ Sending(c) /\ Prepared(c) /\ Checked(c) /\ Answered(c)

\* A transaction is what some call has submitted.
SignedBy(c, id) == sent[c] > 0 /\ records[id].request = Own(c)

Signed(id) == \E c \in Callers : SignedBy(c, id)

\* What a mined transaction used up: the Safe to be deployed, or a nonce.
Settled(id) ==
  records[id].state = "MINED" =>
    IF records[id].request.operation = "SAFE-CREATE" THEN deployed
    ELSE records[id].request.nonce < walletNonce[records[id].request.operation]

Twins(i, j) == records[i].request = records[j].request

OneEffect ==
  \A i, j \in IDs :
    Twins(i, j) /\ records[i].state = "MINED" /\ records[j].state = "MINED" => i = j

\* One attempt, of a request nobody else has submitted, leaves one transaction, and
\* nothing on the wire once it has arrived.
Alone(c) == sent[c] = 1 /\ \A d \in Callers \ {c} : sent[d] > 0 => Own(d) # Own(c)

NoTwins ==
  \A c \in Callers : Alone(c) =>
    \A i, j \in IDs : SignedBy(c, i) /\ SignedBy(c, j) => i = j

Arrived ==
  \A c \in Callers : Alone(c) => \A id \in IDs : SignedBy(c, id) => wire[c] = {}

RecordInv == (\A id \in IDs : Signed(id) /\ Settled(id)) /\ OneEffect /\ NoTwins /\ Arrived

IInv == CallTypes /\ ChainTypes /\ (\A c \in Callers : CallInv(c)) /\ RecordInv

LEMMA InitInvariant == Init => IInv
<1> SUFFICES ASSUME Init PROVE IInv
  OBVIOUS
<1>1. CallTypes /\ ChainTypes
  BY InitTypes, TypeParts
<1>2. ASSUME NEW c \in Callers PROVE CallInv(c)
  BY NoReplyType
     DEF Init, CallInv, Stage, Sending, Prepared, Checked, Answered, NoID, TurnedDown
<1>3. IDs = {}
  BY DEF Init, IDs
<1>4. RecordInv
  BY <1>3 DEF RecordInv, OneEffect, NoTwins, Arrived
<1> QED
  BY <1>1, <1>2, <1>4 DEF IInv

\* A call that does not move keeps what is known of it.
Kept(d) ==
  /\ pc'[d] = pc[d] /\ operation'[d] = operation[d] /\ batch'[d] = batch[d]
  /\ nonce'[d] = nonce[d]
  /\ sent'[d] = sent[d] /\ wire'[d] = wire[d] /\ reply'[d] = reply[d]
  /\ result'[d] = result[d] /\ handle'[d] = handle[d] /\ verdict'[d] = verdict[d]
  /\ deployedAtCall'[d] = deployedAtCall[d]

\* What a call has signed stays so.
Frozen(d) ==
  sent[d] > 0 => /\ sent'[d] > 0 /\ Own(d)' = Own(d)
                 /\ sent'[d] = 1 => sent[d] = 1 /\ wire'[d] = wire[d]

LEMMA OwnStays ==
  ASSUME NEW d, operation'[d] = operation[d], batch'[d] = batch[d], nonce'[d] = nonce[d]
  PROVE  Own(d)' = Own(d)
BY DEF Own, SignedAs, SignedNonce, NoNonce

LEMMA KeptInv ==
  ASSUME NEW d \in Callers, Kept(d), UNCHANGED chain, CallInv(d)
  PROVE  CallInv(d)'
<1>1. Stage(d)'
  BY DEF Kept, CallInv, Stage
<1>2. Sending(d)'
  BY DEF Kept, CallInv, Sending
<1>3. Prepared(d)' /\ Checked(d)'
  BY DEF Kept, CallInv, Prepared, Checked, chain
<1>4. Answered(d)'
  BY OwnStays DEF Kept, CallInv, Answered, OwnedBy, IDs, chain
<1> QED
  BY <1>1, <1>2, <1>3, <1>4 DEF CallInv

\* What Goto and Return do to the call, and to the others.
LEMMA GotoEffect ==
  ASSUME CallTypes, NEW c \in Callers, NEW target, Goto(c, target)
  PROVE  /\ pc'[c] = target
         /\ \A d \in Callers \ {c} : pc'[d] = pc[d]
         /\ operation' = operation /\ batch' = batch
         /\ sent' = sent /\ wire' = wire /\ reply' = reply
         /\ result' = result /\ handle' = handle /\ verdict' = verdict
         /\ deployedAtCall' = deployedAtCall
BY DEF CallTypes, Goto, Set

LEMMA ReturnEffect ==
  ASSUME CallTypes, NEW c \in Callers, NEW answer, Return(c, answer)
  PROVE  /\ pc'[c] = "returned" /\ result'[c] = answer
         /\ \A d \in Callers \ {c} : pc'[d] = pc[d] /\ result'[d] = result[d]
         /\ operation' = operation /\ batch' = batch /\ nonce' = nonce
         /\ sent' = sent /\ wire' = wire
         /\ reply' = reply /\ handle' = handle /\ verdict' = verdict
         /\ deployedAtCall' = deployedAtCall
BY DEF CallTypes, Return, Set

\* A call returns, turned down before it sent anything or with nothing to add to it.
LEMMA ReturnInv ==
  ASSUME CallTypes, NEW c \in Callers, NEW answer, Return(c, answer), UNCHANGED chain,
         pc[c] # "returned", pc[c] # "wait",
         sent[c] > 0 => answer \notin TurnedDown,
         \A d \in Callers : CallInv(d)
  PROVE  \A d \in Callers : CallInv(d)' /\ Frozen(d)
<1>1. \A d \in Callers : Frozen(d)
  BY ReturnEffect, OwnStays DEF Frozen
<1>2. ASSUME NEW d \in Callers \ {c} PROVE CallInv(d)'
  BY <1>2, ReturnEffect, KeptInv DEF Kept
<1>3. CallInv(c)'
  <2>1. Stage(c)'
    BY ReturnEffect DEF CallInv, Stage
  <2>2. Sending(c)'
    BY ReturnEffect DEF CallInv, Sending
  <2>3. Prepared(c)'
    BY ReturnEffect DEF CallInv, Prepared, chain
  <2>4. Checked(c)'
    BY ReturnEffect DEF CallInv, Checked, chain
  <2>5. Answered(c)'
    BY ReturnEffect, OwnStays DEF CallInv, Answered, OwnedBy, IDs, chain
  <2> QED
    BY <2>1, <2>2, <2>3, <2>4, <2>5 DEF CallInv
<1> QED
  BY <1>1, <1>2, <1>3

\* A call moves on before its submission.
LEMMA GotoInv ==
  ASSUME CallTypes, NEW c \in Callers, NEW target \in {"nonce", "sign", "submit"},
         Goto(c, target), UNCHANGED chain,
         \A d \in Callers \ {c} : nonce'[d] = nonce[d],
         pc[c] \in {"deployed", "nonce", "sign"},
         pc[c] = "sign" => nonce'[c] = nonce[c],
         target = "submit" => pc[c] = "sign",
         target = "nonce" => operation[c] = "SAFE" /\ deployed,
         target = "sign" /\ operation[c] = "SAFE" => deployed /\ nonce'[c] # NoNonce,
         operation[c] = "SAFE-CREATE" /\ "empty" \notin Bodies /\ pc[c] = "deployed" => ~deployed,
         \A d \in Callers : CallInv(d)
  PROVE  \A d \in Callers : CallInv(d)' /\ Frozen(d)
<1>0. pc[c] \in {"deployed", "nonce", "sign"} /\ sent[c] = 0
  BY DEF CallInv, Stage
<1>1. \A d \in Callers : Frozen(d)
  BY <1>0, GotoEffect, OwnStays DEF Frozen
<1>2. ASSUME NEW d \in Callers \ {c} PROVE CallInv(d)'
  BY <1>2, GotoEffect, KeptInv DEF Kept
<1>3. CallInv(c)'
  <2>1. Stage(c)'
    BY <1>0, GotoEffect DEF CallInv, Stage, Wallets, OperationKinds
  <2>2. Sending(c)'
    BY <1>0, GotoEffect DEF CallInv, Sending
  <2>3. Prepared(c)'
    BY <1>0, GotoEffect DEF CallInv, Prepared, chain
  <2>4. Checked(c)'
    BY <1>0, GotoEffect DEF CallInv, Checked, Stage, Wallets, chain
  <2>5. Answered(c)'
    BY <1>0, GotoEffect DEF CallInv, Answered, OwnedBy, IDs, chain
  <2> QED
    BY <2>1, <2>2, <2>3, <2>4, <2>5 DEF CallInv
<1> QED
  BY <1>1, <1>2, <1>3

LEMMA CallBegins ==
  ASSUME CallTypes, NEW c \in Callers, NEW op \in Operations, Call(c, op),
         \A d \in Callers : CallInv(d)
  PROVE  \A d \in Callers : CallInv(d)' /\ Frozen(d)
<1>0. /\ pc[c] = "idle" /\ sent[c] = 0 /\ op \in OperationKinds
      /\ pc'[c] = IF op = "PROXY" THEN "nonce" ELSE "deployed"
      /\ operation'[c] = op /\ deployedAtCall'[c] = deployed
      /\ \A d \in Callers \ {c} :
           /\ pc'[d] = pc[d] /\ operation'[d] = operation[d] /\ batch'[d] = batch[d]
           /\ deployedAtCall'[d] = deployedAtCall[d]
      /\ UNCHANGED <<nonce, sent, wire, reply, result, handle, verdict>>
      /\ UNCHANGED chain
  BY OperationsAssumption DEF Call, CallTypes, Set, CallInv, Stage
<1>1. \A d \in Callers : Frozen(d)
  BY <1>0, OwnStays DEF Frozen
<1>2. ASSUME NEW d \in Callers \ {c} PROVE CallInv(d)'
  BY <1>0, <1>2, KeptInv DEF Kept
<1>3. CallInv(c)'
  <2>1. Stage(c)'
    BY <1>0 DEF CallInv, Stage, Wallets, OperationKinds
  <2>2. Sending(c)'
    BY <1>0 DEF CallInv, Sending
  <2>3. Prepared(c)' /\ Checked(c)'
    BY <1>0 DEF Prepared, Checked, chain
  <2>4. Answered(c)'
    BY <1>0 DEF CallInv, Answered, OwnedBy, IDs, chain
  <2> QED
    BY <2>1, <2>2, <2>3, <2>4 DEF CallInv
<1> QED
  BY <1>1, <1>2, <1>3

LEMMA AttemptsAreNatural == \A a \in Attempts : a \in Nat
  BY RetriesAssumption DEF Attempts

LEMMA AttemptIsSent ==
  ASSUME CallTypes, NEW c \in Callers, SendAttempt(c),
         \A d \in Callers : CallInv(d)
  PROVE  \A d \in Callers : CallInv(d)' /\ Frozen(d)
<1> DEFINE request == [attempt |-> sent[c], nonce |-> nonce[c]]
<1>0. request.nonce = nonce[c] /\ request.attempt = sent[c]
  OBVIOUS
<1> HIDE DEF request
<1>a. /\ pc[c] = "submit" /\ UNCHANGED <<pc, operation, batch, nonce>>
      /\ UNCHANGED <<result, handle, verdict, deployedAtCall>>
      /\ UNCHANGED chain
      /\ sent' = Set(sent, c, sent[c] + 1)
      /\ wire' = Set(wire, c, wire[c] \cup {request})
      /\ reply' = Set(reply, c, NoReply)
  BY DEF SendAttempt, request
<1>b. /\ sent'[c] = sent[c] + 1 /\ wire'[c] = wire[c] \cup {request} /\ reply'[c] = NoReply
      /\ \A d \in Callers \ {c} : sent'[d] = sent[d] /\ wire'[d] = wire[d] /\ reply'[d] = reply[d]
      /\ sent[c] \in Nat
  <2>1. sent'[c] = sent[c] + 1 /\ \A d \in Callers \ {c} : sent'[d] = sent[d]
    BY <1>a DEF CallTypes, Set
  <2>2. wire'[c] = wire[c] \cup {request} /\ \A d \in Callers \ {c} : wire'[d] = wire[d]
    BY <1>a DEF CallTypes, Set
  <2>3. reply'[c] = NoReply /\ \A d \in Callers \ {c} : reply'[d] = reply[d]
    BY <1>a DEF CallTypes, Set
  <2>4. sent[c] \in Nat
    BY RetriesAssumption DEF CallTypes
  <2> QED
    BY <2>1, <2>2, <2>3, <2>4
<1>1. \A d \in Callers : Frozen(d)
  <2>1. Frozen(c)
    <3>1. sent[c] > 0 => sent'[c] > 1
      BY <1>b
    <3> QED
      BY <1>a, <1>b, <3>1, OwnStays DEF Frozen
  <2> QED
    BY <1>a, <1>b, <2>1, OwnStays DEF Frozen
<1>2. ASSUME NEW d \in Callers \ {c} PROVE CallInv(d)'
  BY <1>a, <1>b, <1>2, KeptInv DEF Kept
<1>3. CallInv(c)'
  <2>1. Stage(c)'
    BY <1>a, <1>b DEF CallInv, Stage
  <2>2. Sending(c)'
    <3>1. operation[c] \in OperationKinds /\ result[c] = "pending" /\ sent'[c] > 0
      BY <1>a, <1>b DEF CallInv, Stage
    <3>2. \A r \in wire'[c] : r.nonce = nonce'[c]
      BY <1>0, <1>a, <1>b DEF CallInv, Sending
    <3>3. \A r \in wire[c] : r.attempt < sent[c] /\ r.attempt \in Nat
      <4>1. \A r \in wire[c] : r \in Requests
        BY DEF CallTypes
      <4>2. \A r \in wire[c] : r.attempt \in Nat
        BY <4>1, RequestFields, AttemptsAreNatural
      <4>3. \A r \in wire[c] : r.attempt < sent[c]
        BY DEF CallInv, Sending
      <4> QED
        BY <4>2, <4>3
    <3>4. \A r \in wire'[c] : r.attempt < sent'[c]
      BY <1>0, <1>b, <3>3
    <3> QED
      BY <1>a, <3>1, <3>2, <3>4 DEF Sending, TurnedDown
  <2>3. Prepared(c)' /\ Checked(c)'
    BY <1>a, <1>b DEF CallInv, Prepared, Checked, chain
  <2>4. Answered(c)'
    <3>1. sent[c] > 0 => sent'[c] > 0
      BY <1>b
    <3> QED
      BY <1>a, <1>b, <3>1, NoReplyType, OwnStays DEF CallInv, Answered, OwnedBy, IDs, chain
  <2> QED
    BY <2>1, <2>2, <2>3, <2>4 DEF CallInv
<1> QED
  BY <1>1, <1>2, <1>3

LEMMA SubmissionEnds ==
  ASSUME CallTypes, NEW c \in Callers, Submitted(c),
         \A d \in Callers : CallInv(d)
  PROVE  \A d \in Callers : CallInv(d)' /\ Frozen(d)
<1>1. CASE Return(c, "not decoded")
  <2>1. pc[c] = "submit" /\ UNCHANGED chain
    BY DEF Submitted
  <2> QED
    BY <1>1, <2>1, ReturnInv DEF TurnedDown
<1>2. CASE ~Return(c, "not decoded")
  <2>1. PICK body \in Bodies :
          /\ pc' = Set(pc, c, "wait")
          /\ result' = Set(result, c, "submitted")
          /\ handle' = Set(handle, c, IF body = "json" THEN reply[c].id ELSE NoID)
          /\ UNCHANGED <<operation, batch, nonce, sent, wire, reply, verdict, deployedAtCall>>
    BY <1>2 DEF Submitted
  <2>2. pc[c] = "submit" /\ UNCHANGED chain /\ reply[c].kind = "accepted"
    BY DEF Submitted
  <2>3. pc'[c] = "wait" /\ \A d \in Callers \ {c} : pc'[d] = pc[d]
    BY <2>1 DEF CallTypes, Set
  <2>4. result'[c] = "submitted" /\ \A d \in Callers \ {c} : result'[d] = result[d]
    BY <2>1 DEF CallTypes, Set
  <2>5. /\ handle'[c] \in {reply[c].id, NoID}
        /\ \A d \in Callers \ {c} : handle'[d] = handle[d]
    BY <2>1 DEF CallTypes, Set
  <2>6. \A d \in Callers : Frozen(d)
    BY <2>1, OwnStays DEF Frozen
  <2>7. ASSUME NEW d \in Callers \ {c} PROVE CallInv(d)'
    BY <2>1, <2>2, <2>3, <2>4, <2>5, <2>7, KeptInv DEF Kept
  <2>8. Stage(c)' /\ Sending(c)'
    BY <2>1, <2>2, <2>3, <2>4 DEF CallInv, Stage, Sending, TurnedDown
  <2>9. Prepared(c)' /\ Checked(c)'
    BY <2>1, <2>2, <2>3 DEF CallInv, Prepared, Checked, chain
  <2>10. Answered(c)'
    BY <2>1, <2>2, <2>5, OwnStays DEF CallInv, Stage, Answered, OwnedBy, IDs, chain
  <2> QED
    BY <2>6, <2>7, <2>8, <2>9, <2>10 DEF CallInv
<1> QED
  BY <1>1, <1>2

\* Wait says v, and only after the transaction failed does it say "failed".
LEMMA VerdictInv ==
  ASSUME CallTypes, NEW c \in Callers, NEW v \in Verdicts, Verdict(c, v), pc[c] = "wait",
         v = "failed" => StateOf(handle[c]) = "FAILED",
         \A d \in Callers : CallInv(d)
  PROVE  \A d \in Callers : CallInv(d)' /\ Frozen(d)
<1>1. /\ pc'[c] = "returned" /\ \A d \in Callers \ {c} : pc'[d] = pc[d]
      /\ verdict'[c] = v /\ \A d \in Callers \ {c} : verdict'[d] = verdict[d]
      /\ UNCHANGED <<operation, batch, nonce, sent, wire, reply, result, handle, deployedAtCall>>
      /\ UNCHANGED chain
  BY DEF Verdict, Set, CallTypes
<1>2. \A d \in Callers : Frozen(d)
  BY <1>1, OwnStays DEF Frozen
<1>3. ASSUME NEW d \in Callers \ {c} PROVE CallInv(d)'
  BY <1>1, <1>3, KeptInv DEF Kept
<1>4. Stage(c)' /\ Sending(c)'
  BY <1>1 DEF CallInv, Stage, Sending, TurnedDown
<1>5. Prepared(c)' /\ Checked(c)'
  BY <1>1 DEF CallInv, Prepared, Checked, chain
<1>6. Answered(c)'
  <2>1. v = "failed" => handle[c] \in IDs /\ records[handle[c]].state = "FAILED"
    BY DEF StateOf
  <2> QED
    BY <1>1, <2>1, OwnStays DEF CallInv, Answered, OwnedBy, IDs, chain
<1> QED
  BY <1>2, <1>3, <1>4, <1>5, <1>6 DEF CallInv

LEMMA CallInvStep ==
  ASSUME CallTypes, ChainTypes, NEW c \in Callers, CallNext(c),
         \A d \in Callers : CallInv(d)
  PROVE  \A d \in Callers : CallInv(d)' /\ Frozen(d)
<1>0. Stage(c) /\ Prepared(c)
  BY DEF CallInv
<1>q. pc[c] \in {"idle", "deployed", "nonce", "sign"} => ~(sent[c] > 0)
  BY <1>0 DEF Stage
<1>1. CASE Refuse(c)
  BY <1>q, <1>1, ReturnInv DEF Refuse
<1>2. ASSUME NEW op \in Operations, Call(c, op)
      PROVE  \A d \in Callers : CallInv(d)' /\ Frozen(d)
  BY <1>2, CallBegins
<1>3. CASE RequestFails(c)
  BY <1>q, <1>3, ReturnInv DEF RequestFails
<1>4. CASE GetDeployed(c)
  <2>1. PICK body \in Bodies \ {"garbled"} : Deployment(c, Reported(body))
    BY <1>4 DEF GetDeployed
  <2>2. pc[c] = "deployed" /\ sent[c] = 0 /\ UNCHANGED chain
    BY <1>0, <1>4 DEF GetDeployed, Stage
  <2>3. /\ Reported(body) => deployed
        /\ "empty" \notin Bodies /\ ~Reported(body) => ~deployed
    BY <2>1, BodiesAssumption DEF Reported, BodyKinds
  <2>4. CASE operation[c] = "SAFE" /\ Reported(body) /\ Goto(c, "nonce") /\ UNCHANGED nonce
    BY <2>2, <2>3, <2>4, GotoInv
  <2>5. CASE operation[c] = "SAFE" /\ ~Reported(body) /\ Return(c, "safe not deployed")
    BY <1>q, <2>2, <2>5, ReturnInv
  <2>6. CASE operation[c] = "SAFE-CREATE" /\ Reported(body) /\ Return(c, "safe deployed")
    BY <1>q, <2>2, <2>6, ReturnInv
  <2>7. CASE operation[c] = "SAFE-CREATE" /\ ~Reported(body) /\ Goto(c, "sign") /\ UNCHANGED nonce
    BY <2>2, <2>3, <2>7, GotoInv
  <2> QED
    BY <2>1, <2>4, <2>5, <2>6, <2>7 DEF Deployment
<1>5. CASE GetNonce(c)
  <2>1. PICK n \in NextNonces(operation[c]), body \in Bodies \ {"garbled"} :
          IF body = "json"
          THEN Goto(c, "sign") /\ nonce' = Set(nonce, c, n)
          ELSE \/ operation[c] = "SAFE" /\ Return(c, "invalid nonce")
               \/ operation[c] = "PROXY" /\ Goto(c, "sign") /\ UNCHANGED nonce
    BY <1>5 DEF GetNonce
  <2>2. pc[c] = "nonce" /\ operation[c] \in Wallets /\ sent[c] = 0 /\ UNCHANGED chain
    BY <1>0, <1>5 DEF GetNonce, Stage
  <2>3. n \in Nat
    BY <2>1, <2>2, NoncesAreNatural
  <2>4. CASE Goto(c, "sign") /\ nonce' = Set(nonce, c, n)
    <3>1. nonce'[c] = n /\ \A d \in Callers \ {c} : nonce'[d] = nonce[d]
      BY <2>4 DEF CallTypes, Set
    <3>2. n # NoNonce
      BY <2>3 DEF NoNonce
    <3>3. operation[c] = "SAFE" => deployed
      BY <1>0, <2>2 DEF Prepared
    <3> QED
      BY <2>2, <2>4, <3>1, <3>2, <3>3, GotoInv
  <2>5. CASE operation[c] = "SAFE" /\ Return(c, "invalid nonce")
    BY <1>q, <2>2, <2>5, ReturnInv
  <2>6. CASE operation[c] = "PROXY" /\ Goto(c, "sign") /\ UNCHANGED nonce
    BY <2>2, <2>6, GotoInv
  <2> QED
    BY <2>1, <2>4, <2>5, <2>6
<1>6. CASE Sign(c)
  BY <1>0, <1>6, GotoInv DEF Sign
<1>7. CASE SignFails(c)
  BY <1>q, <1>7, ReturnInv DEF SignFails
<1>8. CASE SendAttempt(c)
  BY <1>8, AttemptIsSent
<1>9. CASE GiveUp(c)
  BY <1>9, ReturnInv DEF GiveUp, TurnedDown
<1>10. CASE Declined(c)
  BY <1>10, ReturnInv DEF Declined, TurnedDown
<1>11. CASE Submitted(c)
  BY <1>11, SubmissionEnds
<1>12. CASE WaitEnds(c)
  BY <1>12, VerdictInv DEF WaitEnds, Verdicts
<1>13. CASE WaitGivesUp(c)
  BY <1>13, VerdictInv DEF WaitGivesUp, Verdicts
<1> QED
  BY <1>1, <1>2, <1>3, <1>4, <1>5, <1>6, <1>7, <1>8, <1>9, <1>10, <1>11, <1>12, <1>13
     DEF CallNext, CallStep

\* The records are as they were, and what the calls have submitted is frozen.
LEMMA FrozenRecords ==
  ASSUME ChainTypes, RecordInv, UNCHANGED chain, \A d \in Callers : Frozen(d)
  PROVE  RecordInv'
<1>1. ASSUME NEW c \in Callers, NEW id \in IDs, SignedBy(c, id)
      PROVE  SignedBy(c, id)' /\ Own(c)' = Own(c)
  BY <1>1 DEF SignedBy, Frozen, chain
<1>2. IDs' = IDs /\ records' = records
  BY DEF IDs, chain
<1>3. \A id \in IDs' : Signed(id)'
  BY <1>1, <1>2 DEF RecordInv, Signed
<1>4. \A id \in IDs' : Settled(id)'
  BY <1>2 DEF RecordInv, Settled, chain
<1>5. OneEffect'
  BY <1>2 DEF RecordInv, OneEffect, Twins
<1>6. ASSUME NEW c \in Callers, Alone(c)', NEW id \in IDs, SignedBy(c, id)'
      PROVE  Alone(c) /\ SignedBy(c, id) /\ wire'[c] = wire[c]
  <2>1. PICK e \in Callers : SignedBy(e, id)
    BY DEF RecordInv, Signed
  <2>2. sent'[e] > 0 /\ Own(e)' = Own(c)'
    BY <1>1, <1>6, <2>1 DEF SignedBy
  <2>3. e = c
    BY <1>6, <2>2 DEF Alone
  <2>4. sent[c] > 0 /\ sent'[c] = 1 /\ Own(c)' = Own(c)
    BY <1>1, <1>6, <2>1, <2>3 DEF SignedBy, Alone
  <2>5. sent[c] = 1 /\ wire'[c] = wire[c]
    BY <2>4 DEF Frozen
  <2>6. ASSUME NEW d \in Callers \ {c}, sent[d] > 0 PROVE Own(d) # Own(c)
    <3>1. sent'[d] > 0 /\ Own(d)' = Own(d)
      BY <2>6 DEF Frozen
    <3>2. Own(d)' # Own(c)'
      BY <1>6, <3>1 DEF Alone
    <3> QED
      BY <2>4, <3>1, <3>2
  <2> QED
    BY <2>1, <2>3, <2>5, <2>6 DEF Alone
<1>7. NoTwins'
  BY <1>2, <1>6 DEF RecordInv, NoTwins
<1>8. Arrived'
  BY <1>2, <1>6 DEF RecordInv, Arrived
<1> QED
  BY <1>3, <1>4, <1>5, <1>7, <1>8 DEF RecordInv

LEMMA CallKeepsInvariant ==
  ASSUME IInv, NEW c \in Callers, CallNext(c)
  PROVE  IInv'
<1>1. pc[c] = "nonce" => operation[c] \in Wallets
  BY DEF IInv, CallInv, Stage
<1>2. CallTypes' /\ UNCHANGED chain
  BY <1>1, CallTypeStep DEF IInv
<1>3. \A d \in Callers : CallInv(d)' /\ Frozen(d)
  BY CallInvStep DEF IInv
<1>4. RecordInv'
  BY <1>2, <1>3, FrozenRecords DEF IInv
<1>5. ChainTypes'
  BY <1>2 DEF IInv, ChainTypes, chain
<1> QED
  BY <1>2, <1>3, <1>4, <1>5 DEF IInv

\* A reply of the kind and with the id, or none that is new.
LEMMA RepliedEffect ==
  ASSUME CallTypes, NEW c \in Callers, NEW request, NEW kind \in {"none", "accepted", "declined"},
         NEW id \in Nat, Replied(c, request, kind, id)
  PROVE  \A d \in Callers : reply'[d] = reply[d]
                             \/ (d = c /\ reply'[d].kind = kind /\ reply'[d].id = id)
<1> DEFINE r == [kind |-> kind, id |-> id]
<1>1. r.kind = kind /\ r.id = id
  BY ReplyType
<1>2. reply' = reply \/ reply' = [reply EXCEPT ![c] = r]
  BY DEF Replied, Set
<1> HIDE DEF r
<1>3. reply \in [Callers -> Replies]
  BY DEF CallTypes
<1>4. CASE reply' = [reply EXCEPT ![c] = r]
  <2>1. reply'[c] = r /\ \A d \in Callers : d # c => reply'[d] = reply[d]
    BY <1>3, <1>4
  <2> QED
    BY <1>1, <2>1
<1> QED
  BY <1>2, <1>4

LEMMA ArriveRecords ==
  ASSUME CallTypes, ChainTypes, NEW c \in Callers, NEW request \in wire[c], Arrive(c, request),
         operation[c] \in OperationKinds, request.nonce = nonce[c]
  PROVE  /\ IDs \subseteq IDs'
         /\ \A i \in IDs : records'[i] = records[i]
         /\ \A i \in IDs' \ IDs :
              records'[i].request = Own(c) /\ records'[i].state = "NEW"
         /\ \A i, j \in IDs' \ IDs : i = j
         /\ \A d \in Callers :
              reply'[d] = reply[d] \/ reply'[d].kind # "accepted"
                \/ (d = c /\ reply'[d].id \in IDs' /\ records'[reply'[d].id].request = Own(c))
<1>0. SignedAs(c, request.nonce) = Own(c) /\ Own(c) \in SignedRequests
  <2>1. SignedAs(c, request.nonce) = Own(c)
    BY DEF Own
  <2>2. SignedNonce(nonce[c]) \in Nat
    BY SignedNonceType DEF CallTypes
  <2> QED
    BY <2>1, <2>2 DEF Own, SignedAs, SignedRequests, CallTypes
<1>1. CASE Replied(c, request, "declined", NoID) /\ UNCHANGED records
  <2>1. NoID \in Nat
    BY DEF NoID
  <2>2. \A d \in Callers : reply'[d] = reply[d] \/ reply'[d].kind = "declined"
    BY <1>1, <2>1, RepliedEffect
  <2>3. \A d \in Callers : reply'[d] = reply[d] \/ reply'[d].kind # "accepted"
    BY <2>2
  <2>4. IDs' = IDs /\ records' = records
    BY <1>1 DEF IDs
  <2> QED
    BY <2>3, <2>4
<1>2. CASE \E id \in Known(c, request) : Replied(c, request, "accepted", id) /\ UNCHANGED records
  <2>1. PICK id \in Known(c, request) : Replied(c, request, "accepted", id) /\ UNCHANGED records
    BY <1>2
  <2>2. id \in IDs /\ records[id].request = Own(c)
    BY <1>0 DEF Known
  <2>3. id \in Nat
    BY <2>2, Elements DEF IDs, ChainTypes
  <2>4. \A d \in Callers : reply'[d] = reply[d]
                            \/ (d = c /\ reply'[d].kind = "accepted" /\ reply'[d].id = id)
    BY <2>1, <2>3, RepliedEffect
  <2> QED
    BY <2>1, <2>2, <2>4 DEF IDs
<1>3. CASE ~UNCHANGED records
  <2> DEFINE r == [request |-> SignedAs(c, request.nonce), state |-> "NEW"]
             new == Len(records) + 1
  <2>1. r \in Transactions /\ r.request = Own(c) /\ r.state = "NEW"
    BY <1>0, TransactionType
  <2>2. records' = Append(records, r)
        /\ Replied(c, request, "accepted", new)
    BY <1>3 DEF Arrive
  <2> HIDE DEF r, new
  <2>3. records \in Seq(Transactions)
    BY DEF ChainTypes
  <2>4. /\ IDs' = IDs \cup {new} /\ new \notin IDs /\ new \in Nat
        /\ records'[new] = r
        /\ \A i \in IDs : records'[i] = records[i]
    BY <2>1, <2>2, <2>3, Appended DEF IDs, new
  <2>5. \A d \in Callers : reply'[d] = reply[d]
                            \/ (d = c /\ reply'[d].kind = "accepted" /\ reply'[d].id = new)
    <3>1. Replied(c, request, "accepted", new) /\ new \in Nat
      BY <2>2, <2>4
    <3> QED
      BY <3>1, RepliedEffect
  <2> QED
    BY <2>1, <2>2, <2>4, <2>5
<1> QED
  BY <1>1, <1>2, <1>3 DEF Arrive

\* There is one request that a first attempt can be.
LEMMA OneRequest ==
  ASSUME NEW r \in Requests, NEW s \in Requests, r.attempt < 1, s.attempt < 1, r.nonce = s.nonce
  PROVE  r = s
<1>1. r.attempt \in Nat /\ s.attempt \in Nat
  BY RetriesAssumption DEF Requests, Attempts
<1>2. r.attempt = s.attempt
  BY <1>1
<1> QED
  BY <1>2 DEF Requests

LEMMA ArriveKeepsInvariant ==
  ASSUME IInv, NEW c \in Callers, NEW request \in wire[c], Arrive(c, request)
  PROVE  IInv'
<1>0. CallTypes /\ ChainTypes /\ (\A d \in Callers : CallInv(d)) /\ RecordInv
  BY DEF IInv
<1>1. /\ request.nonce = nonce[c] /\ sent[c] > 0
      /\ operation[c] \in OperationKinds
  BY <1>0 DEF CallInv, Sending
<1>2. CallTypes' /\ ChainTypes'
  BY <1>0, <1>1, ArriveTypes
<1>3. /\ wire'[c] = wire[c] \ {request} /\ \A d \in Callers \ {c} : wire'[d] = wire[d]
      /\ UNCHANGED <<pc, operation, batch, nonce, sent, result, handle, verdict, deployedAtCall>>
      /\ UNCHANGED <<deployed, walletNonce>>
  BY <1>0 DEF Arrive, CallTypes, Set
<1>4. /\ IDs \subseteq IDs'
      /\ \A i \in IDs : records'[i] = records[i]
      /\ \A i \in IDs' \ IDs :
           records'[i].request = Own(c) /\ records'[i].state = "NEW"
      /\ \A i, j \in IDs' \ IDs : i = j
      /\ \A d \in Callers :
           reply'[d] = reply[d] \/ reply'[d].kind # "accepted"
             \/ (d = c /\ reply'[d].id \in IDs' /\ records'[reply'[d].id].request = Own(c))
  BY <1>0, <1>1, ArriveRecords
<1>5. \A d \in Callers : Own(d)' = Own(d)
  BY <1>3, OwnStays
<1>6. ASSUME NEW d \in Callers PROVE CallInv(d)'
  <2>1. Stage(d)' /\ Prepared(d)' /\ Checked(d)'
    BY <1>0, <1>3 DEF CallInv, Stage, Prepared, Checked
  <2>2. Sending(d)'
    BY <1>0, <1>3 DEF CallInv, Sending
  <2>3. Answered(d)'
    BY <1>0, <1>1, <1>3, <1>4, <1>5 DEF CallInv, Answered, OwnedBy
  <2> QED
    BY <2>1, <2>2, <2>3 DEF CallInv
<1>7. ASSUME NEW id \in IDs' PROVE Signed(id)' /\ Settled(id)'
  <2>1. CASE id \in IDs
    <3>1. records'[id] = records[id] /\ Signed(id) /\ Settled(id)
      BY <1>0, <1>4, <2>1 DEF RecordInv
    <3> QED
      BY <1>3, <1>5, <3>1 DEF Signed, SignedBy, Settled
  <2>2. CASE id \notin IDs
    <3>1. SignedBy(c, id)' /\ records'[id].state = "NEW"
      BY <1>1, <1>3, <1>4, <1>5, <2>2 DEF SignedBy
    <3> QED
      BY <3>1 DEF Signed, Settled
  <2> QED
    BY <2>1, <2>2
<1>8. OneEffect'
  BY <1>0, <1>4 DEF RecordInv, OneEffect, Twins
<1>9. ASSUME NEW d \in Callers, Alone(d)', NEW id \in IDs', SignedBy(d, id)'
      PROVE  /\ Alone(d)
             /\ id \in IDs => SignedBy(d, id)
             /\ id \notin IDs => d = c /\ \A i \in IDs : ~SignedBy(c, i)
  <2>1. Alone(d)
    BY <1>3, <1>5, <1>9 DEF Alone
  <2>2. CASE id \in IDs
    BY <1>3, <1>4, <1>5, <1>9, <2>1, <2>2 DEF SignedBy
  <2>3. CASE id \notin IDs
    <3>1. Own(d) = Own(c)
      BY <1>4, <1>5, <1>9, <2>3 DEF SignedBy
    <3>2. d = c
      BY <1>1, <2>1, <3>1 DEF Alone
    <3>3. \A i \in IDs : ~SignedBy(c, i)
      BY <1>0, <2>1, <3>2 DEF RecordInv, Arrived
    <3> QED
      BY <2>1, <2>3, <3>2, <3>3
  <2> QED
    BY <2>2, <2>3
<1>10. NoTwins'
  <2> SUFFICES ASSUME NEW d \in Callers, Alone(d)', NEW i \in IDs', NEW j \in IDs',
                      SignedBy(d, i)', SignedBy(d, j)'
               PROVE  i = j
    BY DEF NoTwins
  <2>1. CASE i \in IDs /\ j \in IDs
    BY <1>0, <1>9, <2>1 DEF RecordInv, NoTwins
  <2>2. CASE i \notin IDs \/ j \notin IDs
    <3>1. i \notin IDs /\ j \notin IDs
      BY <1>9, <2>2
    <3> QED
      BY <1>4, <3>1
  <2> QED
    BY <2>1, <2>2
<1>11. Arrived'
  <2> SUFFICES ASSUME NEW d \in Callers, Alone(d)', NEW id \in IDs', SignedBy(d, id)'
               PROVE  wire'[d] = {}
    BY DEF Arrived
  <2>1. CASE id \in IDs
    <3>1. wire[d] = {}
      BY <1>0, <1>9, <2>1 DEF RecordInv, Arrived
    <3>2. d # c
      BY <3>1
    <3> QED
      BY <1>3, <3>1, <3>2
  <2>2. CASE id \notin IDs
    <3>1. d = c /\ sent[c] = 1
      BY <1>9, <2>2 DEF Alone
    <3>2. ASSUME NEW r \in wire[c] PROVE r = request
      <4>1. r \in Requests /\ request \in Requests
        BY <1>0 DEF CallTypes
      <4>2. r.attempt < 1 /\ request.attempt < 1 /\ r.nonce = request.nonce
        BY <1>0, <3>1 DEF CallInv, Sending
      <4> QED
        BY <4>1, <4>2, OneRequest
    <3> QED
      BY <1>3, <3>1, <3>2
  <2> QED
    BY <2>1, <2>2
<1> QED
  BY <1>2, <1>6, <1>7, <1>8, <1>10, <1>11 DEF IInv, RecordInv

\* The calls do not move while the chain does.
LEMMA ChainMoves ==
  ASSUME UNCHANGED calls, NEW d \in Callers, CallInv(d), deployed => deployed',
         NEW id \in IDs, NEW s \in States, Marked(id, s), records[id].state = "NEW"
  PROVE  CallInv(d)'
<1>1. /\ UNCHANGED <<pc, operation, batch, nonce, sent, wire, reply>>
      /\ UNCHANGED <<result, handle, verdict, deployedAtCall>>
      /\ Own(d)' = Own(d)
  BY OwnStays DEF calls
<1>2. Stage(d)' /\ Sending(d)'
  BY <1>1 DEF CallInv, Stage, Sending
<1>3. Prepared(d)' /\ Checked(d)'
  BY <1>1 DEF CallInv, Prepared, Checked
<1>4. IDs' = IDs
  BY DEF Marked, IDs
<1>5. \A j \in IDs : records'[j].request = records[j].request
                      /\ (records[j].state = "FAILED" => records'[j].state = "FAILED")
  BY DEF Marked
<1>6. Answered(d)'
  BY <1>1, <1>4, <1>5 DEF CallInv, Answered, OwnedBy
<1> QED
  BY <1>2, <1>3, <1>6 DEF CallInv

LEMMA MineEffect ==
  ASSUME ChainTypes, NEW id \in IDs, Mine(id)
  PROVE  LET op == records[id].request.operation
         IN  /\ records[id].state = "NEW"
             /\ op = "SAFE-CREATE" => ~deployed /\ deployed' /\ walletNonce' = walletNonce
             /\ op # "SAFE-CREATE" =>
                  /\ deployed' = deployed
                  /\ records[id].request.nonce = walletNonce[op]
                  /\ walletNonce[op] < walletNonce'[op]
                  /\ \A w \in Wallets : walletNonce[w] <= walletNonce'[w]
                  /\ \A w \in Wallets : walletNonce[w] \in Nat /\ walletNonce'[w] \in Nat
<1> DEFINE op == records[id].request.operation
<1>1. op \in OperationKinds
  BY Elements, TransactionFields DEF ChainTypes, IDs
<1>2. records[id].state = "NEW"
  BY DEF Mine
<1>3. CASE op = "SAFE-CREATE"
  BY <1>2, <1>3 DEF Mine, Executable, ChainTypes
<1>4. CASE op # "SAFE-CREATE"
  <2>1. /\ deployed' = deployed /\ records[id].request.nonce = walletNonce[op]
        /\ walletNonce' = [walletNonce EXCEPT ![op] = walletNonce[op] + 1]
    BY <1>4 DEF Mine, Executable
  <2>2. walletNonce \in [Wallets -> Nat] /\ op \in Wallets
    BY <1>1, <1>4 DEF ChainTypes, OperationKinds, Wallets
  <2> HIDE DEF op
  <2>3. /\ walletNonce' \in [Wallets -> Nat]
        /\ walletNonce'[op] = walletNonce[op] + 1
        /\ \A w \in Wallets : w # op => walletNonce'[w] = walletNonce[w]
    BY <2>1, <2>2, Incremented
  <2>4. \A w \in Wallets : walletNonce[w] \in Nat /\ walletNonce'[w] \in Nat
    BY <2>2, <2>3
  <2>5. walletNonce[op] < walletNonce'[op]
    BY <2>2, <2>3, <2>4
  <2>6. \A w \in Wallets : walletNonce[w] <= walletNonce'[w]
    BY <2>3, <2>4, <2>5
  <2> QED
    BY <1>2, <1>4, <2>1, <2>4, <2>5, <2>6 DEF op
<1> QED
  BY <1>3, <1>4

LEMMA MineKeepsInvariant ==
  ASSUME IInv, NEW id \in IDs, Mine(id)
  PROVE  IInv' /\ \A j \in IDs : Twins(j, id) => records[j].state # "MINED"
<1> DEFINE op == records[id].request.operation
<1>0. CallTypes /\ ChainTypes /\ (\A d \in Callers : CallInv(d)) /\ RecordInv
  BY DEF IInv
<1>1. CallTypes' /\ ChainTypes' /\ Marked(id, "MINED")
  BY <1>0, MineTypes
<1>2. /\ records[id].state = "NEW"
      /\ op = "SAFE-CREATE" => ~deployed /\ deployed' /\ walletNonce' = walletNonce
      /\ op # "SAFE-CREATE" =>
           /\ deployed' = deployed
           /\ records[id].request.nonce = walletNonce[op]
           /\ walletNonce[op] < walletNonce'[op]
           /\ \A w \in Wallets : walletNonce[w] <= walletNonce'[w]
           /\ \A w \in Wallets : walletNonce[w] \in Nat /\ walletNonce'[w] \in Nat
  BY <1>0, MineEffect
<1>3. IDs' = IDs /\ UNCHANGED calls
  BY <1>1 DEF Marked, IDs, Mine
<1>4. \A j \in IDs : /\ records[j].request.operation \in OperationKinds
                     /\ records[j].request.nonce \in Nat
  BY <1>0, Elements, TransactionFields DEF ChainTypes, IDs
<1>5. \A j \in IDs : /\ records'[j].request = records[j].request
                     /\ records'[j].state = IF j = id THEN "MINED" ELSE records[j].state
  BY <1>1 DEF Marked
<1>6. deployed => deployed'
  BY <1>2
<1>7. \A d \in Callers : CallInv(d)'
  BY <1>0, <1>1, <1>2, <1>3, <1>6, ChainMoves DEF States
<1>8. /\ \A d \in Callers : /\ Own(d)' = Own(d) /\ sent'[d] = sent[d] /\ wire'[d] = wire[d]
                              /\ Alone(d)' = Alone(d)
      /\ \A d \in Callers, j \in IDs : SignedBy(d, j)' = SignedBy(d, j)
      /\ \A j \in IDs : Signed(j)'
  <2>1. \A d \in Callers : Own(d)' = Own(d) /\ sent'[d] = sent[d] /\ wire'[d] = wire[d]
    BY <1>3, OwnStays DEF calls
  <2>2. \A d \in Callers, j \in IDs : SignedBy(d, j)' = SignedBy(d, j)
    BY <1>5, <2>1 DEF SignedBy
  <2>3. \A j \in IDs : Signed(j)'
    BY <1>0, <2>2 DEF RecordInv, Signed
  <2>4. \A d \in Callers : Alone(d)' = Alone(d)
    BY <2>1 DEF Alone
  <2> QED
    BY <2>1, <2>2, <2>3, <2>4
<1>9. ASSUME NEW j \in IDs PROVE Settled(j)'
  <2>1. CASE j = id
    BY <1>2, <1>5, <2>1 DEF Settled
  <2>2. CASE j # id /\ records[j].state = "MINED"
    <3> DEFINE o == records[j].request.operation
    <3>1. IF o = "SAFE-CREATE" THEN deployed ELSE records[j].request.nonce < walletNonce[o]
      BY <1>0, <2>2 DEF RecordInv, Settled
    <3>2. o # "SAFE-CREATE" => o \in Wallets
      BY <1>4 DEF OperationKinds, Wallets
    <3>3. o # "SAFE-CREATE" => walletNonce[o] <= walletNonce'[o]
                                /\ walletNonce[o] \in Nat /\ walletNonce'[o] \in Nat
      BY <1>0, <1>1, <1>2, <3>2 DEF ChainTypes
    <3>4. o # "SAFE-CREATE" => records[j].request.nonce < walletNonce'[o]
      BY <1>4, <3>1, <3>3
    <3> QED
      BY <1>5, <1>6, <3>1, <3>4 DEF Settled
  <2>3. CASE j # id /\ records[j].state # "MINED"
    BY <1>5, <2>3 DEF Settled
  <2> QED
    BY <2>1, <2>2, <2>3
<1>10. ASSUME NEW j \in IDs, Twins(j, id), records[j].state = "MINED" PROVE FALSE
  <2>1. records[j].request = records[id].request
    BY <1>10 DEF Twins
  <2>2. IF op = "SAFE-CREATE" THEN deployed ELSE records[id].request.nonce < walletNonce[op]
    BY <1>0, <1>10, <2>1 DEF RecordInv, Settled
  <2>3. op # "SAFE-CREATE" => walletNonce[op] \in Nat
    BY <1>0, <1>4 DEF ChainTypes, OperationKinds, Wallets
  <2> QED
    BY <1>2, <2>2, <2>3
<1>11. OneEffect'
  BY <1>0, <1>3, <1>5, <1>10 DEF RecordInv, OneEffect, Twins
<1>12. NoTwins' /\ Arrived'
  BY <1>0, <1>3, <1>8 DEF RecordInv, NoTwins, Arrived
<1> QED
  BY <1>1, <1>3, <1>7, <1>8, <1>9, <1>10, <1>11, <1>12 DEF IInv, RecordInv

LEMMA DropKeepsInvariant ==
  ASSUME IInv, NEW id \in IDs, Drop(id)
  PROVE  IInv'
<1>0. CallTypes /\ ChainTypes /\ (\A d \in Callers : CallInv(d)) /\ RecordInv
  BY DEF IInv
<1>1. CallTypes' /\ ChainTypes' /\ Marked(id, "FAILED")
  BY <1>0, DropTypes
<1>2. /\ records[id].state = "NEW"
      /\ IDs' = IDs /\ UNCHANGED calls /\ UNCHANGED <<deployed, walletNonce>>
  BY <1>1 DEF Marked, IDs, Drop
<1>3. \A j \in IDs : /\ records'[j].request = records[j].request
                     /\ records'[j].state = IF j = id THEN "FAILED" ELSE records[j].state
  BY <1>1 DEF Marked
<1>4. \A d \in Callers : CallInv(d)'
  BY <1>0, <1>1, <1>2, ChainMoves DEF States
<1>5. /\ \A d \in Callers : wire'[d] = wire[d] /\ Alone(d)' = Alone(d)
      /\ \A d \in Callers, j \in IDs : SignedBy(d, j)' = SignedBy(d, j)
  <2>1. \A d \in Callers : Own(d)' = Own(d) /\ sent'[d] = sent[d] /\ wire'[d] = wire[d]
    BY <1>2, OwnStays DEF calls
  <2>2. \A d \in Callers, j \in IDs : SignedBy(d, j)' = SignedBy(d, j)
    BY <1>3, <2>1 DEF SignedBy
  <2>3. \A d \in Callers : Alone(d)' = Alone(d)
    BY <2>1 DEF Alone
  <2> QED
    BY <2>1, <2>2, <2>3
<1>6. \A j \in IDs : Signed(j)' /\ Settled(j)'
  BY <1>0, <1>2, <1>3, <1>5 DEF RecordInv, Signed, Settled
<1>7. OneEffect' /\ NoTwins' /\ Arrived'
  BY <1>0, <1>2, <1>3, <1>5 DEF RecordInv, OneEffect, NoTwins, Arrived, Twins
<1> QED
  BY <1>1, <1>2, <1>4, <1>6, <1>7 DEF IInv, RecordInv

LEMMA StutterKeepsInvariant == IInv /\ UNCHANGED vars => IInv'
<1> SUFFICES ASSUME IInv, UNCHANGED vars PROVE IInv'
  OBVIOUS
<1>1. /\ UNCHANGED <<pc, operation, batch, nonce, sent, wire, reply>>
      /\ UNCHANGED <<result, handle, verdict, deployedAtCall>>
      /\ UNCHANGED <<deployed, walletNonce, records>>
      /\ UNCHANGED chain
  BY DEF vars, calls, chain
<1>2. CallTypes' /\ ChainTypes'
  BY <1>1 DEF IInv, CallTypes, ChainTypes
<1>3. \A d \in Callers : Kept(d) /\ Frozen(d)
  BY <1>1, OwnStays DEF Kept, Frozen
<1>4. \A d \in Callers : CallInv(d)'
  BY <1>1, <1>3, KeptInv DEF IInv
<1>5. RecordInv'
  BY <1>1, <1>3, FrozenRecords DEF IInv
<1> QED
  BY <1>2, <1>4, <1>5 DEF IInv

LEMMA InvariantIsInductive == IInv /\ [Next]_vars => IInv'
<1> SUFFICES ASSUME IInv, [Next]_vars PROVE IInv'
  OBVIOUS
<1>1. ASSUME NEW c \in Callers, CallNext(c) PROVE IInv'
  BY <1>1, CallKeepsInvariant
<1>2. ASSUME NEW c \in Callers, NEW request \in wire[c], Arrive(c, request) PROVE IInv'
  BY <1>2, ArriveKeepsInvariant
<1>3. ASSUME NEW id \in IDs, Mine(id) PROVE IInv'
  BY <1>3, MineKeepsInvariant
<1>4. ASSUME NEW id \in IDs, Drop(id) PROVE IInv'
  BY <1>4, DropKeepsInvariant
<1>5. CASE UNCHANGED vars
  BY <1>5, StutterKeepsInvariant
<1> QED
  BY <1>1, <1>2, <1>3, <1>4, <1>5 DEF Next, RelayerNext

\* Every state the calls, the relayer and the chain can reach satisfies the invariant.
THEOREM Invariance == Spec => []IInv
<1> QED
  BY InitInvariant, InvariantIsInductive, PTL DEF Spec

\* The variables have their types.
THEOREM TypeCorrectness == Spec => []TypeOK
<1>1. IInv => TypeOK
  BY TypeParts DEF IInv
<1> QED
  BY Invariance, <1>1, PTL

(***************************************************************************)
(* Whatever the relayer answers, and whatever other goroutines do, Execute *)
(* on a Safe submits only with the Safe deployed and a nonce it was given. *)
(***************************************************************************)
THEOREM SafeExecutions == Spec => []SafeExecutionIsPrepared
<1>1. IInv => SafeExecutionIsPrepared
  BY DEF IInv, CallInv, Prepared, SafeExecutionIsPrepared
<1> QED
  BY Invariance, <1>1, PTL

(***************************************************************************)
(* However many goroutines there are and whatever the relayer repeats or   *)
(* recognises, a transaction that Wait calls failed has not taken effect   *)
(* if its submission was sent once and nobody else submitted the same.     *)
(***************************************************************************)
THEOREM FailuresAreFinal == Spec => []FailureIsFinal
<1>1. IInv => FailureIsFinal
  <2> SUFFICES ASSUME IInv, NEW c \in Callers, verdict[c] = "failed", sent[c] = 1,
                      \A d \in Callers \ {c} : submissions[d] # submissions[c],
                      NEW id \in MinedFor(c)
               PROVE  FALSE
    BY DEF FailureIsFinal
  <2>1. Alone(c)
    <3> SUFFICES ASSUME NEW d \in Callers \ {c}, sent[d] > 0, Own(d) = Own(c) PROVE FALSE
      BY DEF Alone
    <3>1. sent[c] > 0 /\ c \in Callers /\ d \in Callers
      OBVIOUS
    <3>2. submissions[d] = {Own(d)}
      BY <3>1, SubmissionsAre
    <3>3. submissions[c] = {Own(c)}
      BY <3>1, SubmissionsAre
    <3> QED
      BY <3>2, <3>3
  <2>2. id \in IDs /\ SignedBy(c, id) /\ records[id].state = "MINED"
    BY SubmissionsAre DEF MinedFor, Mined, SignedBy
  <2>3. Stage(c) /\ Answered(c)
    BY DEF IInv, CallInv
  <2>4. handle[c] \in IDs /\ records[handle[c]].state = "FAILED" /\ handle[c] # NoID
    BY <2>3, Elements DEF Answered, IInv, ChainTypes, IDs, NoID
  <2>5. SignedBy(c, handle[c])
    BY <2>3, <2>4 DEF Answered, OwnedBy, SignedBy
  <2>6. id = handle[c]
    BY <2>1, <2>2, <2>4, <2>5 DEF IInv, RecordInv, NoTwins
  <2> QED
    BY <2>2, <2>4, <2>6
<1> QED
  BY Invariance, <1>1, PTL

(***************************************************************************)
(* With a relayer that never leaves a reply empty, a Deploy called on a    *)
(* deployed Safe submits nothing.                                          *)
(***************************************************************************)
THEOREM DeploymentIsChecked ==
  ASSUME "empty" \notin Bodies
  PROVE  Spec => []DeployNeedsNoSafe
<1>1. IInv => DeployNeedsNoSafe
  BY DEF IInv, CallInv, Checked, DeployNeedsNoSafe
<1> QED
  BY Invariance, <1>1, PTL

-----------------------------------------------------------------------------
(* The refinement of RelayedOperations *)

LEMMA ToldStep ==
  ASSUME NEW c \in Callers,
         \A d \in Callers \ {c} : result'[d] = result[d] /\ verdict'[d] = verdict[d]
  PROVE  told' = [told EXCEPT ![c] = ToldBy(result'[c], verdict'[c])]
<1>1. told' = [d \in Callers |-> ToldBy(result'[d], verdict'[d])]
  BY DEF told, ToldBy, TurnedDown
<1>2. ASSUME NEW d \in Callers, d # c
      PROVE  ToldBy(result'[d], verdict'[d]) = ToldBy(result[d], verdict[d])
  BY <1>2
<1> QED
  BY <1>1, <1>2 DEF told

LEMMA ToldStays ==
  ASSUME UNCHANGED <<result, verdict>>
  PROVE  UNCHANGED told
BY DEF told, ToldBy, TurnedDown

LEMMA SubmissionsStay ==
  ASSUME UNCHANGED sent, \A d \in Callers : Frozen(d)
  PROVE  UNCHANGED submissions
<1>1. submissions' = [d \in Callers |-> IF sent'[d] > 0 THEN {Own(d)'} ELSE {}]
  BY DEF submissions, Own
<1>2. ASSUME NEW d \in Callers
      PROVE  (IF sent'[d] > 0 THEN {Own(d)'} ELSE {}) = (IF sent[d] > 0 THEN {Own(d)} ELSE {})
  BY DEF Frozen
<1> QED
  BY <1>1, <1>2 DEF submissions, Own

LEMMA EffectsStay ==
  ASSUME UNCHANGED records
  PROVE  UNCHANGED effects
BY DEF effects, Mined, MinedAs, IDs

\* A request takes effect when a transaction made of it is mined.
LEMMA InEffect ==
  /\ DOMAIN effects = {records[id].request : id \in Mined}
  /\ \A id \in IDs : records[id].state = "MINED" => records[id].request \in DOMAIN effects
<1>1. DOMAIN effects = {records[id].request : id \in Mined}
  BY DEF effects
<1> QED
  BY <1>1 DEF Mined

\* A call returns before it has an ID: it is turned down, or lost track of.
LEMMA ReturnImplements ==
  ASSUME IInv, NEW c \in Callers, NEW answer, Return(c, answer), UNCHANGED chain,
         pc[c] \in {"idle", "deployed", "nonce", "sign", "submit"},
         \/ answer \in TurnedDown /\ ~(sent[c] > 0)
         \/ answer \in {"submission failed", "declined", "not decoded"}
  PROVE  Promise!Next
<1>1. /\ result[c] = "pending" /\ verdict[c] = "none"
  BY DEF IInv, CallInv, Stage
<1>2. /\ result'[c] = answer /\ verdict'[c] = "none"
      /\ \A d \in Callers \ {c} : result'[d] = result[d] /\ verdict'[d] = verdict[d]
  BY <1>1, ReturnEffect DEF IInv
<1>3. told[c] = "pending"
  BY <1>1 DEF told, ToldBy, TurnedDown
<1>4. UNCHANGED effects /\ UNCHANGED submissions
  <2>1. \A d \in Callers : Frozen(d)
    BY ReturnEffect, OwnStays DEF IInv, Frozen
  <2>2. UNCHANGED sent
    BY DEF Return
  <2> QED
    BY <2>1, <2>2, EffectsStay, SubmissionsStay DEF chain
<1>5. CASE answer \in TurnedDown /\ ~(sent[c] > 0)
  <2>1. ToldBy(result'[c], verdict'[c]) = "rejected"
    BY <1>2, <1>5 DEF ToldBy
  <2>2. submissions[c] = {}
    BY <1>5, SubmissionsAre
  <2>3. told' = [told EXCEPT ![c] = "rejected"]
    BY <1>2, <2>1, ToldStep
  <2>4. Promise!Reject(c)
    BY <1>3, <1>4, <2>2, <2>3 DEF Promise!Reject, Promise!Tell
  <2> QED
    BY <2>4 DEF Promise!Next
<1>6. CASE answer \in {"submission failed", "declined", "not decoded"}
  <2>1. ToldBy(result'[c], verdict'[c]) = "unknown"
    BY <1>2, <1>6 DEF ToldBy, TurnedDown
  <2>2. Promise!LoseTrack(c)
    BY <1>2, <1>3, <1>4, <2>1, ToldStep DEF Promise!LoseTrack, Promise!Tell
  <2> QED
    BY <2>2 DEF Promise!Next
<1> QED
  BY <1>5, <1>6

LEMMA WaitImplements ==
  ASSUME IInv, NEW c \in Callers, NEW v \in Verdicts, Verdict(c, v), pc[c] = "wait", v # "none",
         v = "mined" => StateOf(handle[c]) = "MINED"
  PROVE  Promise!Next
<1>1. result[c] = "submitted" /\ verdict[c] = "none"
  BY DEF IInv, CallInv, Stage
<1>2. /\ result'[c] = "submitted" /\ verdict'[c] = v
      /\ \A d \in Callers \ {c} : result'[d] = result[d] /\ verdict'[d] = verdict[d]
  BY <1>1 DEF IInv, CallTypes, Verdict, Set
<1>3. told[c] = "submitted"
  BY <1>1 DEF told, ToldBy, TurnedDown
<1>4. UNCHANGED effects /\ UNCHANGED submissions
  <2>1. UNCHANGED <<sent, operation, batch, nonce, wire, records>>
    BY DEF Verdict, chain
  <2>2. \A d \in Callers : Frozen(d)
    BY <2>1, OwnStays DEF Frozen
  <2> QED
    BY <2>1, <2>2, EffectsStay, SubmissionsStay
<1>5. told' = [told EXCEPT ![c] = ToldBy("submitted", v)]
  BY <1>2, ToldStep
<1>6. CASE v = "mined"
  <2>1. handle[c] \in IDs /\ records[handle[c]].state = "MINED"
    BY <1>6 DEF StateOf
  <2>2. handle[c] # NoID
    BY <2>1, Elements DEF IInv, ChainTypes, IDs, NoID
  <2>3. OwnedBy(c, handle[c])
    BY <2>2 DEF IInv, CallInv, Answered
  <2>4. Own(c) \in submissions[c] /\ Own(c) \in DOMAIN effects
    BY <2>1, <2>3, SubmissionsAre, InEffect DEF OwnedBy
  <2>5. submissions[c] \cap DOMAIN effects # {}
    BY <2>4
  <2>6. ToldBy("submitted", v) = "mined"
    BY <1>6 DEF ToldBy
  <2>7. Promise!Confirm(c)
    BY <1>3, <1>4, <1>5, <2>5, <2>6 DEF Promise!Confirm, Promise!Tell
  <2> QED
    BY <2>7 DEF Promise!Next
<1>7. CASE v = "failed"
  <2>1. ToldBy("submitted", v) = "failed"
    BY <1>7 DEF ToldBy
  <2>2. Promise!Fail(c)
    BY <1>3, <1>4, <1>5, <2>1 DEF Promise!Fail, Promise!Tell
  <2> QED
    BY <2>2 DEF Promise!Next
<1>8. CASE v = "timeout"
  <2>1. ToldBy("submitted", v) = "unknown"
    BY <1>8 DEF ToldBy, TurnedDown
  <2>2. Promise!LoseTrack(c)
    BY <1>3, <1>4, <1>5, <2>1 DEF Promise!LoseTrack, Promise!Tell
  <2> QED
    BY <2>2 DEF Promise!Next
<1> QED
  BY <1>6, <1>7, <1>8 DEF Verdicts

LEMMA SubmittedImplements ==
  ASSUME IInv, NEW c \in Callers, Submitted(c)
  PROVE  Promise!Next
<1>1. pc[c] = "submit" /\ UNCHANGED chain
  BY DEF Submitted
<1>2. CASE Return(c, "not decoded")
  BY <1>1, <1>2, ReturnImplements
<1>3. CASE ~Return(c, "not decoded")
  <2>1. result' = Set(result, c, "submitted") /\ UNCHANGED verdict
    BY <1>3 DEF Submitted
  <2>2. result[c] = "pending" /\ verdict[c] = "none"
    BY <1>1 DEF IInv, CallInv, Stage
  <2>3. /\ result'[c] = "submitted" /\ verdict'[c] = "none"
        /\ \A d \in Callers \ {c} : result'[d] = result[d] /\ verdict'[d] = verdict[d]
    BY <2>1, <2>2 DEF IInv, CallTypes, Set
  <2>4. told[c] = "pending"
    BY <2>2 DEF told, ToldBy, TurnedDown
  <2>5. ToldBy(result'[c], verdict'[c]) = "submitted"
    BY <2>3 DEF ToldBy, TurnedDown
  <2>6. UNCHANGED effects /\ UNCHANGED submissions
    <3>1. UNCHANGED <<sent, operation, batch, nonce, wire>>
      BY <1>3 DEF Submitted
    <3>2. \A d \in Callers : Frozen(d)
      BY <3>1, OwnStays DEF Frozen
    <3> QED
      BY <1>1, <3>1, <3>2, EffectsStay, SubmissionsStay DEF chain
  <2>7. submissions[c] # {}
    <3>1. reply[c].kind = "accepted"
      BY DEF Submitted
    <3>2. sent[c] > 0
      BY <3>1 DEF IInv, CallInv, Answered, OwnedBy
    <3> QED
      BY <3>2, SubmissionsAre
  <2>8. told' = [told EXCEPT ![c] = "submitted"]
    BY <2>3, <2>5, ToldStep
  <2>9. Promise!Accept(c)
    BY <2>4, <2>6, <2>7, <2>8 DEF Promise!Accept, Promise!Tell
  <2> QED
    BY <2>9 DEF Promise!Next
<1> QED
  BY <1>2, <1>3

\* The first attempt submits the request; what has been sent before is sent again.
LEMMA SendImplements ==
  ASSUME IInv, NEW c \in Callers, SendAttempt(c)
  PROVE  Promise!Next \/ UNCHANGED Promise!vars
<1>1. /\ pc[c] = "submit" /\ UNCHANGED <<operation, batch, nonce, result, verdict, records>>
      /\ sent[c] \in Nat /\ sent'[c] = sent[c] + 1
      /\ \A d \in Callers \ {c} : sent'[d] = sent[d]
  BY RetriesAssumption DEF SendAttempt, IInv, CallTypes, Set, chain
<1>2. \A d \in Callers : Own(d)' = Own(d)
  BY <1>1, OwnStays
<1>3. UNCHANGED effects /\ UNCHANGED told
  BY <1>1, EffectsStay, ToldStays
<1>4. submissions' = [d \in Callers |-> IF sent'[d] > 0 THEN {Own(d)} ELSE {}]
  BY <1>2 DEF submissions, Own
<1>5. CASE sent[c] > 0
  <2>1. \A d \in Callers : sent'[d] > 0 <=> sent[d] > 0
    BY <1>1, <1>5
  <2>2. UNCHANGED submissions
    BY <1>4, <2>1 DEF submissions, Own
  <2> QED
    BY <1>3, <2>2 DEF Promise!vars
<1>6. CASE ~(sent[c] > 0)
  <2>1. submissions[c] = {} /\ submissions'[c] = {Own(c)}
    <3>1. sent'[c] > 0
      BY <1>1
    <3>2. submissions'[c] = {Own(c)}
      BY <1>4, <3>1
    <3> QED
      BY <1>6, <3>2, SubmissionsAre
  <2>2. \A d \in Callers \ {c} : submissions'[d] = submissions[d]
    BY <1>1, <1>4, SubmissionsAre
  <2>3. submissions' = [submissions EXCEPT ![c] = {Own(c)}]
    <3>1. submissions' = [d \in Callers |-> IF d = c THEN {Own(c)} ELSE submissions[d]]
      BY <1>4, <2>1, <2>2
    <3> QED
      BY <3>1 DEF submissions
  <2>4. told[c] = "pending"
    <3>1. result[c] = "pending" /\ verdict[c] = "none"
      BY <1>1 DEF IInv, CallInv, Stage
    <3> QED
      BY <3>1 DEF told, ToldBy, TurnedDown
  <2>5. Promise!Submit(c)
    BY <1>3, <2>1, <2>3, <2>4 DEF Promise!Submit
  <2> QED
    BY <2>5 DEF Promise!Next
<1> QED
  BY <1>5, <1>6

LEMMA CallImplements ==
  ASSUME IInv, NEW c \in Callers, CallNext(c)
  PROVE  Promise!Next \/ UNCHANGED Promise!vars
<1>q. pc[c] \in {"idle", "deployed", "nonce", "sign"} => ~(sent[c] > 0)
  BY DEF IInv, CallInv, Stage
<1>f. \A d \in Callers : Frozen(d)
  BY CallInvStep DEF IInv
<1>s. ASSUME UNCHANGED <<sent, result, verdict, chain>> PROVE UNCHANGED Promise!vars
  BY <1>f, <1>s, SubmissionsStay, EffectsStay, ToldStays DEF chain, Promise!vars
<1>g. ASSUME NEW target, Goto(c, target), UNCHANGED chain PROVE UNCHANGED Promise!vars
  BY <1>g, <1>s DEF Goto
<1>t. {"refused", "request failed", "safe not deployed", "safe deployed", "invalid nonce",
       "signing failed"} \subseteq TurnedDown
  BY DEF TurnedDown
<1>1. CASE Refuse(c)
  BY <1>1, <1>q, <1>t, ReturnImplements DEF Refuse
<1>2. ASSUME NEW op \in Operations, Call(c, op) PROVE UNCHANGED Promise!vars
  BY <1>2, <1>s DEF Call
<1>3. CASE RequestFails(c)
  BY <1>3, <1>q, <1>t, ReturnImplements DEF RequestFails
<1>4. CASE GetDeployed(c)
  <2>1. pc[c] = "deployed" /\ UNCHANGED chain
        /\ \E target, answer : Goto(c, target) \/ (answer \in TurnedDown /\ Return(c, answer))
    BY <1>4, <1>t DEF GetDeployed, Deployment
  <2> QED
    BY <2>1, <1>g, <1>q, ReturnImplements
<1>5. CASE GetNonce(c)
  <2>1. pc[c] = "nonce" /\ UNCHANGED chain
        /\ \E target, answer : Goto(c, target) \/ (answer \in TurnedDown /\ Return(c, answer))
    BY <1>5, <1>t DEF GetNonce
  <2> QED
    BY <2>1, <1>g, <1>q, ReturnImplements
<1>6. CASE Sign(c)
  BY <1>6, <1>g DEF Sign
<1>7. CASE SignFails(c)
  BY <1>7, <1>q, <1>t, ReturnImplements DEF SignFails
<1>8. CASE SendAttempt(c)
  BY <1>8, SendImplements
<1>9. CASE GiveUp(c)
  BY <1>9, ReturnImplements DEF GiveUp
<1>10. CASE Declined(c)
  BY <1>10, ReturnImplements DEF Declined
<1>11. CASE Submitted(c)
  BY <1>11, SubmittedImplements
<1>12. CASE WaitEnds(c)
  BY <1>12, WaitImplements DEF WaitEnds, Verdicts
<1>13. CASE WaitGivesUp(c)
  BY <1>13, WaitImplements DEF WaitGivesUp, Verdicts
<1> QED
  BY <1>1, <1>2, <1>3, <1>4, <1>5, <1>6, <1>7, <1>8, <1>9, <1>10, <1>11, <1>12, <1>13
     DEF CallNext, CallStep

\* What has been mined does not change unless Mine changes it.
LEMMA MinedStays ==
  ASSUME IDs \subseteq IDs',
         \A i \in IDs : /\ records'[i].request = records[i].request
                        /\ records'[i].state = "MINED" <=> records[i].state = "MINED",
         \A i \in IDs' \ IDs : records'[i].state # "MINED"
  PROVE  UNCHANGED effects
<1>1. Mined' = Mined /\ \A i \in Mined : records'[i].request = records[i].request
  BY DEF Mined
<1>2. \A request : MinedAs(request)' = MinedAs(request)
  BY <1>1 DEF MinedAs
<1>3. {records'[i].request : i \in Mined'} = {records[i].request : i \in Mined}
  BY <1>1
<1> QED
  BY <1>2, <1>3 DEF effects

LEMMA ArriveImplements ==
  ASSUME IInv, NEW c \in Callers, NEW request \in wire[c], Arrive(c, request)
  PROVE  UNCHANGED Promise!vars
<1>1. operation[c] \in OperationKinds /\ request.nonce = nonce[c]
  BY DEF IInv, CallInv, Sending
<1>2. /\ IDs \subseteq IDs'
      /\ \A i \in IDs : records'[i] = records[i]
      /\ \A i \in IDs' \ IDs : records'[i].state = "NEW"
  BY <1>1, ArriveRecords DEF IInv
<1>3. UNCHANGED effects
  BY <1>2, MinedStays
<1>4. UNCHANGED told
  BY ToldStays DEF Arrive
<1>5. UNCHANGED submissions
  BY DEF Arrive, submissions, SignedAs, SignedNonce, NoNonce
<1> QED
  BY <1>3, <1>4, <1>5 DEF Promise!vars

LEMMA DropImplements ==
  ASSUME IInv, NEW id \in IDs, Drop(id)
  PROVE  UNCHANGED Promise!vars
<1>1. Marked(id, "FAILED") /\ records[id].state = "NEW"
  BY DropTypes DEF IInv, Drop
<1>2. UNCHANGED effects
  BY <1>1, MinedStays DEF Marked, IDs
<1>3. UNCHANGED told
  BY ToldStays DEF Drop, calls
<1>4. UNCHANGED submissions
  BY DEF Drop, calls, submissions, SignedAs, SignedNonce, NoNonce
<1> QED
  BY <1>2, <1>3, <1>4 DEF Promise!vars

LEMMA MineImplements ==
  ASSUME IInv, NEW id \in IDs, Mine(id)
  PROVE  Promise!Next
<1>0. PICK request : request = records[id].request
  OBVIOUS
<1>1. Marked(id, "MINED")
  BY MineTypes DEF IInv
<1>2. PICK c \in Callers : SignedBy(c, id)
  BY DEF IInv, RecordInv, Signed
<1>3. request \in submissions[c]
  BY <1>0, <1>2, SubmissionsAre DEF SignedBy
<1>4. MinedAs(request) = {}
  BY <1>0, MineKeepsInvariant DEF MinedAs, Mined, Twins
<1>5. request \notin DOMAIN effects
  BY <1>4, InEffect DEF MinedAs
<1>6. /\ Mined' = Mined \cup {id}
      /\ \A i \in Mined' : records'[i].request = records[i].request
  BY <1>1 DEF Marked, Mined, IDs
<1>7. MinedAs(request)' = {id}
  <2>1. id \in Mined' /\ records'[id].request = request
    BY <1>0, <1>1, <1>6 DEF Marked
  <2>2. \A i \in Mined' : records'[i].request = request => i = id
    BY <1>4, <1>6 DEF MinedAs
  <2> QED
    BY <2>1, <2>2 DEF MinedAs
<1>8. \A q : q # request => MinedAs(q)' = MinedAs(q)
  BY <1>0, <1>6 DEF MinedAs
<1>9. {records'[i].request : i \in Mined'} = DOMAIN effects \cup {request}
  BY <1>0, <1>6, InEffect
<1>10. \A q \in DOMAIN effects : effects[q] = Cardinality(MinedAs(q))
  BY DEF effects
<1>11. effects' = [q \in DOMAIN effects \cup {request} |-> IF q = request THEN 1 ELSE effects[q]]
  <2>1. effects' = [q \in DOMAIN effects \cup {request} |-> Cardinality(MinedAs(q)')]
    BY <1>9 DEF effects
  <2>2. ASSUME NEW q \in DOMAIN effects \cup {request}
        PROVE  Cardinality(MinedAs(q)') = IF q = request THEN 1 ELSE effects[q]
    <3>1. CASE q = request
      BY <1>7, <3>1, FS_Singleton
    <3>2. CASE q # request
      BY <1>8, <1>10, <2>2, <3>2
    <3> QED
      BY <3>1, <3>2
  <2> QED
    BY <2>1, <2>2
<1>12. UNCHANGED told /\ UNCHANGED submissions
  BY ToldStays DEF Mine, calls, submissions, SignedAs, SignedNonce, NoNonce
<1>13. Promise!TakeEffect(c)
  BY <1>3, <1>5, <1>11, <1>12 DEF Promise!TakeEffect
<1> QED
  BY <1>13 DEF Promise!Next

LEMMA InitImplements == Init => Promise!Init
<1> SUFFICES ASSUME Init PROVE Promise!Init
  OBVIOUS
<1>1. submissions = [c \in Callers |-> {}]
  BY DEF Init, submissions
<1>2. effects = [request \in {} |-> 0]
  <2>1. {records[id].request : id \in Mined} = {}
    BY DEF Init, Mined, IDs
  <2> QED
    BY <2>1 DEF effects
<1>3. told = [c \in Callers |-> "pending"]
  BY DEF Init, told, ToldBy, TurnedDown
<1> QED
  BY <1>1, <1>2, <1>3 DEF Promise!Init

LEMMA StepImplements == IInv /\ [Next]_vars => [Promise!Next]_(Promise!vars)
<1> SUFFICES ASSUME IInv, [Next]_vars PROVE Promise!Next \/ UNCHANGED Promise!vars
  OBVIOUS
<1>1. ASSUME NEW c \in Callers, CallNext(c) PROVE Promise!Next \/ UNCHANGED Promise!vars
  BY <1>1, CallImplements
<1>2. ASSUME NEW c \in Callers, NEW request \in wire[c], Arrive(c, request)
      PROVE  UNCHANGED Promise!vars
  BY <1>2, ArriveImplements
<1>3. ASSUME NEW id \in IDs, Mine(id) PROVE Promise!Next
  BY <1>3, MineImplements
<1>4. ASSUME NEW id \in IDs, Drop(id) PROVE UNCHANGED Promise!vars
  BY <1>4, DropImplements
<1>5. CASE UNCHANGED vars
  <2>1. \A d \in Callers : Frozen(d)
    BY <1>5, OwnStays DEF Frozen, vars, calls
  <2>2. UNCHANGED <<sent, result, verdict, records>>
    BY <1>5 DEF vars, calls, chain
  <2> QED
    BY <2>1, <2>2, SubmissionsStay, EffectsStay, ToldStays DEF Promise!vars
<1> QED
  BY <1>1, <1>2, <1>3, <1>4, <1>5 DEF Next, RelayerNext

(***************************************************************************)
(* Execute, Deploy and Wait keep the promises of RelayedOperations for     *)
(* every number of goroutines, batch and retry, however attempts are lost, *)
(* delayed or duplicated, and whichever identical requests the relayer     *)
(* takes for one: a request takes effect at most once, a call that was     *)
(* turned down has submitted none, and "mined" is said only of a request   *)
(* that has taken effect.                                                  *)
(***************************************************************************)
THEOREM OperationsAreImplemented == Spec => ImplementsOperations
<1> QED
  BY InitImplements, Invariance, StepImplements, PTL DEF Spec, ImplementsOperations, Promise!Spec

-----------------------------------------------------------------------------
(* The program that uses the client: its invariant *)

Dep(r) == <<r, "deploy">>
Exe(r) == <<r, "execute">>

RunPlaces == {"start", "deploy", "deploying", "execute", "executing", "confirmed"} \cup Ended

ProgramTypes ==
  /\ run \in 1..Runs
  /\ place \in [1..Runs -> RunPlaces]
  /\ saw \in [1..Runs -> BOOLEAN]

\* A transaction Wait has seen mined is made of what the caller has submitted; a call
\* that has returned has an answer.
Waited(c) ==
  /\ verdict[c] = "mined" => OwnedBy(c, handle[c]) /\ records[handle[c]].state = "MINED"
  /\ pc[c] = "returned" => result[c] # "pending"

\* The place of a run tells which of its calls have begun.
Begun(r) ==
  /\ r > run => place[r] = "start"
  /\ place[r] \in {"start", "deploy"} => pc[Dep(r)] = "idle"
  /\ place[r] \in {"start", "deploy", "deploying", "execute"} => pc[Exe(r)] = "idle"
  /\ operation[Dep(r)] \in {"none", "SAFE-CREATE"}
  /\ operation[Exe(r)] \in {"none", "SAFE"}

Concluded(r) ==
  /\ place[r] \in {"confirmed", "done"} => verdict[Exe(r)] = "mined"
  /\ place[r] = "panicked" /\ sent[Exe(r)] > 0 => result[Exe(r)] # "pending"

\* The Safe is there when a run comes to execute.
Ready(r) ==
  /\ place[r] \in {"execute", "executing"} => deployed
  /\ "empty" \notin Bodies => result[Exe(r)] # "safe not deployed"

Deploys(r) == place[r] = "deploy" \/ pc[Dep(r)] # "idle"

DeploymentMined ==
  \E id \in IDs : records[id].request.operation = "SAFE-CREATE" /\ records[id].state = "MINED"

\* A run that deploys has seen no Safe, so that none was reported mined before; if
\* there is one now, a deployment was mined in between.
Looked(r) ==
  "empty" \notin Bodies /\ Deploys(r) =>
    /\ ~saw[r]
    /\ \A s \in 1..(r - 1) : verdict[Dep(s)] # "mined"
    /\ deployed => DeploymentMined

Late(r) ==
  "empty" \notin Bodies /\ result[Dep(r)] = "safe deployed" =>
    \E s \in 1..(r - 1) : MinedFor(Dep(s)) # {}

\* A run that executes after another was confirmed is given a later nonce, so that the
\* two requests differ.
Fresh(r) ==
  \A s \in 1..(r - 1) :
    verdict[Exe(s)] = "mined" /\ nonce[Exe(r)] # NoNonce => nonce[Exe(s)] < nonce[Exe(r)]

RunInv(r) == Begun(r) /\ Concluded(r) /\ Ready(r) /\ Looked(r) /\ Late(r) /\ Fresh(r)

ProgramInv ==
  ProgramTypes /\ (\A c \in Callers : Waited(c)) /\ (\A r \in 1..Runs : RunInv(r))

-----------------------------------------------------------------------------
(* The callers are the deployments and the executions of the runs *)

LEMMA RunsAreNatural == \A r \in 1..Runs : r \in Nat /\ r >= 1
  BY RunsAssumption

LEMMA CallersOfRuns ==
  /\ \A r \in 1..Runs : Dep(r) \in Callers /\ Exe(r) \in Callers
  /\ \A r, s \in 1..Runs : Dep(r) # Exe(s)
  /\ \A r, s \in 1..Runs : Dep(r) = Dep(s) => r = s
  /\ \A r, s \in 1..Runs : Exe(r) = Exe(s) => r = s
  /\ \A c \in Callers : \E r \in 1..Runs : c = Dep(r) \/ c = Exe(r)
BY CallersAssumption DEF Dep, Exe

LEMMA RunBefore ==
  ASSUME NEW r \in 1..Runs, NEW s \in 1..Runs, s <= r, s # r
  PROVE  s \in 1..(r - 1)
BY RunsAssumption

LEMMA EarlierRuns ==
  ASSUME NEW r \in 1..Runs, NEW s \in 1..(r - 1)
  PROVE  s \in 1..Runs /\ s < r
BY RunsAssumption

-----------------------------------------------------------------------------
(* What a step of a call does, as far as the program is concerned *)

CallEffect(c) ==
  /\ UNCHANGED chain
  /\ operation' = operation
  /\ \A d \in Callers \ {c} : Kept(d)
  /\ pc'[c] # "idle"
  /\ pc'[c] = "returned" => result'[c] # "pending"
  /\ verdict'[c] = "mined" => StateOf(handle'[c]) = "MINED"
  /\ result'[c] = "safe not deployed" => operation[c] = "SAFE" /\ ("empty" \notin Bodies => ~deployed)
  /\ result'[c] = "safe deployed" => deployed
  /\ \/ nonce'[c] = nonce[c]
     \/ operation[c] \in Wallets /\ walletNonce[operation[c]] <= nonce'[c]

LEMMA GotoSeen ==
  ASSUME CallTypes, NEW c \in Callers, NEW there, Goto(c, there), UNCHANGED chain,
         \A d \in Callers \ {c} : nonce'[d] = nonce[d],
         \/ nonce'[c] = nonce[c]
         \/ operation[c] \in Wallets /\ walletNonce[operation[c]] <= nonce'[c],
         there \notin {"idle", "returned"}, result[c] = "pending", verdict[c] = "none"
  PROVE  CallEffect(c)
BY GotoEffect DEF CallEffect, Kept

LEMMA ReturnSeen ==
  ASSUME CallTypes, NEW c \in Callers, NEW answer, Return(c, answer), UNCHANGED chain,
         verdict[c] = "none", answer # "pending",
         answer = "safe not deployed" => operation[c] = "SAFE" /\ ("empty" \notin Bodies => ~deployed),
         answer = "safe deployed" => deployed
  PROVE  CallEffect(c)
BY ReturnEffect DEF CallEffect, Kept

LEMMA VerdictSeen ==
  ASSUME CallTypes, NEW c \in Callers, NEW v, Verdict(c, v), result[c] = "submitted",
         v = "mined" => StateOf(handle[c]) = "MINED"
  PROVE  CallEffect(c)
<1>1. /\ pc'[c] = "returned" /\ \A d \in Callers \ {c} : pc'[d] = pc[d]
      /\ verdict'[c] = v /\ \A d \in Callers \ {c} : verdict'[d] = verdict[d]
      /\ UNCHANGED <<operation, batch, nonce, sent, wire, reply, result, handle, deployedAtCall>>
      /\ UNCHANGED chain
  BY DEF Verdict, Set, CallTypes
<1>2. StateOf(handle'[c]) = StateOf(handle[c])
  BY <1>1
<1> QED
  BY <1>1, <1>2 DEF CallEffect, Kept

LEMMA StepSeen ==
  ASSUME CallTypes, ChainTypes, NEW c \in Callers, CallInv(c), CallStep(c)
  PROVE  CallEffect(c) /\ pc[c] # "idle"
<1>0. /\ Stage(c)
      /\ pc[c] \in {"deployed", "nonce", "sign", "submit"} =>
           result[c] = "pending" /\ verdict[c] = "none"
      /\ pc[c] = "wait" => result[c] = "submitted" /\ verdict[c] = "none"
  BY DEF CallInv, Stage
<1>1. CASE RequestFails(c)
  BY <1>0, <1>1, ReturnSeen DEF RequestFails
<1>2. CASE GetDeployed(c)
  <2>1. PICK body \in Bodies \ {"garbled"} : Deployment(c, Reported(body))
    BY <1>2 DEF GetDeployed
  <2>2. pc[c] = "deployed" /\ UNCHANGED chain
    BY <1>2 DEF GetDeployed
  <2>3. /\ Reported(body) => deployed
        /\ "empty" \notin Bodies /\ ~Reported(body) => ~deployed
    BY <2>1, BodiesAssumption DEF Reported, BodyKinds
  <2>4. CASE operation[c] = "SAFE" /\ Reported(body) /\ Goto(c, "nonce") /\ UNCHANGED nonce
    BY <1>0, <2>2, <2>4, GotoSeen
  <2>5. CASE operation[c] = "SAFE" /\ ~Reported(body) /\ Return(c, "safe not deployed")
    BY <1>0, <2>2, <2>3, <2>5, ReturnSeen
  <2>6. CASE operation[c] = "SAFE-CREATE" /\ Reported(body) /\ Return(c, "safe deployed")
    BY <1>0, <2>2, <2>3, <2>6, ReturnSeen
  <2>7. CASE operation[c] = "SAFE-CREATE" /\ ~Reported(body) /\ Goto(c, "sign") /\ UNCHANGED nonce
    BY <1>0, <2>2, <2>7, GotoSeen
  <2> QED
    BY <2>1, <2>2, <2>4, <2>5, <2>6, <2>7 DEF Deployment
<1>3. CASE GetNonce(c)
  <2>1. PICK n \in NextNonces(operation[c]), body \in Bodies \ {"garbled"} :
          IF body = "json"
          THEN Goto(c, "sign") /\ nonce' = Set(nonce, c, n)
          ELSE \/ operation[c] = "SAFE" /\ Return(c, "invalid nonce")
               \/ operation[c] = "PROXY" /\ Goto(c, "sign") /\ UNCHANGED nonce
    BY <1>3 DEF GetNonce
  <2>2. pc[c] = "nonce" /\ UNCHANGED chain
    BY <1>3 DEF GetNonce
  <2>3. CASE Goto(c, "sign") /\ nonce' = Set(nonce, c, n)
    <3>1. nonce'[c] = n /\ \A d \in Callers \ {c} : nonce'[d] = nonce[d]
      BY <2>3 DEF CallTypes, Set
    <3>2. operation[c] \in Wallets /\ walletNonce[operation[c]] <= n
      BY <1>0, <2>1, <2>2, NoncesAreNatural DEF Stage
    <3> QED
      BY <1>0, <2>2, <2>3, <3>1, <3>2, GotoSeen
  <2>4. CASE Return(c, "invalid nonce")
    BY <1>0, <2>2, <2>4, ReturnSeen
  <2>5. CASE Goto(c, "sign") /\ UNCHANGED nonce
    BY <1>0, <2>2, <2>5, GotoSeen
  <2> QED
    BY <2>1, <2>2, <2>3, <2>4, <2>5
<1>4. CASE Sign(c)
  BY <1>0, <1>4, GotoSeen DEF Sign
<1>5. CASE SignFails(c)
  BY <1>0, <1>5, ReturnSeen DEF SignFails
<1>6. CASE SendAttempt(c)
  <2>1. /\ pc[c] = "submit" /\ UNCHANGED chain
        /\ UNCHANGED <<pc, operation, batch, nonce, result, handle, verdict, deployedAtCall>>
        /\ \A d \in Callers \ {c} :
             sent'[d] = sent[d] /\ wire'[d] = wire[d] /\ reply'[d] = reply[d]
    BY <1>6 DEF SendAttempt, CallTypes, Set
  <2> QED
    BY <1>0, <2>1 DEF CallEffect, Kept
<1>7. CASE GiveUp(c)
  BY <1>0, <1>7, ReturnSeen DEF GiveUp
<1>8. CASE Declined(c)
  BY <1>0, <1>8, ReturnSeen DEF Declined
<1>9. CASE Submitted(c)
  <2>1. pc[c] = "submit" /\ UNCHANGED chain
    BY <1>9 DEF Submitted
  <2>2. CASE Return(c, "not decoded")
    BY <1>0, <2>1, <2>2, ReturnSeen
  <2>3. CASE ~Return(c, "not decoded")
    <3>1. PICK body \in Bodies :
            /\ pc' = Set(pc, c, "wait")
            /\ result' = Set(result, c, "submitted")
            /\ handle' = Set(handle, c, IF body = "json" THEN reply[c].id ELSE NoID)
            /\ UNCHANGED <<operation, batch, nonce, sent, wire, reply, verdict, deployedAtCall>>
      BY <1>9, <2>3 DEF Submitted
    <3>2. /\ pc'[c] = "wait" /\ result'[c] = "submitted"
          /\ \A d \in Callers \ {c} :
               pc'[d] = pc[d] /\ result'[d] = result[d] /\ handle'[d] = handle[d]
      BY <3>1 DEF CallTypes, Set
    <3> QED
      BY <1>0, <2>1, <3>1, <3>2 DEF CallEffect, Kept
  <2> QED
    BY <2>2, <2>3
<1>10. CASE WaitEnds(c)
  BY <1>0, <1>10, VerdictSeen DEF WaitEnds
<1>11. CASE WaitGivesUp(c)
  BY <1>0, <1>11, VerdictSeen DEF WaitGivesUp
<1> QED
  BY <1>1, <1>2, <1>3, <1>4, <1>5, <1>6, <1>7, <1>8, <1>9, <1>10, <1>11 DEF CallStep

LEMMA KeptIsFrozen ==
  ASSUME NEW d, Kept(d)
  PROVE  Frozen(d)
BY OwnStays DEF Kept, Frozen

LEMMA CallSeen ==
  ASSUME CallTypes, NEW c \in Callers, CallInv(c), NEW op \in OperationKinds, Call(c, op)
  PROVE  /\ UNCHANGED chain
         /\ \A d \in Callers \ {c} : Kept(d)
         /\ \A d \in Callers : Frozen(d)
         /\ nonce' = nonce /\ verdict' = verdict
         /\ pc[c] = "idle" /\ pc'[c] \notin {"idle", "returned"}
         /\ operation'[c] = op /\ result'[c] = "pending" /\ verdict'[c] = "none"
<1>1. pc[c] = "idle" /\ result[c] = "pending" /\ verdict[c] = "none" /\ ~(sent[c] > 0)
  BY DEF Call, CallInv, Stage
<1>2. /\ pc'[c] = IF op = "PROXY" THEN "nonce" ELSE "deployed"
      /\ operation'[c] = op
      /\ \A d \in Callers \ {c} :
           /\ pc'[d] = pc[d] /\ operation'[d] = operation[d] /\ batch'[d] = batch[d]
           /\ deployedAtCall'[d] = deployedAtCall[d]
      /\ UNCHANGED <<nonce, sent, wire, reply, result, handle, verdict>>
      /\ UNCHANGED chain
  BY DEF Call, CallTypes, Set
<1>3. \A d \in Callers \ {c} : Kept(d)
  BY <1>2 DEF Kept
<1>4. \A d \in Callers : Frozen(d)
  BY <1>1, <1>3, KeptIsFrozen DEF Frozen
<1> QED
  BY <1>1, <1>2, <1>3, <1>4

\* What the relayer and the chain leave alone.
RelayerEffect ==
  /\ UNCHANGED <<pc, operation, batch, nonce, sent, result, handle, verdict, deployedAtCall>>
  /\ deployed => deployed'
  /\ deployed' /\ ~deployed => DeploymentMined'
  /\ IDs \subseteq IDs'
  /\ \A id \in IDs : /\ records'[id].request = records[id].request
                     /\ records[id].state = "MINED" => records'[id].state = "MINED"

LEMMA RelayerSeen ==
  ASSUME IInv, RelayerNext
  PROVE  RelayerEffect
<1>0. CallTypes /\ ChainTypes /\ (\A d \in Callers : CallInv(d))
  BY DEF IInv
<1>1. ASSUME NEW c \in Callers, NEW request \in wire[c], Arrive(c, request)
      PROVE  RelayerEffect
  <2>1. request.nonce = nonce[c] /\ operation[c] \in OperationKinds
    BY <1>0 DEF CallInv, Sending
  <2>2. IDs \subseteq IDs' /\ \A i \in IDs : records'[i] = records[i]
    BY <1>0, <1>1, <2>1, ArriveRecords
  <2> QED
    BY <1>1, <2>2 DEF Arrive, RelayerEffect
<1>2. ASSUME NEW id \in IDs, Mine(id)
      PROVE  RelayerEffect
  <2>1. Marked(id, "MINED")
    BY <1>0, <1>2, MineTypes
  <2>2. /\ records[id].state = "NEW"
        /\ records[id].request.operation = "SAFE-CREATE" => ~deployed /\ deployed'
        /\ records[id].request.operation # "SAFE-CREATE" => deployed' = deployed
    BY <1>0, <1>2, MineEffect
  <2>3. UNCHANGED calls /\ IDs' = IDs
    BY <1>2, <2>1 DEF Mine, Marked, IDs
  <2> QED
    BY <2>1, <2>2, <2>3 DEF Marked, calls, RelayerEffect, DeploymentMined
<1>3. ASSUME NEW id \in IDs, Drop(id)
      PROVE  RelayerEffect
  <2>1. Marked(id, "FAILED")
    BY <1>0, <1>3, DropTypes
  <2>2. UNCHANGED calls /\ UNCHANGED deployed /\ IDs' = IDs /\ records[id].state = "NEW"
    BY <1>3, <2>1 DEF Drop, Marked, IDs
  <2> QED
    BY <2>1, <2>2 DEF Marked, calls, RelayerEffect
<1> QED
  BY <1>1, <1>2, <1>3 DEF RelayerNext

-----------------------------------------------------------------------------
(* The program keeps the invariant *)

LEMMA InitProgram == ProgramInit => ProgramInv
<1> SUFFICES ASSUME ProgramInit PROVE ProgramInv
  OBVIOUS
<1>1. ProgramTypes
  BY RunsAssumption DEF ProgramInit, ProgramTypes, RunPlaces
<1>2. \A c \in Callers : Waited(c)
  BY DEF ProgramInit, Init, Waited
<1>3. ASSUME NEW r \in 1..Runs PROVE RunInv(r)
  <2>1. /\ Dep(r) \in Callers /\ Exe(r) \in Callers
        /\ \A c \in Callers : /\ pc[c] = "idle" /\ operation[c] = "none" /\ sent[c] = 0
                              /\ result[c] = "pending" /\ nonce[c] = NoNonce
        /\ place[r] = "start"
    BY <1>1, CallersOfRuns DEF ProgramInit, Init
  <2> QED
    BY <2>1 DEF RunInv, Begun, Concluded, Ready, Looked, Late, Deploys, Fresh
<1> QED
  BY <1>1, <1>2, <1>3 DEF ProgramInv

\* A deployment a run has seen mined is one, and an execution has used up its nonce.
LEMMA MinedDeploys ==
  ASSUME IInv, ProgramInv, NEW r \in 1..Runs, verdict[Dep(r)] = "mined"
  PROVE  deployed
<1> DEFINE c == Dep(r)
           id == handle[c]
<1>1. c \in Callers
  BY CallersOfRuns
<1>2. id \in IDs /\ sent[c] > 0 /\ records[id].request = Own(c) /\ records[id].state = "MINED"
  BY <1>1 DEF ProgramInv, Waited, OwnedBy
<1>3. records[id].request.operation = operation[c]
  BY <1>1, <1>2, OwnFields
<1>4. operation[c] = "SAFE-CREATE"
  <2>1. operation[c] \in OperationKinds
    BY <1>1, <1>2 DEF IInv, CallInv, Sending
  <2>2. operation[c] \in {"none", "SAFE-CREATE"}
    BY DEF ProgramInv, RunInv, Begun
  <2> QED
    BY <2>1, <2>2 DEF OperationKinds
<1> QED
  BY <1>2, <1>3, <1>4 DEF IInv, RecordInv, Settled

LEMMA MinedExecutes ==
  ASSUME IInv, ProgramInv, NEW r \in 1..Runs, verdict[Exe(r)] = "mined"
  PROVE  /\ sent[Exe(r)] > 0 /\ nonce[Exe(r)] \in Nat
         /\ Own(Exe(r)).nonce = nonce[Exe(r)]
         /\ nonce[Exe(r)] < walletNonce["SAFE"]
<1> DEFINE c == Exe(r)
           id == handle[c]
<1>1. c \in Callers
  BY CallersOfRuns
<1>2. id \in IDs /\ sent[c] > 0 /\ records[id].request = Own(c) /\ records[id].state = "MINED"
  BY <1>1 DEF ProgramInv, Waited, OwnedBy
<1>3. operation[c] = "SAFE"
  <2>1. operation[c] \in OperationKinds
    BY <1>1, <1>2 DEF IInv, CallInv, Sending
  <2>2. operation[c] \in {"none", "SAFE"}
    BY DEF ProgramInv, RunInv, Begun
  <2> QED
    BY <2>1, <2>2 DEF OperationKinds
<1>4. nonce[c] # NoNonce /\ nonce[c] \in Nat
  BY <1>1, <1>2, <1>3 DEF IInv, CallInv, Prepared, CallTypes
<1>5. Own(c).operation = "SAFE" /\ Own(c).nonce = nonce[c]
  BY <1>1, <1>3, <1>4, OwnFields DEF SignedNonce
<1>6. nonce[c] < walletNonce["SAFE"]
  BY <1>2, <1>5 DEF IInv, RecordInv, Settled
<1> QED
  BY <1>2, <1>4, <1>5, <1>6

\* A step that leaves the calls and the chain alone leaves what is said of them alone.
LEMMA NothingCalled ==
  ASSUME ProgramInv, UNCHANGED vars
  PROVE  /\ \A c \in Callers : Waited(c)'
         /\ UNCHANGED <<pc, operation, nonce, sent, result, verdict, deployed>>
         /\ DeploymentMined' = DeploymentMined
         /\ \A c \in Callers : MinedFor(c) \subseteq MinedFor(c)'
<1>1. UNCHANGED <<pc, operation, batch, nonce, sent, result, handle, verdict, deployed, records>>
  BY DEF vars, calls, chain
<1>2. IDs' = IDs
  BY <1>1 DEF IDs
<1>3. \A c \in Callers : Waited(c)'
  BY <1>1, <1>2, OwnStays DEF ProgramInv, Waited, OwnedBy
<1>4. DeploymentMined' = DeploymentMined
  BY <1>1, <1>2 DEF DeploymentMined
<1>5. UNCHANGED submissions
  BY <1>1 DEF submissions, SignedAs, SignedNonce, NoNonce
<1>6. \A c : MinedFor(c)' = MinedFor(c)
  BY <1>1, <1>2, <1>5 DEF MinedFor, Mined
<1> QED
  BY <1>1, <1>3, <1>4, <1>6

\* What is mined for earlier runs stays so.
LEMMA LateStays ==
  ASSUME NEW r \in 1..Runs, Late(r), result'[Dep(r)] = result[Dep(r)],
         \A c \in Callers : MinedFor(c) \subseteq MinedFor(c)'
  PROVE  Late(r)'
<1> SUFFICES ASSUME "empty" \notin Bodies, result'[Dep(r)] = "safe deployed"
             PROVE  \E s \in 1..(r - 1) : MinedFor(Dep(s))' # {}
  BY DEF Late, Dep
<1>1. PICK s \in 1..(r - 1) : MinedFor(Dep(s)) # {}
  BY DEF Late
<1>2. Dep(s) \in Callers
  BY EarlierRuns, CallersOfRuns
<1>3. MinedFor(Dep(s))' # {}
  BY <1>1, <1>2
<1> QED
  BY <1>3

\* The run goes to another place, its calls begun or not as that place requires.
LEMMA RunMoves ==
  ASSUME ProgramInv, NEW there \in {"execute", "confirmed", "panicked", "killed", "done"},
         To(there), UNCHANGED <<saw, vars>>,
         there = "execute" => deployed /\ pc[Exe(run)] = "idle",
         there \in {"confirmed", "done"} => verdict[Exe(run)] = "mined",
         there = "panicked" /\ sent[Exe(run)] > 0 => result[Exe(run)] # "pending"
  PROVE  ProgramInv'
<1>0. ProgramTypes /\ (\A r \in 1..Runs : RunInv(r))
  BY DEF ProgramInv
<1>1. /\ run' = run /\ saw' = saw
      /\ place' \in [1..Runs -> RunPlaces]
      /\ place'[run] = there
      /\ \A r \in 1..Runs : r # run => place'[r] = place[r]
  BY <1>0 DEF To, ProgramTypes, RunPlaces, Ended
<1>2. ProgramTypes'
  BY <1>0, <1>1 DEF ProgramTypes
<1>3. /\ \A c \in Callers : Waited(c)'
      /\ UNCHANGED <<pc, operation, nonce, sent, result, verdict, deployed>>
      /\ DeploymentMined' = DeploymentMined
      /\ \A c \in Callers : MinedFor(c) \subseteq MinedFor(c)'
  BY NothingCalled
<1>4. ASSUME NEW r \in 1..Runs PROVE RunInv(r)'
  <2>0. Begun(r) /\ Concluded(r) /\ Ready(r) /\ Looked(r) /\ Late(r) /\ Fresh(r)
    BY <1>0 DEF RunInv
  <2>1. Begun(r)'
    BY <1>0, <1>1, <1>3, <2>0, RunsAreNatural DEF Begun, Dep, Exe, ProgramTypes
  <2>2. Concluded(r)'
    BY <1>1, <1>3, <2>0 DEF Concluded, Exe
  <2>3. Ready(r)'
    BY <1>1, <1>3, <2>0 DEF Ready, Exe
  <2>4. Looked(r)'
    BY <1>1, <1>3, <2>0 DEF Looked, Deploys, Dep
  <2>5. Late(r)' /\ Fresh(r)'
    BY <1>3, <2>0, LateStays DEF Fresh, Exe
  <2> QED
    BY <2>1, <2>2, <2>3, <2>4, <2>5 DEF RunInv
<1> QED
  BY <1>2, <1>3, <1>4 DEF ProgramInv

LEMMA LookKeeps ==
  ASSUME IInv, ProgramInv, Look
  PROVE  ProgramInv'
<1>0. ProgramTypes /\ (\A r \in 1..Runs : RunInv(r))
  BY DEF ProgramInv
<1>1. PICK body \in Bodies \ {"garbled"} :
        /\ saw' = [saw EXCEPT ![run] = Reported(body)]
        /\ To(IF Reported(body) THEN "execute" ELSE "deploy")
  BY DEF Look
<1>2. /\ place[run] = "start" /\ run \in 1..Runs /\ run' = run
      /\ Reported(body) \in BOOLEAN
      /\ place' \in [1..Runs -> RunPlaces] /\ saw' \in [1..Runs -> BOOLEAN]
      /\ place'[run] = IF Reported(body) THEN "execute" ELSE "deploy"
      /\ saw'[run] = Reported(body)
      /\ \A r \in 1..Runs : r # run => place'[r] = place[r] /\ saw'[r] = saw[r]
  BY <1>0, <1>1 DEF Look, At, To, ProgramTypes, RunPlaces, Reported
<1>3. ProgramTypes'
  BY <1>2 DEF ProgramTypes
<1>4. /\ \A c \in Callers : Waited(c)'
      /\ UNCHANGED <<pc, operation, nonce, sent, result, verdict, deployed>>
      /\ DeploymentMined' = DeploymentMined
      /\ \A c \in Callers : MinedFor(c) \subseteq MinedFor(c)'
  BY NothingCalled DEF Look
<1>5. /\ Reported(body) => deployed
      /\ "empty" \notin Bodies /\ ~Reported(body) => ~deployed
  BY BodiesAssumption DEF Reported, BodyKinds
<1>6. ASSUME NEW r \in 1..Runs PROVE RunInv(r)'
  <2>0. Begun(r) /\ Concluded(r) /\ Ready(r) /\ Looked(r) /\ Late(r) /\ Fresh(r)
    BY <1>0 DEF RunInv
  <2>1. Begun(r)'
    BY <1>2, <1>4, <2>0, RunsAreNatural DEF Begun, Dep, Exe
  <2>2. Concluded(r)'
    BY <1>2, <1>4, <2>0 DEF Concluded, Exe
  <2>3. Ready(r)'
    BY <1>2, <1>4, <1>5, <2>0 DEF Ready, Exe
  <2>4. Looked(r)'
    <3>1. CASE r = run /\ ~Reported(body) /\ "empty" \notin Bodies
      <4>1. \A s \in 1..(r - 1) : verdict[Dep(s)] # "mined"
        BY <1>5, <3>1, EarlierRuns, MinedDeploys
      <4> QED
        BY <1>2, <1>4, <1>5, <3>1, <4>1 DEF Looked, Dep
    <3>2. CASE r = run /\ Reported(body)
      BY <1>2, <1>4, <2>0, <3>2 DEF Looked, Deploys, Begun, Dep
    <3>3. CASE r # run
      BY <1>2, <1>4, <2>0, <3>3 DEF Looked, Deploys, Dep
    <3> QED
      BY <3>1, <3>2, <3>3 DEF Looked
  <2>5. Late(r)' /\ Fresh(r)'
    BY <1>4, <2>0, LateStays DEF Fresh, Exe
  <2> QED
    BY <2>1, <2>2, <2>3, <2>4, <2>5 DEF RunInv
<1> QED
  BY <1>3, <1>4, <1>6 DEF ProgramInv

LEMMA StartAgainKeeps ==
  ASSUME ProgramInv, StartAgain
  PROVE  ProgramInv'
<1>0. ProgramTypes /\ (\A r \in 1..Runs : RunInv(r))
  BY DEF ProgramInv
<1>1. /\ run' = run + 1 /\ run \in 1..Runs /\ run' \in 1..Runs
      /\ place' = place /\ saw' = saw
  BY <1>0, RunsAssumption DEF StartAgain, ProgramTypes
<1>2. ProgramTypes'
  BY <1>0, <1>1 DEF ProgramTypes
<1>3. /\ \A c \in Callers : Waited(c)'
      /\ UNCHANGED <<pc, operation, nonce, sent, result, verdict, deployed>>
      /\ DeploymentMined' = DeploymentMined
      /\ \A c \in Callers : MinedFor(c) \subseteq MinedFor(c)'
  BY NothingCalled DEF StartAgain
<1>4. ASSUME NEW r \in 1..Runs PROVE RunInv(r)'
  <2>0. Begun(r) /\ Concluded(r) /\ Ready(r) /\ Looked(r) /\ Late(r) /\ Fresh(r)
    BY <1>0 DEF RunInv
  <2>1. Begun(r)'
    BY <1>1, <1>3, <2>0, RunsAreNatural DEF Begun, Dep, Exe
  <2>2. Concluded(r)' /\ Ready(r)'
    BY <1>1, <1>3, <2>0 DEF Concluded, Ready, Exe
  <2>3. Looked(r)'
    BY <1>1, <1>3, <2>0 DEF Looked, Deploys, Dep
  <2>4. Late(r)' /\ Fresh(r)'
    BY <1>3, <2>0, LateStays DEF Fresh, Exe
  <2> QED
    BY <2>1, <2>2, <2>3, <2>4 DEF RunInv
<1> QED
  BY <1>2, <1>3, <1>4 DEF ProgramInv

LEMMA CallEndsKeeps ==
  ASSUME IInv, ProgramInv, CallEnds
  PROVE  ProgramInv'
<1>0. run \in 1..Runs /\ Dep(run) \in Callers /\ Exe(run) \in Callers
  BY CallersOfRuns DEF ProgramInv, ProgramTypes
<1>1. Begun(run) /\ Deployer = Dep(run) /\ Executor = Exe(run)
  BY <1>0 DEF ProgramInv, RunInv, Deployer, Executor, Dep, Exe
<1>2. CASE At("deploying")
  <2>1. To(IF verdict[Dep(run)] = "mined" THEN "execute" ELSE "panicked")
        /\ UNCHANGED <<saw, vars>>
    BY <1>1, <1>2 DEF CallEnds, At
  <2>2. pc[Exe(run)] = "idle" /\ ~(sent[Exe(run)] > 0)
    BY <1>0, <1>1, <1>2 DEF Begun, At, IInv, CallInv, Stage
  <2>3. CASE verdict[Dep(run)] = "mined"
    BY <1>0, <2>1, <2>2, <2>3, MinedDeploys, RunMoves
  <2>4. CASE verdict[Dep(run)] # "mined"
    BY <2>1, <2>2, <2>4, RunMoves
  <2> QED
    BY <2>3, <2>4
<1>3. CASE At("executing")
  <2>1. To(IF verdict[Exe(run)] = "mined" THEN "confirmed" ELSE "panicked")
        /\ UNCHANGED <<saw, vars>> /\ pc[Exe(run)] = "returned"
    BY <1>1, <1>3 DEF CallEnds, At
  <2>2. result[Exe(run)] # "pending"
    BY <1>0, <2>1 DEF ProgramInv, Waited
  <2>3. CASE verdict[Exe(run)] = "mined"
    BY <2>1, <2>2, <2>3, RunMoves
  <2>4. CASE verdict[Exe(run)] # "mined"
    BY <2>1, <2>2, <2>4, RunMoves
  <2> QED
    BY <2>3, <2>4
<1> QED
  BY <1>2, <1>3 DEF CallEnds

\* The steps of a run that neither call nor look.
LEMMA MovesKeep ==
  ASSUME IInv, ProgramInv, StartFails \/ ListTransactions \/ Kill
  PROVE  ProgramInv'
<1>0. run \in 1..Runs /\ Exe(run) \in Callers /\ Begun(run) /\ Concluded(run)
  BY CallersOfRuns DEF ProgramInv, ProgramTypes, RunInv
<1>1. CASE StartFails
  <2>1. ~(sent[Exe(run)] > 0)
    BY <1>0, <1>1 DEF StartFails, At, Begun, IInv, CallInv, Stage
  <2> QED
    BY <1>1, <2>1, RunMoves DEF StartFails
<1>2. CASE ListTransactions
  <2>1. verdict[Exe(run)] = "mined"
    BY <1>0, <1>2 DEF ListTransactions, At, Concluded
  <2>2. result[Exe(run)] # "pending"
    BY <1>0, <2>1 DEF IInv, CallInv, Stage
  <2> QED
    BY <1>2, <2>1, <2>2, RunMoves DEF ListTransactions
<1>3. CASE Kill
  BY <1>3, RunMoves DEF Kill
<1> QED
  BY <1>1, <1>2, <1>3

\* What is said of calls that do not move.
LEMMA KeptSeen ==
  ASSUME UNCHANGED chain, \A d \in Callers : Frozen(d)
  PROVE  /\ deployed' = deployed /\ records' = records /\ IDs' = IDs
         /\ DeploymentMined' = DeploymentMined
         /\ \A c \in Callers : MinedFor(c) \subseteq MinedFor(c)'
         /\ \A c \in Callers : Waited(c) /\ Kept(c) => Waited(c)'
<1>1. deployed' = deployed /\ records' = records /\ IDs' = IDs
  BY DEF chain, IDs
<1>2. DeploymentMined' = DeploymentMined
  BY <1>1 DEF DeploymentMined
<1>3. ASSUME NEW c \in Callers PROVE MinedFor(c) \subseteq MinedFor(c)'
  <2>1. submissions[c] \subseteq submissions'[c]
    <3>1. submissions'[c] = IF sent'[c] > 0 THEN {Own(c)'} ELSE {}
      BY DEF submissions, Own
    <3> QED
      BY <3>1, SubmissionsAre DEF Frozen
  <2>2. Mined' = Mined
    BY <1>1 DEF Mined
  <2> QED
    BY <1>1, <2>1, <2>2 DEF MinedFor
<1>4. \A c \in Callers : Waited(c) /\ Kept(c) => Waited(c)'
  BY <1>1, OwnStays DEF Waited, OwnedBy, Kept
<1> QED
  BY <1>1, <1>2, <1>3, <1>4

LEMMA CallDeployKeeps ==
  ASSUME IInv, ProgramInv, CallDeploy
  PROVE  ProgramInv'
<1>0. ProgramTypes /\ (\A r \in 1..Runs : RunInv(r)) /\ (\A c \in Callers : Waited(c))
  BY DEF ProgramInv
<1>1. PICK c \in Callers : run \in 1..Runs /\ c = Dep(run) /\ c = Deployer
  BY <1>0, CallersOfRuns DEF ProgramTypes, Deployer, Dep
<1>2. Call(c, "SAFE-CREATE") /\ CallTypes /\ CallInv(c) /\ "SAFE-CREATE" \in OperationKinds
  BY <1>1 DEF CallDeploy, IInv, OperationKinds
<1>3. /\ UNCHANGED chain
      /\ \A d \in Callers \ {c} : Kept(d)
      /\ \A d \in Callers : Frozen(d)
      /\ nonce' = nonce /\ verdict' = verdict
      /\ pc[c] = "idle" /\ pc'[c] \notin {"idle", "returned"}
      /\ operation'[c] = "SAFE-CREATE" /\ result'[c] = "pending" /\ verdict'[c] = "none"
  BY <1>1, <1>2, CallSeen
<1>4. /\ run' = run /\ saw' = saw /\ place[run] = "deploy"
      /\ place' \in [1..Runs -> RunPlaces]
      /\ place'[run] = "deploying"
      /\ \A r \in 1..Runs : r # run => place'[r] = place[r]
  BY <1>0 DEF CallDeploy, At, To, ProgramTypes, RunPlaces
<1>5. ProgramTypes'
  BY <1>0, <1>4 DEF ProgramTypes
<1>6. /\ deployed' = deployed
      /\ DeploymentMined' = DeploymentMined
      /\ \A d \in Callers : MinedFor(d) \subseteq MinedFor(d)'
      /\ \A d \in Callers : Waited(d) /\ Kept(d) => Waited(d)'
  BY <1>3, KeptSeen
<1>7. \A d \in Callers : Waited(d)'
  <2>1. Waited(c)'
    BY <1>3 DEF Waited
  <2> QED
    BY <1>0, <1>3, <1>6, <2>1
<1>8. ASSUME NEW r \in 1..Runs PROVE RunInv(r)'
  <2>0. Begun(r) /\ Concluded(r) /\ Ready(r) /\ Looked(r) /\ Late(r) /\ Fresh(r)
    BY <1>0 DEF RunInv
  <2>1. Kept(Exe(r)) /\ Exe(r) \in Callers /\ Dep(r) \in Callers
    BY <1>1, <1>3, CallersOfRuns
  <2>2. r # run => Kept(Dep(r))
    BY <1>1, <1>3, <2>1, CallersOfRuns
  <2>3. Begun(r)'
    BY <1>1, <1>3, <1>4, <2>0, <2>1, <2>2 DEF Begun, Kept
  <2>4. Concluded(r)' /\ Ready(r)'
    BY <1>4, <1>6, <2>0, <2>1 DEF Concluded, Ready, Kept
  <2>5. Looked(r)'
    <3>1. Deploys(r)' => Deploys(r)
      BY <1>4, <2>2 DEF Deploys, Kept
    <3>2. \A s \in 1..(r - 1) : verdict[Dep(s)] # "mined" => verdict'[Dep(s)] # "mined"
      <4> TAKE s \in 1..(r - 1)
      <4>1. s \in 1..Runs /\ Dep(s) \in Callers
        BY EarlierRuns, CallersOfRuns
      <4> QED
        BY <1>3, <4>1 DEF Kept
    <3> QED
      BY <1>4, <1>6, <2>0, <3>1, <3>2 DEF Looked, Dep
  <2>6. Late(r)'
    <3>1. CASE r = run
      BY <1>1, <1>3, <3>1 DEF Late, Dep
    <3>2. CASE r # run
      BY <1>6, <2>0, <2>2, <3>2, LateStays DEF Kept
    <3> QED
      BY <3>1, <3>2
  <2>7. Fresh(r)'
    BY <1>3, <2>0 DEF Fresh, Exe
  <2> QED
    BY <2>3, <2>4, <2>5, <2>6, <2>7 DEF RunInv
<1> QED
  BY <1>5, <1>7, <1>8 DEF ProgramInv

LEMMA CallExecuteKeeps ==
  ASSUME IInv, ProgramInv, CallExecute
  PROVE  ProgramInv'
<1>0. ProgramTypes /\ (\A r \in 1..Runs : RunInv(r)) /\ (\A c \in Callers : Waited(c))
  BY DEF ProgramInv
<1>1. PICK c \in Callers : run \in 1..Runs /\ c = Exe(run) /\ c = Executor
  BY <1>0, CallersOfRuns DEF ProgramTypes, Executor, Exe
<1>2. Call(c, "SAFE") /\ CallTypes /\ CallInv(c) /\ "SAFE" \in OperationKinds
  BY <1>1 DEF CallExecute, IInv, OperationKinds
<1>3. /\ UNCHANGED chain
      /\ \A d \in Callers \ {c} : Kept(d)
      /\ \A d \in Callers : Frozen(d)
      /\ nonce' = nonce /\ verdict' = verdict
      /\ pc[c] = "idle" /\ pc'[c] \notin {"idle", "returned"}
      /\ operation'[c] = "SAFE" /\ result'[c] = "pending" /\ verdict'[c] = "none"
  BY <1>1, <1>2, CallSeen
<1>4. /\ run' = run /\ saw' = saw /\ place[run] = "execute"
      /\ place' \in [1..Runs -> RunPlaces]
      /\ place'[run] = "executing"
      /\ \A r \in 1..Runs : r # run => place'[r] = place[r]
  BY <1>0 DEF CallExecute, At, To, ProgramTypes, RunPlaces
<1>5. ProgramTypes'
  BY <1>0, <1>4 DEF ProgramTypes
<1>6. /\ deployed' = deployed
      /\ DeploymentMined' = DeploymentMined
      /\ \A d \in Callers : MinedFor(d) \subseteq MinedFor(d)'
      /\ \A d \in Callers : Waited(d) /\ Kept(d) => Waited(d)'
  BY <1>3, KeptSeen
<1>7. \A d \in Callers : Waited(d)'
  <2>1. Waited(c)'
    BY <1>3 DEF Waited
  <2> QED
    BY <1>0, <1>3, <1>6, <2>1
<1>8. ASSUME NEW r \in 1..Runs PROVE RunInv(r)'
  <2>0. Begun(r) /\ Concluded(r) /\ Ready(r) /\ Looked(r) /\ Late(r) /\ Fresh(r)
    BY <1>0 DEF RunInv
  <2>1. Kept(Dep(r)) /\ Exe(r) \in Callers /\ Dep(r) \in Callers
    BY <1>1, <1>3, CallersOfRuns
  <2>2. r # run => Kept(Exe(r))
    BY <1>1, <1>3, <2>1, CallersOfRuns
  <2>3. Begun(r)'
    BY <1>1, <1>3, <1>4, <2>0, <2>1, <2>2 DEF Begun, Kept
  <2>4. Concluded(r)'
    BY <1>4, <2>0, <2>2 DEF Concluded, Kept
  <2>5. Ready(r)'
    BY <1>1, <1>3, <1>4, <1>6, <2>0, <2>2 DEF Ready, Kept
  <2>6. Looked(r)'
    <3>1. Deploys(r)' => Deploys(r)
      BY <1>4, <2>1 DEF Deploys, Kept
    <3>2. \A s \in 1..(r - 1) : verdict'[Dep(s)] = verdict[Dep(s)]
      <4> TAKE s \in 1..(r - 1)
      <4>1. s \in 1..Runs
        BY EarlierRuns
      <4>2. Dep(s) \in Callers \ {c}
        BY <1>1, <4>1, CallersOfRuns
      <4> QED
        BY <1>3, <4>2 DEF Kept
    <3> QED
      BY <1>4, <1>6, <2>0, <3>1, <3>2 DEF Looked, Dep
  <2>7. Late(r)' /\ Fresh(r)'
    BY <1>3, <1>6, <2>0, <2>1, LateStays DEF Kept, Fresh, Exe
  <2> QED
    BY <2>3, <2>4, <2>5, <2>6, <2>7 DEF RunInv
<1> QED
  BY <1>5, <1>7, <1>8 DEF ProgramInv

\* A deployment that has been mined is that of a run that has submitted one.
LEMMA MinedBefore ==
  ASSUME IInv, ProgramInv, NEW id \in IDs, records[id].request.operation = "SAFE-CREATE",
         records[id].state = "MINED"
  PROVE  \E s \in 1..Runs : s <= run /\ sent[Dep(s)] > 0 /\ id \in MinedFor(Dep(s))
<1>1. PICK c \in Callers : sent[c] > 0 /\ records[id].request = Own(c)
  BY DEF IInv, RecordInv, Signed, SignedBy
<1>2. operation[c] = "SAFE-CREATE"
  BY <1>1, OwnFields
<1>3. PICK s \in 1..Runs : c = Dep(s) \/ c = Exe(s)
  BY CallersOfRuns
<1>4. Begun(s) /\ run \in 1..Runs
  BY DEF ProgramInv, ProgramTypes, RunInv
<1>5. c = Dep(s)
  BY <1>2, <1>3, <1>4 DEF Begun
<1>6. s <= run
  <2>1. pc[c] # "idle"
    BY <1>1 DEF IInv, CallInv, Stage
  <2>2. ~(s > run)
    BY <1>4, <1>5, <2>1 DEF Begun
  <2> QED
    BY <1>4, <2>2, RunsAreNatural
<1>7. id \in MinedFor(Dep(s))
  BY <1>1, <1>5, SubmissionsAre DEF MinedFor, Mined
<1> QED
  BY <1>1, <1>5, <1>6, <1>7

LEMMA CallGoesOnKeeps ==
  ASSUME IInv, IInv', ProgramInv, CallGoesOn
  PROVE  ProgramInv'
<1>0. ProgramTypes /\ (\A r \in 1..Runs : RunInv(r)) /\ (\A c \in Callers : Waited(c))
  BY DEF ProgramInv
<1>1. PICK c \in Callers :
        /\ CallStep(c) /\ run \in 1..Runs
        /\ \/ c = Dep(run) /\ place[run] = "deploying"
           \/ c = Exe(run) /\ place[run] = "executing"
  BY <1>0, CallersOfRuns
     DEF CallGoesOn, At, ProgramTypes, Deployer, Executor, Dep, Exe
<1>2. CallEffect(c) /\ pc[c] # "idle" /\ \A d \in Callers : Frozen(d)
  BY <1>1, StepSeen, CallInvStep DEF IInv, CallNext
<1>3. run' = run /\ place' = place /\ saw' = saw /\ ProgramTypes'
  BY <1>0 DEF CallGoesOn, program, ProgramTypes
<1>4. /\ UNCHANGED chain
      /\ deployed' = deployed /\ records' = records /\ IDs' = IDs
      /\ DeploymentMined' = DeploymentMined
      /\ \A d \in Callers : MinedFor(d) \subseteq MinedFor(d)'
      /\ \A d \in Callers : Waited(d) /\ Kept(d) => Waited(d)'
  BY <1>2, KeptSeen DEF CallEffect
<1>5. \A d \in Callers : Waited(d)'
  <2>1. Waited(c)'
    <3>1. verdict'[c] = "mined" => handle'[c] \in IDs' /\ records'[handle'[c]].state = "MINED"
      BY <1>2, <1>4 DEF CallEffect, StateOf
    <3>2. handle'[c] \in IDs' => OwnedBy(c, handle[c])'
      BY <1>4, Elements DEF IInv, ChainTypes, CallInv, Answered, IDs, NoID
    <3> QED
      BY <1>2, <1>4, <3>1, <3>2 DEF Waited, CallEffect
  <2> QED
    BY <1>0, <1>2, <1>4, <2>1 DEF CallEffect
<1>6. ASSUME NEW r \in 1..Runs PROVE RunInv(r)'
  <2>0. Begun(r) /\ Concluded(r) /\ Ready(r) /\ Looked(r) /\ Late(r) /\ Fresh(r)
    BY <1>0 DEF RunInv
  <2>1. Dep(r) \in Callers /\ Exe(r) \in Callers
        /\ (Dep(r) = c \/ Kept(Dep(r))) /\ (Exe(r) = c \/ Kept(Exe(r)))
    BY <1>2, CallersOfRuns DEF CallEffect
  <2>2. /\ Dep(r) = c => r = run /\ place[r] = "deploying"
        /\ Exe(r) = c => r = run /\ place[r] = "executing"
    BY <1>1, CallersOfRuns
  <2>3. Begun(r)'
    BY <1>2, <1>3, <2>0, <2>1, <2>2 DEF Begun, Kept, CallEffect
  <2>4. Concluded(r)'
    BY <1>3, <2>0, <2>1, <2>2 DEF Concluded, Kept
  <2>5. Ready(r)'
    <3>1. place[r] \in {"execute", "executing"} => deployed
      BY <2>0 DEF Ready
    <3>2. "empty" \notin Bodies => result'[Exe(r)] # "safe not deployed"
      BY <1>2, <2>0, <2>1, <2>2 DEF Ready, Kept, CallEffect
    <3> QED
      BY <1>3, <1>4, <3>1, <3>2 DEF Ready, Exe
  <2>6. Looked(r)'
    <3>1. Deploys(r)' => Deploys(r) /\ r <= run
      <4>1. Deploys(r)' => Deploys(r)
        BY <1>2, <1>3, <2>1 DEF Deploys, Kept, Dep
      <4>2. Deploys(r) => ~(r > run)
        BY <2>0 DEF Deploys, Begun
      <4> QED
        BY <1>1, <4>1, <4>2, RunsAreNatural
    <3>2. ASSUME NEW s \in 1..(r - 1), r <= run PROVE verdict'[Dep(s)] = verdict[Dep(s)]
      <4>1. s \in 1..Runs /\ s # run
        BY <1>1, <3>2, EarlierRuns, RunsAreNatural
      <4>2. Dep(s) \in Callers \ {c}
        BY <1>1, <4>1, CallersOfRuns
      <4> QED
        BY <1>2, <4>2 DEF CallEffect, Kept
    <3> QED
      BY <1>3, <1>4, <2>0, <3>1, <3>2 DEF Looked, Dep
  <2>7. Late(r)'
    <3>1. CASE Dep(r) # c
      BY <1>4, <2>0, <2>1, <3>1, LateStays DEF Kept
    <3>2. CASE Dep(r) = c
      <4> SUFFICES ASSUME "empty" \notin Bodies, result'[c] = "safe deployed"
                   PROVE  \E s \in 1..(r - 1) : MinedFor(Dep(s))' # {}
        BY <3>2 DEF Late, Dep
      <4>1. DeploymentMined
        BY <1>2, <2>0, <3>2 DEF Looked, Deploys, CallEffect
      <4>2. PICK id \in IDs : records[id].request.operation = "SAFE-CREATE" /\ records[id].state = "MINED"
        BY <4>1 DEF DeploymentMined
      <4>3. PICK s \in 1..Runs : s <= run /\ sent[Dep(s)] > 0 /\ id \in MinedFor(Dep(s))
        BY <4>2, MinedBefore
      <4>4. Dep(s) # c
        <5>1. Dep(s) \in Callers /\ sent'[Dep(s)] > 0
          BY <1>2, <4>3, CallersOfRuns DEF Frozen
        <5>2. ~(sent'[c] > 0)
          BY DEF IInv, CallInv, Sending, TurnedDown
        <5> QED
          BY <5>1, <5>2
      <4>5. s \in 1..(r - 1)
        <5>1. s # r /\ s <= r
          BY <2>2, <3>2, <4>3, <4>4
        <5> QED
          BY <5>1, RunBefore
      <4>6. MinedFor(Dep(s))' # {}
        BY <1>4, <4>3, CallersOfRuns
      <4> QED
        BY <4>5, <4>6
    <3> QED
      BY <3>1, <3>2
  <2>8. Fresh(r)'
    <3> SUFFICES ASSUME NEW s \in 1..(r - 1), verdict'[Exe(s)] = "mined", nonce'[Exe(r)] # NoNonce
                 PROVE  nonce'[Exe(s)] < nonce'[Exe(r)]
      BY DEF Fresh, Exe
    <3>1. s \in 1..Runs /\ s < r /\ Exe(s) \in Callers
      BY EarlierRuns, CallersOfRuns
    <3>2. r <= run
      <4>1. ASSUME r > run PROVE FALSE
        <5>1. pc[Exe(r)] = "idle" /\ Exe(r) # c
          BY <1>2, <2>0, <2>2, <4>1 DEF Begun
        <5>2. nonce'[Exe(r)] = nonce[Exe(r)] /\ nonce[Exe(r)] = NoNonce
          BY <2>1, <5>1 DEF Kept, IInv, CallInv, Stage
        <5> QED
          BY <5>2
      <4> QED
        BY <1>1, <4>1, RunsAreNatural
    <3>3. Exe(s) # c
      <4>1. s # run
        BY <1>1, <3>1, <3>2, RunsAreNatural
      <4> QED
        BY <1>1, <3>1, <4>1, CallersOfRuns
    <3>4. verdict[Exe(s)] = "mined" /\ nonce'[Exe(s)] = nonce[Exe(s)]
      BY <1>2, <3>1, <3>3 DEF CallEffect, Kept
    <3>5. CASE nonce'[Exe(r)] = nonce[Exe(r)]
      BY <2>0, <3>4, <3>5 DEF Fresh
    <3>6. CASE nonce'[Exe(r)] # nonce[Exe(r)]
      <4>1. Exe(r) = c
        BY <2>1, <3>6 DEF Kept
      <4>2. walletNonce["SAFE"] <= nonce'[Exe(r)]
        BY <1>2, <2>0, <3>6, <4>1 DEF CallEffect, Begun, Wallets
      <4>3. nonce[Exe(s)] \in Nat /\ nonce[Exe(s)] < walletNonce["SAFE"]
        BY <3>1, <3>4, MinedExecutes
      <4>4. walletNonce["SAFE"] \in Nat /\ nonce'[Exe(r)] \in Nat
        BY <2>1 DEF IInv, ChainTypes, CallTypes, Wallets
      <4> QED
        BY <3>4, <4>2, <4>3, <4>4
    <3> QED
      BY <3>5, <3>6
  <2> QED
    BY <2>3, <2>4, <2>5, <2>6, <2>7, <2>8 DEF RunInv
<1> QED
  BY <1>3, <1>5, <1>6 DEF ProgramInv

LEMMA RelayerKeeps ==
  ASSUME IInv, ProgramInv, Relayer
  PROVE  ProgramInv'
<1>0. ProgramTypes /\ (\A r \in 1..Runs : RunInv(r)) /\ (\A c \in Callers : Waited(c))
  BY DEF ProgramInv
<1>1. RelayerEffect
  BY RelayerSeen DEF Relayer
<1>2. /\ run' = run /\ place' = place /\ saw' = saw
      /\ pc' = pc /\ operation' = operation /\ nonce' = nonce /\ sent' = sent
      /\ result' = result /\ handle' = handle /\ verdict' = verdict
      /\ submissions' = submissions /\ \A c \in Callers : Own(c)' = Own(c)
  <2>1. UNCHANGED <<pc, operation, batch, nonce, sent, result, handle, verdict>>
    BY <1>1 DEF RelayerEffect
  <2>2. submissions' = submissions
    BY <2>1 DEF submissions, SignedAs, SignedNonce, NoNonce
  <2> QED
    BY <2>1, <2>2, OwnStays DEF Relayer, program
<1>3. ProgramTypes'
  BY <1>0, <1>2 DEF ProgramTypes
<1>4. \A c \in Callers : Waited(c)'
  BY <1>0, <1>1, <1>2 DEF Waited, OwnedBy, RelayerEffect
<1>5. DeploymentMined => DeploymentMined'
  BY <1>1 DEF DeploymentMined, RelayerEffect
<1>6. \A c \in Callers : MinedFor(c) \subseteq MinedFor(c)'
  BY <1>1, <1>2 DEF MinedFor, Mined, RelayerEffect
<1>7. ASSUME NEW r \in 1..Runs PROVE RunInv(r)'
  <2>0. Begun(r) /\ Concluded(r) /\ Ready(r) /\ Looked(r) /\ Late(r) /\ Fresh(r)
    BY <1>0 DEF RunInv
  <2>1. Begun(r)' /\ Concluded(r)'
    BY <1>2, <2>0 DEF Begun, Concluded, Dep, Exe
  <2>2. Ready(r)'
    BY <1>1, <1>2, <2>0 DEF Ready, RelayerEffect, Exe
  <2>3. Looked(r)'
    BY <1>1, <1>2, <1>5, <2>0 DEF Looked, Deploys, RelayerEffect, Dep
  <2>4. Late(r)' /\ Fresh(r)'
    BY <1>2, <1>6, <2>0, LateStays DEF Fresh, Exe
  <2> QED
    BY <2>1, <2>2, <2>3, <2>4 DEF RunInv
<1> QED
  BY <1>3, <1>4, <1>7 DEF ProgramInv

LEMMA StutterKeepsProgram ==
  ASSUME ProgramInv, UNCHANGED programVars
  PROVE  ProgramInv'
<1>1. UNCHANGED vars /\ run' = run /\ place' = place /\ saw' = saw
  BY DEF programVars, program
<1>2. /\ \A c \in Callers : Waited(c)'
      /\ UNCHANGED <<pc, operation, nonce, sent, result, verdict, deployed>>
      /\ DeploymentMined' = DeploymentMined
      /\ \A c \in Callers : MinedFor(c) \subseteq MinedFor(c)'
  BY <1>1, NothingCalled
<1>3. ProgramTypes'
  BY <1>1 DEF ProgramInv, ProgramTypes
<1>4. ASSUME NEW r \in 1..Runs PROVE RunInv(r)'
  <2>0. Begun(r) /\ Concluded(r) /\ Ready(r) /\ Looked(r) /\ Late(r) /\ Fresh(r)
    BY DEF ProgramInv, RunInv
  <2>1. Begun(r)' /\ Concluded(r)' /\ Ready(r)'
    BY <1>1, <1>2, <2>0 DEF Begun, Concluded, Ready, Dep, Exe
  <2>2. Looked(r)'
    BY <1>1, <1>2, <2>0 DEF Looked, Deploys, Dep
  <2>3. Late(r)' /\ Fresh(r)'
    BY <1>2, <2>0, LateStays DEF Fresh, Exe
  <2> QED
    BY <2>1, <2>2, <2>3 DEF RunInv
<1> QED
  BY <1>2, <1>3, <1>4 DEF ProgramInv

\* A step of the program is one of a client, or none.
LEMMA ProgramStepIsClientStep ==
  ASSUME ProgramInv, [ProgramNext]_programVars
  PROVE  [Next]_vars
<1>1. Dep(run) \in Callers /\ Exe(run) \in Callers /\ Deployer = Dep(run) /\ Executor = Exe(run)
  BY CallersOfRuns DEF ProgramInv, ProgramTypes, Deployer, Executor, Dep, Exe
<1>2. CASE StartFails \/ Look \/ CallEnds \/ ListTransactions \/ Kill \/ StartAgain
  BY <1>2 DEF StartFails, Look, CallEnds, ListTransactions, Kill, StartAgain
<1>3. CASE CallDeploy
  BY <1>1, <1>3, ProgramAssumption DEF CallDeploy, Next, CallNext
<1>4. CASE CallExecute
  BY <1>1, <1>4, ProgramAssumption DEF CallExecute, Next, CallNext
<1>5. CASE CallGoesOn
  BY <1>1, <1>5 DEF CallGoesOn, Next, CallNext
<1>6. CASE Relayer
  BY <1>6 DEF Relayer, Next
<1>7. CASE UNCHANGED programVars
  BY <1>7 DEF programVars
<1> QED
  BY <1>2, <1>3, <1>4, <1>5, <1>6, <1>7 DEF ProgramNext, RunStep

\* What is known of the calls, and of the runs that make them.
ClientInv == IInv /\ ProgramInv

LEMMA ProgramInduction == ClientInv /\ [ProgramNext]_programVars => ClientInv'
<1> SUFFICES ASSUME IInv, ProgramInv, [ProgramNext]_programVars PROVE IInv' /\ ProgramInv'
  BY DEF ClientInv
<1>1. IInv'
  BY ProgramStepIsClientStep, InvariantIsInductive
<1>2. CASE StartFails \/ ListTransactions \/ Kill
  BY <1>1, <1>2, MovesKeep
<1>3. CASE Look
  BY <1>1, <1>3, LookKeeps
<1>4. CASE CallDeploy
  BY <1>1, <1>4, CallDeployKeeps
<1>5. CASE CallExecute
  BY <1>1, <1>5, CallExecuteKeeps
<1>6. CASE CallGoesOn
  BY <1>1, <1>6, CallGoesOnKeeps
<1>7. CASE CallEnds
  BY <1>1, <1>7, CallEndsKeeps
<1>8. CASE StartAgain
  BY <1>1, <1>8, StartAgainKeeps
<1>9. CASE Relayer
  BY <1>1, <1>9, RelayerKeeps
<1>10. CASE UNCHANGED programVars
  BY <1>1, <1>10, StutterKeepsProgram
<1> QED
  BY <1>2, <1>3, <1>4, <1>5, <1>6, <1>7, <1>8, <1>9, <1>10 DEF ProgramNext, RunStep

LEMMA ClientInvariance == ProgramSpec => []ClientInv
<1>1. ProgramInit => ClientInv
  BY InitInvariant, InitProgram DEF ProgramInit, ClientInv
<1> QED
  BY <1>1, ProgramInduction, PTL DEF ProgramSpec

-----------------------------------------------------------------------------
(* Theorems *)

(***************************************************************************)
(* The runs of the program, killed and started again as they may be, are   *)
(* goroutines of RelayClient: what is proved of those holds of it.         *)
(***************************************************************************)
THEOREM ProgramIsClient == ProgramSpec => Spec
<1>1. ProgramInit => Init
  BY DEF ProgramInit
<1>2. ClientInv /\ [ProgramNext]_programVars => [Next]_vars
  BY ProgramStepIsClientStep DEF ClientInv
<1> QED
  BY <1>1, <1>2, ClientInvariance, PTL DEF ProgramSpec, Spec

\* The operations of all runs together are implemented as promised.
THEOREM RunsKeepPromises == ProgramSpec => ImplementsOperations
<1> QED
  BY ProgramIsClient, OperationsAreImplemented

\* Two runs that have seen their executions mined have submitted different requests.
LEMMA ConfirmedApart ==
  ASSUME IInv, ProgramInv, NEW r \in 1..Runs, NEW s \in 1..Runs, r # s,
         verdict[Exe(r)] = "mined", verdict[Exe(s)] = "mined"
  PROVE  Own(Exe(r)) # Own(Exe(s))
<1>1. ASSUME NEW q \in 1..Runs, NEW p \in 1..(q - 1),
             verdict[Exe(q)] = "mined", verdict[Exe(p)] = "mined"
      PROVE  Own(Exe(p)) # Own(Exe(q))
  <2>1. p \in 1..Runs
    BY EarlierRuns
  <2>2. nonce[Exe(p)] \in Nat /\ Own(Exe(p)).nonce = nonce[Exe(p)]
    BY <1>1, <2>1, MinedExecutes
  <2>3. nonce[Exe(q)] \in Nat /\ Own(Exe(q)).nonce = nonce[Exe(q)]
    BY <1>1, MinedExecutes
  <2>4. nonce[Exe(p)] < nonce[Exe(q)]
    <3>1. Fresh(q) /\ nonce[Exe(q)] # NoNonce
      BY <2>3 DEF ProgramInv, RunInv, NoNonce
    <3> QED
      BY <1>1, <3>1 DEF Fresh
  <2> QED
    BY <2>2, <2>3, <2>4
<1>2. r \in 1..(s - 1) \/ s \in 1..(r - 1)
  BY RunsAssumption
<1> QED
  BY <1>1, <1>2

(***************************************************************************)
(* However often the program is killed and started again, a run that says  *)
(* confirmed has executed once, two runs that say so have not the same     *)
(* execution to show for it, and a run that panicked for any other reason  *)
(* than a submission or a Wait never has executed.                         *)
(***************************************************************************)
THEOREM PanicsAreTruthful == ProgramSpec => []PanicsTellTheTruth
<1>1. ClientInv => PanicsTellTheTruth
  <2> SUFFICES ASSUME IInv, ProgramInv, NEW r \in 1..Runs
               PROVE  LET mine == MinedFor(Exe(r))
                      IN  /\ Confirmed(r) => Cardinality(mine) = 1
                          /\ \A s \in 1..Runs \ {r} :
                               Confirmed(r) /\ Confirmed(s) => mine \cap MinedFor(Exe(s)) = {}
                          /\ place[r] = "panicked" /\ mine # {} =>
                               result[Exe(r)] \in
                                 {"submission failed", "declined", "not decoded", "submitted"}
    BY DEF ClientInv, PanicsTellTheTruth, Exe
  <2>1. PICK c \in Callers : c = Exe(r)
    BY CallersOfRuns
  <2>2. \A s \in 1..Runs : Concluded(s) /\ (Confirmed(s) => verdict[Exe(s)] = "mined")
    BY DEF ProgramInv, RunInv, Concluded, Confirmed
  <2>3. ASSUME NEW d \in Callers, NEW id \in MinedFor(d)
        PROVE  id \in IDs /\ records[id].state = "MINED" /\ sent[d] > 0 /\ records[id].request = Own(d)
    BY SubmissionsAre DEF MinedFor, Mined
  <2>4. ASSUME Confirmed(r) PROVE Cardinality(MinedFor(c)) = 1
    <3> DEFINE id == handle[c]
    <3>1. id \in IDs /\ records[id].state = "MINED" /\ sent[c] > 0 /\ records[id].request = Own(c)
      BY <2>1, <2>2, <2>4 DEF ProgramInv, Waited, OwnedBy
    <3>2. id \in MinedFor(c)
      BY <3>1, SubmissionsAre DEF MinedFor, Mined
    <3>3. \A i \in MinedFor(c) : i = id
      BY <2>3, <3>1 DEF IInv, RecordInv, OneEffect, Twins
    <3>4. MinedFor(c) = {id}
      BY <3>2, <3>3
    <3> QED
      BY <3>4, FS_Singleton
  <2>5. ASSUME NEW s \in 1..Runs \ {r}, Confirmed(r), Confirmed(s),
               NEW id \in MinedFor(c), id \in MinedFor(Exe(s))
        PROVE  FALSE
    <3>1. Exe(s) \in Callers
      BY CallersOfRuns
    <3>2. records[id].request = Own(c) /\ records[id].request = Own(Exe(s))
      BY <2>3, <2>5, <3>1
    <3> QED
      BY <2>1, <2>2, <2>5, <3>2, ConfirmedApart
  <2>6. ASSUME place[r] = "panicked", NEW id \in MinedFor(c)
        PROVE  result[c] \in {"submission failed", "declined", "not decoded", "submitted"}
    <3>1. sent[c] > 0
      BY <2>3
    <3>2. result[c] \in Results /\ result[c] \notin TurnedDown
      BY <3>1 DEF IInv, CallTypes, CallInv, Sending
    <3>3. result[c] # "pending"
      BY <2>1, <2>2, <2>6, <3>1 DEF Concluded
    <3> QED
      BY <3>2, <3>3 DEF Results, TurnedDown
  <2>7. \A s \in 1..Runs \ {r} :
          Confirmed(r) /\ Confirmed(s) => MinedFor(c) \cap MinedFor(Exe(s)) = {}
    BY <2>5
  <2>8. place[r] = "panicked" /\ MinedFor(c) # {} =>
          result[c] \in {"submission failed", "declined", "not decoded", "submitted"}
    BY <2>6
  <2> QED
    BY <2>1, <2>4, <2>7, <2>8
<1> QED
  BY ClientInvariance, <1>1, PTL

(***************************************************************************)
(* With a relayer that never leaves a reply empty, no run's Execute is     *)
(* refused for want of a Safe.                                             *)
(***************************************************************************)
THEOREM SafeIsThere ==
  ASSUME "empty" \notin Bodies
  PROVE  ProgramSpec => []SafeIsReady
<1>1. ClientInv => SafeIsReady
  BY DEF ClientInv, ProgramInv, RunInv, Ready, SafeIsReady, Exe
<1> QED
  BY ClientInvariance, <1>1, PTL

(***************************************************************************)
(* With such a relayer, a run is told that the Safe is deployed already    *)
(* only when a deployment that an earlier run did not see mined overtook   *)
(* it.                                                                     *)
(***************************************************************************)
THEOREM OnlyLateDeployments ==
  ASSUME "empty" \notin Bodies
  PROVE  ProgramSpec => []LateDeploymentsOnly
<1>1. ClientInv => LateDeploymentsOnly
  <2> SUFFICES ASSUME IInv, ProgramInv, NEW r \in 1..Runs, result[Dep(r)] = "safe deployed"
               PROVE  /\ ~saw[r]
                      /\ \E s \in 1..(r - 1) : /\ MinedFor(Dep(s)) # {}
                                               /\ verdict[Dep(s)] # "mined"
    BY DEF ClientInv, LateDeploymentsOnly, Dep
  <2>1. Dep(r) \in Callers /\ Looked(r) /\ Late(r)
    BY CallersOfRuns DEF ProgramInv, RunInv
  <2>2. Deploys(r)
    BY <2>1 DEF Deploys, IInv, CallInv, Stage
  <2> QED
    BY <2>1, <2>2 DEF Looked, Late
<1> QED
  BY ClientInvariance, <1>1, PTL

=============================================================================
