-------------------------- MODULE SubmissionProofs --------------------------
(***************************************************************************)
(* Theorems about Submission for every retry budget, backoff, Retry-After, *)
(* window and nonce: it is a call of HTTPTransport, RelayClient has a step *)
(* for whatever it does, and what the window and the first error tell an   *)
(* application is true.                                                    *)
(***************************************************************************)
EXTENDS Submission, FiniteSetTheorems, TLAPS

-----------------------------------------------------------------------------
(* The inductive invariant *)

\* What the errors of the transport are made of.
Links == Transport!Links

Loop ==
  /\ pc \in {"start", "loop", "sleep", "send", "await", "done"}
  /\ attempt \in Nat
  /\ pc \in {"start", "sleep", "send", "await"} => attempt <= MaxRetries
  /\ lastErr \in Seq(Links)

\* A call has a result when it has returned, and then one of three kinds.
Returned ==
  IF pc = "done" THEN result.kind \in {"value", "zero", "error"}
  ELSE result = Transport!Pending

\* Attempts are sent in order and each once: the first n of them, whatever has
\* arrived; short of a cancellation each attempt counted was sent.
SentInOrder ==
  /\ \E n \in Nat : Sent = 0..(n - 1)
  /\ inflight \cap handled = {}
  /\ pc = "await" => Sent = 0..attempt
  /\ pc \in {"start", "loop", "sleep", "send"} /\ ~ctxDone => Sent = 0..(attempt - 1)

\* All the attempts are one request: what this call has signed.
Requests == [operation : Operations, batch : {"none", "transactions"}, nonce : Nat]

Transactions == [request : Requests, state : {"NEW", "MINED", "FAILED"}]

Relayed ==
  /\ operation \in Operations
  /\ nonce \in Nat \cup {Relay!NoNonce}
  /\ signedAt = 0
  /\ now \in Nat
  /\ answer \in [kind : {"none", "stale", "declined", "accepted"}, id : Nat]
  /\ answer.kind \in {"none", "stale", "declined"} => answer.id = Relay!NoID
  /\ records \in Seq(Transactions)

\* What a single attempt leaves at the relayer is what the call hears of it.
OnlyAttempt ==
  /\ records # <<>> => handled # {}
  /\ Sent = {0} /\ records # <<>> /\ pc # "done" => answer.kind = "accepted"
  /\ Sent = {0} /\ pc = "done" /\ result.kind = "error" /\ result.err[1] = "http" =>
       inflight = {} /\ records = <<>>

IInv == Loop /\ Returned /\ SentInOrder /\ Relayed /\ OnlyAttempt

-----------------------------------------------------------------------------
(* Operators *)

\* The attempts up to the n-th, and the n-th.
LEMMA NextAttempt ==
  ASSUME NEW n \in Nat
  PROVE  /\ (0..(n - 1)) \cup {n} = 0..n
         /\ n = (n + 1) - 1
         /\ n \notin 0..(n - 1)
  OBVIOUS

\* How many attempts there are tells which.
LEMMA CountOfAttempts ==
  ASSUME NEW n \in Nat
  PROVE  IsFiniteSet(0..(n - 1)) /\ Cardinality(0..(n - 1)) = n
  <1>1. IsFiniteSet(0..(n - 1))
        /\ Cardinality(0..(n - 1)) = IF 0 > n - 1 THEN 0 ELSE (n - 1) - 0 + 1
    BY FS_Interval
  <1>. QED  BY <1>1

\* Sequences of one and of two elements.
LEMMA ShortSequences ==
  ASSUME NEW S, NEW a \in S, NEW b \in S
  PROVE  <<a>> \in Seq(S) /\ Len(<<a>>) = 1 /\ <<a>>[1] = a /\ <<a, b>> \in Seq(S)
  OBVIOUS

\* The errors of a failed attempt are chains of links.
LEMMA ErrorsOfAttempts ==
  /\ <<"request">> \in Seq(Links) /\ <<"request", "context">> \in Seq(Links)
  /\ <<"read">> \in Seq(Links) /\ <<"read", "context">> \in Seq(Links)
  <1>1. "request" \in Links /\ "read" \in Links /\ "context" \in Links
    BY DEF Links, Transport!Links, Transport!TransportLinks
  <1>. QED  BY <1>1, ShortSequences

LEMMA ErrorOfStatus ==
  ASSUME NEW status
  PROVE  Transport!HTTPError(status) \in Seq(Links)
  <1>1. Transport!httpErrorForStatus(status) \in Transport!SDKCodes \cup {Transport!NilSDKError}
    BY DEF Transport!httpErrorForStatus, Transport!SDKCodes
  <1>2. Transport!httpErrorForStatus(status) \in Links /\ "http" \in Links
    BY <1>1 DEF Links, Transport!Links, Transport!TransportLinks
  <1>. QED  BY <1>2, ShortSequences DEF Transport!HTTPError

\* The wrapper comes first.
LEMMA Wrapped ==
  ASSUME NEW err \in Seq(Links), NEW link \in Links
  PROVE  (<<link>> \o err)[1] = link
  BY ShortSequences

\* A sequence with one element more, and with one changed.
LEMMA Appended ==
  ASSUME NEW S, NEW s \in Seq(S), NEW e \in S
  PROVE  Append(s, e) \in Seq(S) /\ Len(s) + 1 \in Nat
  OBVIOUS

LEMMA Changed ==
  ASSUME NEW S, NEW s \in Seq(S), NEW i \in DOMAIN s, NEW e \in S
  PROVE  /\ [s EXCEPT ![i] = e] \in Seq(S)
         /\ Len([s EXCEPT ![i] = e]) = Len(s)
         /\ s # <<>>
  OBVIOUS

-----------------------------------------------------------------------------
(* Every step keeps the invariant *)

LEMMA Initially == Init => IInv
  <1>. SUFFICES ASSUME Init PROVE IInv
    OBVIOUS
  <1>. USE DEF Init, Transport!Init
  <1>1. Loop
    BY RetriesAssumption DEF Loop
  <1>2. Returned
    BY DEF Returned
  <1>3. Sent = {} /\ 0..(0 - 1) = {} /\ inflight = {} /\ attempt = 0 /\ pc = "start"
    BY DEF Sent
  <1>4. SentInOrder
    <2>1. \E n \in Nat : Sent = 0..(n - 1)
      <3>. WITNESS 0 \in Nat
      <3>. QED  BY <1>3
    <2>. QED  BY <1>3, <2>1 DEF SentInOrder
  <1>5. Relayed
    <2>1. nonce \in Nat \cup {Relay!NoNonce}
      BY OperationsAssumption, NoncesAssumption
    <2>2. answer = [kind |-> "none", id |-> 0]
      BY DEF Relay!NoReply, Relay!NoID
    <2>3. <<>> \in Seq(Transactions)
      OBVIOUS
    <2>. QED  BY <2>1, <2>2, <2>3 DEF Relayed, Relay!NoID
  <1>6. OnlyAttempt
    BY <1>3 DEF OnlyAttempt
  <1>. QED  BY <1>1, <1>2, <1>4, <1>5, <1>6 DEF IInv

\* An attempt that failed leaves the loop at the next one.
FailedAttempt ==
  /\ pc \in {"send", "await"}
  /\ pc = "send" => ctxDone
  /\ pc' = "loop"
  /\ attempt' = attempt + 1
  /\ lastErr' \in Seq(Links)
  /\ UNCHANGED <<result, ctxDone, inflight, handled>>
  /\ UNCHANGED <<signedRequest, now, wakeAt, relayer>>

LEMMA FailedAttemptKeeps == IInv /\ FailedAttempt => IInv'
  <1>. SUFFICES ASSUME IInv, FailedAttempt PROVE IInv'
    OBVIOUS
  <1>. USE DEF FailedAttempt
  <1>1. Loop'
    BY DEF IInv, Loop
  <1>2. Returned'
    BY DEF IInv, Returned, Transport!Pending
  <1>3. Sent' = Sent
    BY DEF Sent
  <1>4. attempt \in Nat /\ attempt' - 1 = attempt
    BY DEF IInv, Loop
  <1>5. SentInOrder'
    BY <1>3, <1>4 DEF IInv, SentInOrder
  <1>6. Relayed'
    BY DEF IInv, Relayed, signedRequest, relayer
  <1>7. OnlyAttempt'
    BY <1>3 DEF IInv, OnlyAttempt, relayer
  <1>. QED  BY <1>1, <1>2, <1>5, <1>6, <1>7 DEF IInv

\* A return with an error of the client's own.
ReturnedError ==
  /\ pc # "done"
  /\ pc' = "done"
  /\ result'.kind = "error"
  /\ result'.err[1] \notin {"http", "decode"}
  /\ UNCHANGED <<attempt, lastErr, ctxDone, inflight, handled>>
  /\ UNCHANGED <<signedRequest, now, wakeAt, relayer>>

LEMMA ReturnedErrorKeeps == IInv /\ ReturnedError => IInv'
  <1>. SUFFICES ASSUME IInv, ReturnedError PROVE IInv'
    OBVIOUS
  <1>. USE DEF ReturnedError
  <1>1. Loop'
    BY DEF IInv, Loop
  <1>2. Returned'
    BY DEF IInv, Returned
  <1>3. Sent' = Sent
    BY DEF Sent
  <1>4. SentInOrder'
    BY <1>3 DEF IInv, SentInOrder
  <1>5. Relayed'
    BY DEF IInv, Relayed, signedRequest, relayer
  <1>6. OnlyAttempt'
    BY <1>3 DEF IInv, OnlyAttempt, relayer
  <1>. QED  BY <1>1, <1>2, <1>4, <1>5, <1>6 DEF IInv

\* A move of the call that neither sends nor hears anything.
Move ==
  /\ pc # "done"
  /\ \/ pc = "start" /\ pc' = "send"
     \/ pc = "loop" /\ attempt <= MaxRetries /\ pc' = "sleep"
     \/ pc = "sleep" /\ pc' = "send"
     \/ pc' = pc
  /\ ctxDone => ctxDone'
  /\ UNCHANGED <<attempt, lastErr, result, inflight, handled>>
  /\ UNCHANGED <<signedRequest, now, relayer>>

LEMMA MoveKeeps == IInv /\ Move => IInv'
  <1>. SUFFICES ASSUME IInv, Move PROVE IInv'
    OBVIOUS
  <1>. USE DEF Move
  <1>1. Loop'
    BY DEF IInv, Loop
  <1>2. Returned'
    BY DEF IInv, Returned, Loop, Transport!Pending
  <1>3. Sent' = Sent
    BY DEF Sent
  <1>4. SentInOrder'
    BY <1>3 DEF IInv, SentInOrder
  <1>5. Relayed'
    BY DEF IInv, Relayed, signedRequest, relayer
  <1>6. OnlyAttempt'
    BY <1>3 DEF IInv, OnlyAttempt, relayer
  <1>. QED  BY <1>1, <1>2, <1>4, <1>5, <1>6 DEF IInv

\* What the steps of the transport come down to.
LEMMA CallStepIs == IInv /\ CallStep => FailedAttempt \/ ReturnedError \/ Move
  <1>. SUFFICES ASSUME IInv, CallStep PROVE FailedAttempt \/ ReturnedError \/ Move
    OBVIOUS
  <1>. USE DEF CallStep
  <1>1. CASE Transport!Reject
    BY <1>1 DEF Transport!Reject, Transport!Return, ReturnedError
  <1>2. CASE Transport!FirstAttempt
    BY <1>2 DEF Transport!FirstAttempt, Move
  <1>3. CASE Transport!Exhausted
    <2>1. (<<"max retries">> \o lastErr)[1] = "max retries"
      BY Wrapped DEF IInv, Loop, Links, Transport!Links, Transport!TransportLinks
    <2>. QED  BY <1>3, <2>1 DEF Transport!Exhausted, Transport!Return, ReturnedError
  <1>4. CASE Transport!SleepCancelled
    BY <1>4 DEF Transport!SleepCancelled, Transport!Return, ReturnedError
  <1>5. CASE Transport!SendCancelled
    BY <1>5, ErrorsOfAttempts DEF Transport!SendCancelled, Transport!FailAttempt, FailedAttempt
  <1>6. CASE Transport!RequestFails
    BY <1>6, ErrorsOfAttempts DEF Transport!RequestFails, Transport!FailAttempt, FailedAttempt
  <1>7. CASE Transport!ReadFails
    BY <1>7, ErrorsOfAttempts DEF Transport!ReadFails, Transport!FailAttempt, FailedAttempt
  <1>8. CASE Transport!CancelContext
    BY <1>8 DEF Transport!CancelContext, Transport!client, Move
  <1>. QED  BY <1>1, <1>2, <1>3, <1>4, <1>5, <1>6, <1>7, <1>8

LEMMA PauseIs == IInv /\ (Pause \/ Wake) => Move
  BY DEF Pause, Transport!Pause, Wake, Transport!Wake, Move, signedRequest, relayer

\* The answer to the attempt ends the call: an HTTP error if the relayer turned it
\* down, and if the relayer accepted it a value, the zero value, or a body that
\* cannot be decoded.
AnsweredNo ==
  /\ answer.kind \in {"stale", "declined"}
  /\ result'.kind = "error"
  /\ result'.err[1] = "http"

AnsweredYes ==
  /\ answer.kind = "accepted"
  /\ \/ result'.kind \in {"value", "zero"}
     \/ result'.kind = "error" /\ result'.err[1] = "decode"

Answered ==
  /\ pc = "await"
  /\ attempt \in handled
  /\ pc' = "done"
  /\ AnsweredNo \/ AnsweredYes
  /\ UNCHANGED <<attempt, lastErr, ctxDone, inflight, handled>>
  /\ UNCHANGED <<signedRequest, now, wakeAt, relayer>>

\* The statuses an error comes with, and who sent them.
LEMMA StatusesOfAnswers ==
  ASSUME IInv, NEW status \in Statuses, Answers(status), ~Transport!Retryable(status)
  PROVE  /\ status >= 400 => answer.kind \in {"stale", "declined"}
         /\ status < 400 => answer.kind = "accepted"
  <1>1. status \in Int /\ ~(status >= 500)
    BY StatusAssumption DEF Transport!Retryable
  <1>. QED  BY <1>1 DEF Answers

LEMMA ReceiveIs == IInv /\ Receive => FailedAttempt \/ Answered
  <1>. SUFFICES ASSUME IInv, Receive PROVE FailedAttempt \/ Answered
    OBVIOUS
  <1>1. PICK status \in Statuses, header \in RetryAfters, body \in Transport!Bodies :
          /\ reply' = [status |-> status, retryAfter |-> header]
          /\ Transport!React(status, header, body)
    BY DEF Receive, Transport!Receive
  <1>2. Answers(status)
    <2>1. Answers(reply'.status) /\ reply'.status = status
      BY <1>1 DEF Receive
    <2>. QED  BY <2>1
  <1>3. /\ pc = "await" /\ attempt \in handled
        /\ UNCHANGED <<ctxDone, inflight, handled>>
        /\ UNCHANGED <<signedRequest, now, wakeAt, relayer>>
    BY DEF Receive, Transport!Receive
  <1>4. CASE /\ Transport!Retryable(status)
             /\ Transport!FailAttempt(Transport!HTTPError(status),
                                      Transport!RequestedDelay(status, header))
    BY <1>3, <1>4, ErrorOfStatus DEF Transport!FailAttempt, FailedAttempt
  <1>5. CASE /\ ~Transport!Retryable(status)
             /\ status >= 400
             /\ Transport!Return("error", Transport!HTTPError(status))
    <2>1. answer.kind \in {"stale", "declined"}
      BY <1>2, <1>5, StatusesOfAnswers
    <2>2. Transport!HTTPError(status)[1] = "http"
      BY DEF Transport!HTTPError
    <2>3. result'.kind = "error" /\ result'.err = Transport!HTTPError(status)
      BY <1>5 DEF Transport!Return
    <2>. QED  BY <1>3, <1>5, <2>1, <2>2, <2>3 DEF Transport!Return, Answered, AnsweredNo
  <1>6. CASE /\ ~Transport!Retryable(status)
             /\ status < 400
             /\ Transport!Decode(body)
    <2>1. answer.kind = "accepted"
      BY <1>2, <1>6, StatusesOfAnswers
    <2>2. /\ UNCHANGED <<attempt, lastErr>>
          /\ pc' = "done"
          /\ \/ result'.kind \in {"value", "zero"}
             \/ result'.kind = "error" /\ result'.err[1] = "decode"
      <3>1. CASE body = "json"
        BY <1>6, <3>1 DEF Transport!Decode, Transport!Return
      <3>2. CASE body = "empty"
        BY <1>6, <3>2 DEF Transport!Decode, Transport!Return
      <3>3. CASE body = "garbled"
        BY <1>6, <3>3 DEF Transport!Decode, Transport!Return
      <3>. QED  BY <3>1, <3>2, <3>3 DEF Transport!Bodies
    <2>. QED  BY <1>3, <2>1, <2>2 DEF Answered, AnsweredYes
  <1>. QED  BY <1>1, <1>4, <1>5, <1>6 DEF Transport!React

LEMMA AnsweredKeeps == IInv /\ Answered => IInv'
  <1>. SUFFICES ASSUME IInv, Answered PROVE IInv'
    OBVIOUS
  <1>. USE DEF Answered
  <1>1. Loop'
    BY DEF IInv, Loop
  <1>2. Returned'
    BY DEF IInv, Returned, AnsweredNo, AnsweredYes
  <1>3. Sent' = Sent
    BY DEF Sent
  <1>4. SentInOrder'
    BY <1>3 DEF IInv, SentInOrder
  <1>5. Relayed'
    BY DEF IInv, Relayed, signedRequest, relayer
  <1>6. OnlyAttempt'
    <2>1. ASSUME Sent = {0} PROVE inflight = {}
      BY <2>1 DEF IInv, SentInOrder, Sent
    <2>. QED  BY <1>3, <2>1 DEF IInv, OnlyAttempt, relayer, AnsweredNo, AnsweredYes
  <1>. QED  BY <1>1, <1>2, <1>4, <1>5, <1>6 DEF IInv

LEMMA SendKeeps == IInv /\ Send => IInv'
  <1>. SUFFICES ASSUME IInv, Send PROVE IInv'
    OBVIOUS
  <1>. USE DEF Send, Transport!Send
  <1>1. Loop'
    BY DEF IInv, Loop
  <1>2. Returned'
    BY DEF IInv, Returned, Transport!Pending
  <1>3. attempt \in Nat /\ Sent = 0..(attempt - 1) /\ Sent' = Sent \cup {attempt}
    BY DEF IInv, Loop, SentInOrder, Sent
  <1>4. Sent' = 0..attempt /\ attempt \notin Sent
    BY <1>3, NextAttempt
  <1>5. SentInOrder'
    <2>1. \E n \in Nat : Sent' = 0..(n - 1)
      <3>1. attempt + 1 \in Nat /\ attempt = (attempt + 1) - 1
        BY <1>3, NextAttempt
      <3>. QED  BY <1>4, <3>1
    <2>. QED  BY <1>3, <1>4, <2>1 DEF IInv, SentInOrder, Sent
  <1>6. Relayed'
    BY DEF IInv, Relayed, signedRequest, Relay!NoReply, Relay!NoID
  <1>7. OnlyAttempt'
    <2>1. ASSUME Sent' = {0} PROVE records = <<>>
      <3>1. 0..attempt = {0}
        BY <1>4, <2>1
      <3>2. attempt = 0
        BY <1>3, <3>1
      <3>3. Sent = {}
        BY <1>3, <3>2
      <3>. QED  BY <3>3 DEF IInv, OnlyAttempt, Sent
    <2>. QED  BY <2>1 DEF IInv, OnlyAttempt
  <1>. QED  BY <1>1, <1>2, <1>5, <1>6, <1>7 DEF IInv

\* What an arrival does: the request is handled, and what the relayer says to the
\* latest attempt is heard if the call is still there.
Arrived(a) ==
  /\ a \in inflight
  /\ inflight' = inflight \ {a}
  /\ handled' = handled \cup {a}
  /\ UNCHANGED <<pc, attempt, lastErr, result, ctxDone>>
  /\ UNCHANGED <<operation, nonce, signedAt, now, deployed, walletNonce>>

TurnedDown(a) ==
  /\ Replied(a, "stale", Relay!NoID) \/ Replied(a, "declined", Relay!NoID)
  /\ records' = records

NewRecord == [request |-> Relay!SignedAs(me, nonce), state |-> "NEW"]

TakenUp(a) ==
  /\ Replied(a, "accepted", Len(records) + 1)
  /\ records' = Append(records, NewRecord)
  /\ now - signedAt <= Window

LEMMA ArriveIs ==
  ASSUME IInv, NEW a \in inflight, Arrive(a)
  PROVE  Arrived(a) /\ (TurnedDown(a) \/ TakenUp(a))
  <1>1. PICK b \in inflight : inflight' = inflight \ {b} /\ handled' = handled \cup {b}
                              /\ UNCHANGED <<Transport!client, ctxDone, reply>>
    BY DEF Arrive, Transport!ServerHandles
  <1>2. b = a
    BY <1>1 DEF Arrive
  <1>3. Arrived(a)
    BY <1>1, <1>2 DEF Arrive, Arrived, Transport!client, signedRequest
  <1>4. CASE now - signedAt > Window
    <2>1. Replied(a, "stale", Relay!NoID) /\ records' = records
      BY <1>4 DEF Arrive
    <2>. QED  BY <1>3, <2>1 DEF TurnedDown
  <1>5. CASE ~(now - signedAt > Window)
    <2>1. now - signedAt <= Window
      BY <1>5, ClockAssumption DEF IInv, Relayed
    <2>. QED  BY <1>3, <1>5, <2>1 DEF Arrive, TurnedDown, TakenUp, NewRecord
  <1>. QED  BY <1>3, <1>4, <1>5

LEMMA NewRecordType ==
  IInv => NewRecord \in Transactions
  <1>. SUFFICES ASSUME IInv PROVE Relay!SignedAs(me, nonce) \in Requests
    BY DEF NewRecord, Transactions
  <1>1. Relay!SignedNonce(nonce) \in Nat /\ operation \in Operations
    BY DEF IInv, Relayed, Relay!SignedNonce, Relay!NoNonce
  <1>. QED  BY <1>1 DEF Relay!SignedAs, Requests

LEMMA ArriveKeeps ==
  ASSUME IInv, NEW a, Arrived(a), TurnedDown(a) \/ TakenUp(a)
  PROVE  IInv'
  <1>. USE DEF Arrived
  <1>1. Loop'
    BY DEF IInv, Loop
  <1>2. Returned'
    BY DEF IInv, Returned, Transport!Pending
  <1>3. Sent' = Sent
    BY DEF Sent
  <1>4. SentInOrder'
    BY <1>3 DEF IInv, SentInOrder
  <1>5. Relayed'
    <2>1. NewRecord \in Transactions
      BY NewRecordType
    <2>2. /\ records' \in Seq(Transactions)
          /\ Len(records) + 1 \in Nat
      <3>1. records \in Seq(Transactions)
        BY DEF IInv, Relayed
      <3>2. records' = records \/ records' = Append(records, NewRecord)
        BY DEF TurnedDown, TakenUp
      <3>. QED  BY <2>1, <3>1, <3>2, Appended
    <2>3. /\ answer' \in [kind : {"none", "stale", "declined", "accepted"}, id : Nat]
          /\ answer'.kind \in {"none", "stale", "declined"} => answer'.id = Relay!NoID
      BY <2>2 DEF IInv, Relayed, TurnedDown, TakenUp, Replied, Relay!NoID
    <2>. QED  BY <2>2, <2>3 DEF IInv, Relayed
  <1>6. OnlyAttempt'
    <2>1. handled' # {}
      OBVIOUS
    <2>2. ASSUME Sent = {0} PROVE a = 0 /\ handled = {} /\ Cardinality(Sent) = 1
      <3>1. a = 0 /\ handled = {}
        BY <2>2 DEF IInv, SentInOrder, Sent
      <3>. QED  BY <2>2, <3>1, FS_Singleton
    <2>3. ASSUME Sent = {0} PROVE records = <<>> /\ inflight # {}
      BY <2>2, <2>3 DEF IInv, OnlyAttempt
    <2>4. ASSUME Sent = {0}, records' # <<>>, pc # "done" PROVE answer'.kind = "accepted"
      BY <2>2, <2>3, <2>4 DEF TurnedDown, TakenUp, Replied
    <2>5. ASSUME Sent = {0}, pc = "done", result.kind = "error", result.err[1] = "http"
          PROVE  FALSE
      BY <2>3, <2>5 DEF IInv, OnlyAttempt
    <2>. QED  BY <1>3, <2>1, <2>4, <2>5 DEF OnlyAttempt
  <1>. QED  BY <1>1, <1>2, <1>4, <1>5, <1>6 DEF IInv

\* The chain changes the state of a record.
LEMMA ChainKeepsRecords ==
  ASSUME IInv, Chain
  PROVE  /\ records # <<>>
         /\ Len(records') = Len(records)
         /\ records' \in Seq(Transactions)
  <1>1. PICK id \in DOMAIN records, state \in {"MINED", "FAILED"} :
          records' = [records EXCEPT ![id].state = state]
    BY DEF Chain, Relay!Mine, Relay!Drop
  <1>2. records \in Seq(Transactions)
    BY DEF IInv, Relayed
  <1>3. [records[id] EXCEPT !.state = state] \in Transactions
    <2>1. records[id] \in Transactions
      BY <1>2
    <2>. QED  BY <2>1 DEF Transactions
  <1>4. records' = [records EXCEPT ![id] = [records[id] EXCEPT !.state = state]]
    BY <1>1
  <1>. QED  BY <1>2, <1>3, <1>4, Changed

LEMMA ChainKeeps == IInv /\ Chain => IInv'
  <1>. SUFFICES ASSUME IInv, Chain PROVE IInv'
    OBVIOUS
  <1>1. UNCHANGED <<transport, signedRequest, now, wakeAt, answer>>
    BY DEF Chain
  <1>. USE <1>1 DEF transport, signedRequest
  <1>2. Loop'
    BY DEF IInv, Loop
  <1>3. Returned'
    BY DEF IInv, Returned, Transport!Pending
  <1>4. Sent' = Sent
    BY DEF Sent
  <1>5. SentInOrder'
    BY <1>4 DEF IInv, SentInOrder
  <1>6. Relayed'
    BY ChainKeepsRecords DEF IInv, Relayed
  <1>7. OnlyAttempt'
    BY <1>4, ChainKeepsRecords DEF IInv, OnlyAttempt
  <1>. QED  BY <1>2, <1>3, <1>5, <1>6, <1>7 DEF IInv

\* The clock, and steps that change nothing.
LEMMA TickKeeps == IInv /\ (Tick \/ UNCHANGED vars) => IInv'
  <1>. SUFFICES ASSUME IInv, Tick \/ UNCHANGED vars PROVE IInv'
    OBVIOUS
  <1>1. UNCHANGED <<transport, signedRequest, relayer>> /\ now' \in Nat
    BY DEF Tick, vars, IInv, Relayed
  <1>. USE <1>1 DEF transport, signedRequest, relayer
  <1>2. Loop'
    BY DEF IInv, Loop
  <1>3. Returned'
    BY DEF IInv, Returned, Transport!Pending
  <1>4. Sent' = Sent
    BY DEF Sent
  <1>5. SentInOrder'
    BY <1>4 DEF IInv, SentInOrder
  <1>6. Relayed'
    BY DEF IInv, Relayed
  <1>7. OnlyAttempt'
    BY <1>4 DEF IInv, OnlyAttempt
  <1>. QED  BY <1>2, <1>3, <1>5, <1>6, <1>7 DEF IInv

LEMMA StepInvariant == IInv /\ [Next]_vars => IInv'
  <1>. SUFFICES ASSUME IInv, [Next]_vars PROVE IInv'
    OBVIOUS
  <1>1. CASE CallStep
    BY <1>1, CallStepIs, FailedAttemptKeeps, ReturnedErrorKeeps, MoveKeeps
  <1>2. CASE Pause \/ Wake
    BY <1>2, PauseIs, MoveKeeps
  <1>3. CASE Send
    BY <1>3, SendKeeps
  <1>4. CASE Receive
    BY <1>4, ReceiveIs, FailedAttemptKeeps, AnsweredKeeps
  <1>5. ASSUME NEW a \in inflight, Arrive(a) PROVE IInv'
    BY <1>5, ArriveIs, ArriveKeeps
  <1>6. CASE Chain
    BY <1>6, ChainKeeps
  <1>7. CASE Tick \/ UNCHANGED vars
    BY <1>7, TickKeeps
  <1>. QED  BY <1>1, <1>2, <1>3, <1>4, <1>5, <1>6, <1>7 DEF Next

LEMMA Invariant == Spec => []IInv
  BY Initially, StepInvariant, PTL DEF Spec

-----------------------------------------------------------------------------
(* What the application may rely on *)

(***************************************************************************)
(* A call that returns an HTTP error after a single attempt has left no    *)
(* transaction at the relayer, whatever arrives or happens afterwards.     *)
(***************************************************************************)
THEOREM FirstErrorSettles == Spec => []FirstErrorIsFinal
  <1>1. IInv => FirstErrorIsFinal
    <2>. SUFFICES ASSUME IInv, pc = "done", result.kind = "error", result.err[1] = "http",
                         Cardinality(Sent) = 1
                  PROVE  records = <<>>
      BY DEF FirstErrorIsFinal
    <2>1. PICK n \in Nat : Sent = 0..(n - 1)
      BY DEF IInv, SentInOrder
    <2>2. n = 1
      BY <2>1, CountOfAttempts
    <2>3. Sent = {0}
      BY <2>1, <2>2
    <2>. QED  BY <2>3 DEF IInv, OnlyAttempt
  <1>. QED  BY <1>1, Invariant, PTL

(***************************************************************************)
(* The relayer accepts no attempt of a submission later than Window after  *)
(* its headers were made, however the client pauses and the network        *)
(* delays: one set of headers for all attempts bounds the time in which    *)
(* duplicates appear.                                                      *)
(***************************************************************************)
THEOREM HeadersBoundDuplicates == Spec => DuplicatesExpire
  <1>1. IInv /\ [Next]_vars => [Len(records') > Len(records) => now <= Window]_vars
    <2>. SUFFICES ASSUME IInv, Next, Len(records') > Len(records) PROVE now <= Window
      OBVIOUS
    <2>1. Len(records) \in Nat
      BY DEF IInv, Relayed
    <2>2. records' # records
      BY <2>1
    <2>3. ~CallStep /\ ~Pause /\ ~Wake /\ ~Send /\ ~Receive /\ ~Tick
      BY <2>2 DEF CallStep, Pause, Wake, Send, Receive, Tick, relayer
    <2>4. ~Chain
      BY <2>1, ChainKeepsRecords
    <2>5. PICK a \in inflight : Arrive(a)
      BY <2>3, <2>4 DEF Next
    <2>6. TakenUp(a)
      BY <2>2, <2>5, ArriveIs DEF TurnedDown
    <2>. QED  BY <2>6 DEF TakenUp, IInv, Relayed
  <1>. QED  BY <1>1, Invariant, PTL DEF Spec, DuplicatesExpire

-----------------------------------------------------------------------------
(* Every step is one of RelayClient *)

\* What RelayClient's variables have for the goroutine.
Reply == IF answer.kind = "stale" THEN [answer EXCEPT !.kind = "declined"] ELSE answer

Handle == IF result.kind = "value" THEN answer.id ELSE 0

\* Functions of one goroutine.
LEMMA OneGoroutine ==
  ASSUME NEW x, NEW v
  PROVE  /\ Relay!Set([c \in {me} |-> x], me, v) = [c \in {me} |-> v]
         /\ [c \in {me} |-> x][me] = x
  BY DEF Relay!Set

\* A request on the wire is an attempt with the nonce of all.
Wire(A, n) == [attempt : A, nonce : {n}]

LEMMA WireGrows ==
  ASSUME NEW A, NEW a, NEW n
  PROVE  Wire(A \cup {a}, n) =
           Wire(A, n) \cup {[attempt |-> a, nonce |-> n]}
  <1>1. ASSUME NEW r \in Wire(A \cup {a}, n)
        PROVE  r \in Wire(A, n) \/ r = [attempt |-> a, nonce |-> n]
    <2>1. r = [attempt |-> r.attempt, nonce |-> r.nonce]
      BY DEF Wire
    <2>2. r.nonce = n /\ r.attempt \in A \cup {a}
      BY DEF Wire
    <2>3. CASE r.attempt = a
      BY <2>1, <2>2, <2>3
    <2>4. CASE r.attempt \in A
      BY <2>1, <2>2, <2>4 DEF Wire
    <2>. QED  BY <2>2, <2>3, <2>4
  <1>2. ASSUME NEW r \in Wire(A, n)
        PROVE  r \in Wire(A \cup {a}, n)
    BY DEF Wire
  <1>3. [attempt |-> a, nonce |-> n] \in Wire(A \cup {a}, n)
    BY DEF Wire
  <1>. QED  BY <1>1, <1>2, <1>3

LEMMA WireShrinks ==
  ASSUME NEW A, NEW a, NEW n
  PROVE  Wire(A \ {a}, n) =
           Wire(A, n) \ {[attempt |-> a, nonce |-> n]}
  <1>1. ASSUME NEW r \in Wire(A \ {a}, n)
        PROVE  r \in Wire(A, n) /\ r # [attempt |-> a, nonce |-> n]
    BY DEF Wire
  <1>2. ASSUME NEW r \in Wire(A, n), r # [attempt |-> a, nonce |-> n]
        PROVE  r \in Wire(A \ {a}, n)
    <2>1. r = [attempt |-> r.attempt, nonce |-> r.nonce]
      BY DEF Wire
    <2>2. r.nonce = n /\ r.attempt \in A
      BY DEF Wire
    <2>3. r.attempt # a
      BY <1>2, <2>1, <2>2
    <2>. QED  BY <2>1, <2>2, <2>3 DEF Wire
  <1>. QED  BY <1>1, <1>2

\* Steps RelayClient does not see.
LEMMA Unseen ==
  ASSUME UNCHANGED <<Place, Outcome, Handle, Reply, inflight, handled>>,
         UNCHANGED <<operation, nonce, deployed, walletNonce, records>>
  PROVE  UNCHANGED Relay!vars
  BY DEF Relay!vars, Relay!calls, Relay!chain, Handle, Reply, Sent

\* A call that has not returned is submitting, and has no outcome.
LEMMA Submitting ==
  IInv /\ pc # "done" =>
    Place = "submit" /\ Outcome = "pending" /\ Handle = 0 /\ result.kind = "pending"
  BY DEF IInv, Returned, Transport!Pending, Place, Outcome, Handle

LEMMA NoStep ==
  IInv /\ (FailedAttempt \/ Move \/ Tick \/ UNCHANGED vars) => UNCHANGED Relay!vars
  <1>. SUFFICES ASSUME IInv, FailedAttempt \/ Move \/ Tick \/ UNCHANGED vars
                PROVE  UNCHANGED Relay!vars
    OBVIOUS
  <1>1. CASE FailedAttempt \/ Move
    <2>1. pc # "done" /\ pc' # "done" /\ UNCHANGED <<result, answer, inflight, handled>>
          /\ UNCHANGED <<operation, nonce, deployed, walletNonce, records>>
      BY <1>1 DEF FailedAttempt, Move, signedRequest, relayer
    <2>2. UNCHANGED <<Place, Outcome, Handle, Reply>>
      BY <2>1 DEF Place, Outcome, Handle, Reply
    <2>. QED  BY <2>1, <2>2, Unseen
  <1>2. CASE Tick \/ UNCHANGED vars
    <2>1. UNCHANGED <<pc, result, answer, inflight, handled>>
          /\ UNCHANGED <<operation, nonce, deployed, walletNonce, records>>
      BY <1>2 DEF Tick, vars, transport, signedRequest, relayer
    <2>2. UNCHANGED <<Place, Outcome, Handle, Reply>>
      BY <2>1 DEF Place, Outcome, Handle, Reply
    <2>. QED  BY <2>1, <2>2, Unseen
  <1>. QED  BY <1>1, <1>2

\* What a return leaves alone.
RestOfCall ==
  <<[c \in {me} |-> operation], [c \in {me} |-> nonce], [c \in {me} |-> Cardinality(Sent)],
    [c \in {me} |-> Wire(inflight, nonce)], [c \in {me} |-> Reply]>>

LEMMA SameRest ==
  UNCHANGED <<operation, nonce, inflight, handled, Reply>> => UNCHANGED RestOfCall
  BY DEF RestOfCall, Sent

\* A return: what RelayClient sees of it.
Ended(place, outcome) ==
  /\ Place = "submit" /\ Place' = place
  /\ Outcome = "pending" /\ Outcome' = outcome
  /\ UNCHANGED <<Reply, inflight, handled>>
  /\ UNCHANGED <<operation, nonce, deployed, walletNonce, records>>

LEMMA ReturnOfRelayClient ==
  ASSUME NEW outcome, Ended("returned", outcome), UNCHANGED Handle
  PROVE  Relay!Return(me, outcome) /\ UNCHANGED Relay!chain
  <1>1. [c \in {me} |-> Place'] = Relay!Set([c \in {me} |-> Place], me, "returned")
    BY DEF Ended, Relay!Set
  <1>2. [c \in {me} |-> Outcome'] = Relay!Set([c \in {me} |-> Outcome], me, outcome)
    BY DEF Ended, Relay!Set
  <1>3. UNCHANGED [c \in {me} |-> Handle]
    OBVIOUS
  <1>4. UNCHANGED <<RestOfCall, Relay!chain>>
    BY SameRest DEF Ended, Relay!chain
  <1>. QED  BY <1>1, <1>2, <1>3, <1>4 DEF Relay!Return, Relay!chain, Handle, RestOfCall, Reply, Wire

LEMMA StepOfCall == ASSUME Relay!CallStep(me) PROVE Relay!Next
  BY DEF Relay!Next, Relay!CallNext

LEMMA ReturnedErrorIsGiveUp == IInv /\ ReturnedError => Relay!Next
  <1>. SUFFICES ASSUME IInv, ReturnedError PROVE Relay!Next
    OBVIOUS
  <1>1. /\ pc # "done" /\ pc' = "done"
        /\ result'.kind = "error" /\ result'.err[1] \notin {"http", "decode"}
        /\ UNCHANGED <<inflight, handled, answer>>
        /\ UNCHANGED <<operation, nonce, deployed, walletNonce, records>>
    BY DEF ReturnedError, signedRequest, relayer
  <1>2. Place' = "returned" /\ Outcome' = "submission failed" /\ Handle' = 0 /\ Reply' = Reply
    BY <1>1 DEF Place, Outcome, Handle, Reply
  <1>3. Ended("returned", "submission failed") /\ Handle' = Handle
    BY <1>1, <1>2, Submitting DEF Ended
  <1>4. Relay!Return(me, "submission failed") /\ UNCHANGED Relay!chain
    BY <1>3, ReturnOfRelayClient
  <1>5. Relay!GiveUp(me)
    BY <1>3, <1>4, OneGoroutine DEF Relay!GiveUp, Ended
  <1>. QED  BY <1>5, StepOfCall DEF Relay!CallStep

LEMMA AnsweredIsReturn == IInv /\ Answered => Relay!Next
  <1>. SUFFICES ASSUME IInv, Answered PROVE Relay!Next
    OBVIOUS
  <1>1. /\ pc # "done" /\ pc' = "done"
        /\ UNCHANGED <<inflight, handled, answer>>
        /\ UNCHANGED <<operation, nonce, deployed, walletNonce, records>>
    BY DEF Answered, signedRequest, relayer
  <1>2. Reply' = Reply
    BY <1>1 DEF Reply
  <1>3. CASE AnsweredNo
    <2>1. Reply.kind = "declined"
      BY <1>3 DEF AnsweredNo, Reply, IInv, Relayed
    <2>2. Place' = "returned" /\ Outcome' = "declined" /\ Handle' = 0
      BY <1>1, <1>3 DEF AnsweredNo, Place, Outcome, Handle
    <2>3. Ended("returned", "declined") /\ Handle' = Handle
      BY <1>1, <1>2, <2>2, Submitting DEF Ended
    <2>4. Relay!Return(me, "declined") /\ UNCHANGED Relay!chain
      BY <2>3, ReturnOfRelayClient
    <2>5. Relay!Declined(me)
      BY <2>1, <2>3, <2>4, OneGoroutine DEF Relay!Declined, Ended, Reply
    <2>. QED  BY <2>5, StepOfCall DEF Relay!CallStep
  <1>4. CASE AnsweredYes
    <2>1. answer.kind = "accepted" /\ Reply = answer
      BY <1>4 DEF AnsweredYes, Reply
    <2>2. CASE result'.kind = "error" /\ result'.err[1] = "decode"
      <3>1. Place' = "returned" /\ Outcome' = "not decoded" /\ Handle' = 0
        BY <1>1, <2>2 DEF Place, Outcome, Handle
      <3>2. Ended("returned", "not decoded") /\ Handle' = Handle
        BY <1>1, <1>2, <3>1, Submitting DEF Ended
      <3>3. Relay!Return(me, "not decoded") /\ UNCHANGED Relay!chain
        BY <3>2, ReturnOfRelayClient
      <3>4. "garbled" \in Transport!Bodies
        BY DEF Transport!Bodies
      <3>5. Relay!Submitted(me)
        BY <2>1, <3>2, <3>3, <3>4, OneGoroutine DEF Relay!Submitted, Ended, Reply
      <3>. QED  BY <3>5, StepOfCall DEF Relay!CallStep
    <2>3. ASSUME NEW body \in {"json", "empty"},
                 result'.kind = IF body = "json" THEN "value" ELSE "zero"
          PROVE  Relay!Next
      <3>1. /\ Place' = "wait" /\ Outcome' = "submitted"
            /\ Handle' = IF body = "json" THEN answer.id ELSE Relay!NoID
        BY <1>1, <2>3 DEF Place, Outcome, Handle, Relay!NoID
      <3>2. Ended("wait", "submitted")
        BY <1>1, <1>2, <3>1, Submitting DEF Ended
      <3>3. body \in Transport!Bodies /\ body # "garbled"
        BY DEF Transport!Bodies
      <3>4. Relay!Submitted(me)
        <4>1. [c \in {me} |-> Place'] = Relay!Set([c \in {me} |-> Place], me, "wait")
          BY <3>2 DEF Ended, Relay!Set
        <4>2. [c \in {me} |-> Outcome'] = Relay!Set([c \in {me} |-> Outcome], me, "submitted")
          BY <3>2 DEF Ended, Relay!Set
        <4>3. [c \in {me} |-> Handle'] =
                Relay!Set([c \in {me} |-> Handle], me,
                          IF body = "json" THEN [c \in {me} |-> Reply][me].id ELSE Relay!NoID)
          BY <2>1, <3>1 DEF Relay!Set
        <4>4. UNCHANGED <<RestOfCall, Relay!chain>>
          BY <3>2, SameRest DEF Ended, Relay!chain
        <4>5. [c \in {me} |-> Place][me] = "submit" /\ [c \in {me} |-> Reply][me].kind = "accepted"
          BY <2>1, <3>2 DEF Ended
        <4>. QED  BY <3>3, <4>1, <4>2, <4>3, <4>4, <4>5
                  DEF Relay!Submitted, Relay!chain, RestOfCall, Reply, Handle, Wire
      <3>. QED  BY <3>4, StepOfCall DEF Relay!CallStep
    <2>4. CASE result'.kind = "value"
      BY <2>3, <2>4
    <2>5. CASE result'.kind = "zero"
      BY <2>3, <2>5
    <2>. QED  BY <1>4, <2>2, <2>4, <2>5 DEF AnsweredYes
  <1>. QED  BY <1>3, <1>4 DEF Answered

LEMMA SendIsSendAttempt == IInv /\ Send => Relay!Next
  <1>. SUFFICES ASSUME IInv, Send PROVE Relay!Next
    OBVIOUS
  <1>1. /\ pc = "send" /\ pc' = "await" /\ ~ctxDone
        /\ inflight' = inflight \cup {attempt}
        /\ answer' = Relay!NoReply
        /\ UNCHANGED <<attempt, result, handled>>
        /\ UNCHANGED <<operation, nonce, deployed, walletNonce, records>>
    BY DEF Send, Transport!Send, signedRequest
  <1>2. attempt \in Nat /\ attempt <= MaxRetries /\ Sent = 0..(attempt - 1)
    BY <1>1 DEF IInv, Loop, SentInOrder
  <1>3. Sent' = 0..((attempt + 1) - 1)
    <2>1. Sent' = Sent \cup {attempt}
      BY <1>1 DEF Sent
    <2>. QED  BY <1>2, <2>1, NextAttempt
  <1>4. Cardinality(Sent) = attempt /\ Cardinality(Sent') = attempt + 1
    BY <1>2, <1>3, CountOfAttempts
  <1>5. UNCHANGED <<Place, Outcome, Handle>> /\ Place = "submit"
    BY <1>1, Submitting DEF Place, Outcome, Handle, IInv, Returned, Transport!Pending
  <1>6. Reply' = Relay!NoReply
    BY <1>1 DEF Reply, Relay!NoReply
  <1>7. Wire(inflight', nonce') =
          Wire(inflight, nonce) \cup {[attempt |-> attempt, nonce |-> nonce]}
    <2>1. Wire(inflight', nonce') = Wire(inflight \cup {attempt}, nonce)
      BY <1>1
    <2>2. Wire(inflight \cup {attempt}, nonce) =
            Wire(inflight, nonce) \cup {[attempt |-> attempt, nonce |-> nonce]}
      BY ZenonT(60), WireGrows
    <2>. QED  BY <2>1, <2>2
  <1>8. Relay!SendAttempt(me)
    <2>1. /\ [c \in {me} |-> Place][me] = "submit"
          /\ [c \in {me} |-> Cardinality(Sent)][me] = attempt
          /\ [c \in {me} |-> nonce][me] = nonce
          /\ [c \in {me} |-> Wire(inflight, nonce)][me] =
               Wire(inflight, nonce)
      BY <1>4, <1>5
    <2>2. [c \in {me} |-> Cardinality(Sent')] =
            Relay!Set([c \in {me} |-> Cardinality(Sent)], me, attempt + 1)
      BY <1>4 DEF Relay!Set
    <2>3. [c \in {me} |-> Wire(inflight', nonce')] =
            Relay!Set([c \in {me} |-> Wire(inflight, nonce)], me,
                      Wire(inflight, nonce)
                        \cup {[attempt |-> attempt, nonce |-> nonce]})
      BY <1>7 DEF Relay!Set
    <2>4. [c \in {me} |-> Reply'] = Relay!Set([c \in {me} |-> Reply], me, Relay!NoReply)
      BY <1>6 DEF Relay!Set
    <2>5. /\ UNCHANGED <<[c \in {me} |-> Place], [c \in {me} |-> operation],
                         [c \in {me} |-> nonce], [c \in {me} |-> Outcome],
                         [c \in {me} |-> Handle]>>
          /\ UNCHANGED Relay!chain
      BY <1>1, <1>5 DEF Relay!chain
    <2>. QED  BY <1>2, <2>1, <2>2, <2>3, <2>4, <2>5
              DEF Relay!SendAttempt, Relay!chain, Reply, Handle, Wire
  <1>. QED  BY <1>8, StepOfCall DEF Relay!CallStep

LEMMA ArrivedIsArrive ==
  ASSUME IInv, NEW a, Arrived(a), TurnedDown(a) \/ TakenUp(a)
  PROVE  Relay!Next
  <1>. DEFINE request == [attempt |-> a, nonce |-> nonce]
  <1>1. /\ a \in inflight /\ inflight' = inflight \ {a}
        /\ UNCHANGED <<pc, result, operation, nonce, deployed, walletNonce>>
    BY DEF Arrived
  <1>2. Sent' = Sent
    BY DEF Arrived, Sent
  <1>3. Place' = Place /\ Outcome' = Outcome
    BY <1>1 DEF Place, Outcome
  <1>4. pc # "done" <=> Place = "submit"
    BY DEF Place
  <1>5. Handle' = Handle
    <2>1. CASE pc = "done"
      BY <1>1, <2>1 DEF TurnedDown, TakenUp, Replied, Handle
    <2>2. CASE pc # "done"
      BY <1>1, <2>2, Submitting DEF Handle
    <2>. QED  BY <2>1, <2>2
  <1>6. /\ request \in Wire(inflight, nonce)
        /\ Wire(inflight', nonce') = Wire(inflight, nonce) \ {request}
    <2>1. Wire(inflight', nonce') = Wire(inflight \ {a}, nonce)
      BY <1>1
    <2>2. Wire(inflight \ {a}, nonce) =
            Wire(inflight, nonce) \ {request}
      BY WireShrinks
    <2>3. request \in Wire(inflight, nonce)
      BY <1>1 DEF Wire
    <2>. QED  BY <2>1, <2>2, <2>3
  <1>7. ASSUME NEW kind \in {"stale", "declined", "accepted"}, NEW id, Replied(a, kind, id)
        PROVE  Relay!Replied(me, request, IF kind = "stale" THEN "declined" ELSE kind, id)
    <2>. DEFINE told == [kind |-> IF kind = "stale" THEN "declined" ELSE kind, id |-> id]
    <2>1. CASE pc # "done" /\ a = Cardinality(Sent) - 1
      <3>1. Reply' = told
        BY <1>7, <2>1 DEF Replied, Reply
      <3>2. [c \in {me} |-> Reply'] = Relay!Set([c \in {me} |-> Reply], me, told)
        BY <3>1 DEF Relay!Set
      <3>3. /\ [c \in {me} |-> Place][me] = "submit"
            /\ request.attempt = [c \in {me} |-> Cardinality(Sent)][me] - 1
        BY <1>4, <2>1
      <3>. QED  BY <3>2, <3>3 DEF Relay!Replied, Reply
    <2>2. CASE ~(pc # "done" /\ a = Cardinality(Sent) - 1)
      <3>1. [c \in {me} |-> Reply'] = [c \in {me} |-> Reply]
        BY <1>7, <2>2 DEF Replied, Reply
      <3>2. ~(/\ [c \in {me} |-> Place][me] = "submit"
              /\ request.attempt = [c \in {me} |-> Cardinality(Sent)][me] - 1)
        BY <1>4, <2>2
      <3>. QED  BY <3>1, <3>2 DEF Relay!Replied, Reply
    <2>. QED  BY <2>1, <2>2
  <1>8. \/ Relay!Replied(me, request, "declined", Relay!NoID) /\ records' = records
        \/ /\ records' = Append(records, [request |-> Relay!SignedAs(me, nonce), state |-> "NEW"])
           /\ Relay!Replied(me, request, "accepted", Len(records) + 1)
    BY <1>7 DEF TurnedDown, TakenUp, NewRecord
  <1>9. Relay!Arrive(me, request)
    <2>1. [c \in {me} |-> Wire(inflight', nonce')] =
            Relay!Set([c \in {me} |-> Wire(inflight, nonce)], me,
                      [c \in {me} |-> Wire(inflight, nonce)][me] \ {request})
      BY <1>6 DEF Relay!Set
    <2>2. UNCHANGED <<[c \in {me} |-> Place], [c \in {me} |-> operation],
                      [c \in {me} |-> IF operation = "SAFE-CREATE" THEN "none" ELSE "transactions"],
                      [c \in {me} |-> nonce], [c \in {me} |-> Cardinality(Sent)],
                      [c \in {me} |-> Outcome], [c \in {me} |-> Handle]>>
      BY <1>1, <1>2, <1>3, <1>5
    <2>3. request.nonce = nonce
      OBVIOUS
    <2>. QED  BY <1>1, <1>8, <2>1, <2>2, <2>3 DEF Relay!Arrive, Handle, Wire
  <1>10. request \in [c \in {me} |-> Wire(inflight, nonce)][me]
    BY <1>6
  <1>. QED  BY <1>9, <1>10 DEF Relay!Next, Relay!RelayerNext, Wire

(***************************************************************************)
(* Every step of a submission, through the transport's attempts, pauses,   *)
(* Retry-After headers and cancellations and the relayer's refusal of      *)
(* stale headers, is a step of RelayClient or one it does not see: there   *)
(* is nothing in a submission that RelayClient leaves out.                 *)
(***************************************************************************)
THEOREM SubmissionIsImplemented == Spec => StepsOfRelayClient
  <1>1. IInv /\ [Next]_vars => [Relay!Next]_(Relay!vars)
    <2>. SUFFICES ASSUME IInv, [Next]_vars PROVE Relay!Next \/ UNCHANGED Relay!vars
      OBVIOUS
    <2>1. CASE CallStep
      BY <2>1, CallStepIs, NoStep, ReturnedErrorIsGiveUp
    <2>2. CASE Pause \/ Wake
      BY <2>2, PauseIs, NoStep
    <2>3. CASE Send
      BY <2>3, SendIsSendAttempt
    <2>4. CASE Receive
      BY <2>4, ReceiveIs, NoStep, AnsweredIsReturn
    <2>5. ASSUME NEW a \in inflight, Arrive(a) PROVE Relay!Next
      BY <2>5, ArriveIs, ArrivedIsArrive
    <2>6. CASE Chain
      BY <2>6 DEF Chain, Relay!Next, Relay!RelayerNext, Relay!IDs
    <2>7. CASE Tick \/ UNCHANGED vars
      BY <2>7, NoStep
    <2>. QED  BY <2>1, <2>2, <2>3, <2>4, <2>5, <2>6, <2>7 DEF Next
  <1>. QED  BY <1>1, Invariant, PTL DEF Spec, StepsOfRelayClient

-----------------------------------------------------------------------------
(* The transport under it *)

(***************************************************************************)
(* A submission is a call of HTTPTransport, whose theorems therefore hold  *)
(* of it: neither its headers, nor a relayer that looks at their age, nor  *)
(* a clock that a pause must wait for, lets the transport do other than    *)
(* it may.                                                                 *)
(***************************************************************************)
THEOREM SubmissionIsTransported == Spec => Transport!Spec
  <1>1. Init => Transport!Init
    BY DEF Init
  <1>2. [Next]_vars => [Transport!Next]_(Transport!vars)
    <2>. SUFFICES ASSUME [Next]_vars PROVE Transport!Next \/ UNCHANGED Transport!vars
      OBVIOUS
    <2>1. CASE CallStep
      BY <2>1 DEF CallStep, Transport!Next, Transport!DoStep
    <2>2. CASE Pause \/ Wake \/ Send \/ Receive
      BY <2>2 DEF Pause, Wake, Send, Receive, Transport!Next, Transport!DoStep
    <2>3. CASE \E a \in inflight : Arrive(a)
      BY <2>3 DEF Arrive, Transport!Next
    <2>4. CASE Chain \/ Tick \/ UNCHANGED vars
      BY <2>4 DEF Chain, Tick, vars, transport, Transport!vars, Transport!client
    <2>. QED  BY <2>1, <2>2, <2>3, <2>4 DEF Next
  <1>. QED  BY <1>1, <1>2, PTL DEF Spec, Transport!Spec

=============================================================================
