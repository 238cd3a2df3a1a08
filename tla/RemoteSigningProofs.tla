------------------------- MODULE RemoteSigningProofs -------------------------
(***************************************************************************)
(* Theorems about RemoteSigning for any number of goroutines, any requests *)
(* and however slow the service is: each goroutine sees what BuilderAuth   *)
(* describes, and is given signatures of its own request.                  *)
(***************************************************************************)
EXTENDS RemoteSigning, TLAPS

-----------------------------------------------------------------------------
(* The inductive invariant *)

\* What is signed at a moment, and over what.
NormalisedAt(t, moment) ==
  IF t = 0 THEN moment
  ELSE IF t < MillisThreshold THEN t * MillisPerSecond
  ELSE t

SignedAt(method, target, t, moment) ==
  Signed(NormalisedAt(t, moment), <<NormalisedAt(t, moment), method, target>>)

\* The timestamp the service is sent: any but 0 is normalised, whatever the moment.
Sent(t) == IF t = 0 THEN 0 ELSE NormalisedAt(t, StartTime)

Types ==
  /\ pc \in [Callers -> {"idle", "remote", "asking", "local"}]
  /\ DOMAIN request = Callers
  /\ startedAt \in [Callers -> Int]
  /\ DOMAIN question = Callers
  /\ DOMAIN answer = Callers
  /\ asked \in [Callers -> BOOLEAN]
  /\ DOMAIN headers = Callers
  /\ DOMAIN result = Callers
  /\ now \in Int

\* A goroutine calls once; before, it has nothing.
OneCall(c) ==
  /\ pc[c] # "idle" => result[c] = "pending"
  /\ result[c] = "none" =>
       headers[c] = NoHeaders /\ ~asked[c] /\ question[c] = Nothing /\ answer[c] = Nothing
  /\ startedAt[c] <= now

\* Only a service with a host is asked.
OwnPlace(c) == pc[c] = "asking" => config.remote = "good"

\* The question is the goroutine's own request, as it was when it asked.
OwnQuestion(c) ==
  question[c] # Nothing =>
    question[c] = [kind |-> "question", token |-> clientToken, method |-> request[c].method,
                   target |-> request[c].target, timestamp |-> Sent(request[c].timestamp)]

\* A signed answer was signed over it, at a moment of the call.
OwnAnswer(c) ==
  answer[c].kind = "signed" =>
    \E moment \in startedAt[c]..now :
      answer[c].headers = SignedAt(ToUpper(request[c].method), request[c].target,
                                   Sent(request[c].timestamp), moment)

Covered(c) ==
  result[c] = "headers" /\ request[c].method = ToUpper(request[c].method) =>
    headers[c].signature = <<headers[c].timestamp, request[c].method, request[c].target>>

CallInv(c) == OneCall(c) /\ OwnPlace(c) /\ OwnQuestion(c) /\ OwnAnswer(c) /\ Covered(c)

IInv == Types /\ \A c \in Callers : CallInv(c)

-----------------------------------------------------------------------------
(* Signing *)

LEMMA SignIsSignedAt ==
  ASSUME NEW method, NEW target, NEW t
  PROVE  Sign(method, target, t) = SignedAt(method, target, t, now)
BY DEF Sign, SignedAt, Normalised, NormalisedAt

LEMMA SignedAtFields ==
  ASSUME NEW method, NEW target, NEW t, NEW moment
  PROVE  LET made == SignedAt(method, target, t, moment)
         IN  /\ made.names = {"key", "passphrase", "signature", "timestamp"}
             /\ made.timestamp = NormalisedAt(t, moment)
             /\ made.signature = <<NormalisedAt(t, moment), method, target>>
BY DEF SignedAt, Signed

LEMMA SentIsNormalised ==
  ASSUME NEW t
  PROVE  Sent(t) = IF t = 0 THEN 0 ELSE Normalised(t)
BY DEF Sent, Normalised, NormalisedAt

LEMMA SignedResponse ==
  ASSUME NEW q, Response(q).kind = "signed"
  PROVE  Response(q).headers = SignedAt(ToUpper(q.method), q.target, q.timestamp, now)
BY SignIsSignedAt DEF Response, Status

-----------------------------------------------------------------------------
(* The invariant is inductive *)

LEMMA NothingIsSigned == Nothing.kind # "signed"
BY DEF Nothing

LEMMA InitInvariant == Init => IInv
<1> SUFFICES ASSUME Init PROVE IInv
  OBVIOUS
<1>1. Types
  <2>1. StartTime \in Int
    BY ClockAssumption
  <2>2. pc \in [Callers -> {"idle", "remote", "asking", "local"}] /\ asked \in [Callers -> BOOLEAN]
    BY DEF Init
  <2>3. startedAt \in [Callers -> Int] /\ now \in Int
    BY <2>1 DEF Init
  <2>4. /\ DOMAIN request = Callers /\ DOMAIN question = Callers /\ DOMAIN answer = Callers
        /\ DOMAIN headers = Callers /\ DOMAIN result = Callers
    BY DEF Init
  <2> QED
    BY <2>2, <2>3, <2>4 DEF Types
<1>2. ASSUME NEW c \in Callers PROVE CallInv(c)
  <2>1. /\ pc[c] = "idle" /\ result[c] = "none" /\ headers[c] = NoHeaders /\ asked[c] = FALSE
        /\ question[c] = Nothing /\ answer[c] = Nothing
        /\ startedAt[c] = StartTime /\ now = StartTime
    BY DEF Init
  <2>2. StartTime <= StartTime
    BY ClockAssumption
  <2> QED
    BY <2>1, <2>2, NothingIsSigned DEF CallInv, OneCall, OwnPlace, OwnQuestion, OwnAnswer, Covered
<1> QED
  BY <1>1, <1>2 DEF IInv

\* A goroutine that does not move, while the clock does not go back.
Still(d) ==
  /\ pc'[d] = pc[d] /\ request'[d] = request[d] /\ startedAt'[d] = startedAt[d]
  /\ question'[d] = question[d] /\ answer'[d] = answer[d] /\ asked'[d] = asked[d]
  /\ headers'[d] = headers[d] /\ result'[d] = result[d]

LEMMA StillInv ==
  ASSUME Types, NEW d \in Callers, CallInv(d), Still(d), UNCHANGED settings,
         now' \in Int, now <= now'
  PROVE  CallInv(d)'
<1>1. startedAt[d] \in Int /\ now \in Int /\ clientToken' = clientToken /\ config' = config
  BY DEF Types, settings
<1>2. OneCall(d)' /\ OwnPlace(d)'
  BY <1>1 DEF CallInv, OneCall, OwnPlace, Still
<1>3. OwnQuestion(d)' /\ Covered(d)'
  BY <1>1 DEF CallInv, OwnQuestion, Covered, Still
<1>4. OwnAnswer(d)'
  <2>1. \A moment \in startedAt[d]..now : moment \in startedAt[d]..now'
    BY <1>1
  <2> QED
    BY <1>1, <2>1 DEF CallInv, OwnAnswer, Still
<1> QED
  BY <1>2, <1>3, <1>4 DEF CallInv

LEMMA StillAtOnce ==
  ASSUME Types, NEW d \in Callers, CallInv(d), Still(d), UNCHANGED settings, now' = now
  PROVE  CallInv(d)'
<1>1. now' \in Int /\ now <= now'
  BY DEF Types
<1> QED
  BY <1>1, StillInv

\* What Proceed, Return and Give do to the goroutine, and to the others.
LEMMA ProceedEffect ==
  ASSUME Types, NEW c \in Callers, NEW place \in {"idle", "remote", "asking", "local"},
         Proceed(c, place)
  PROVE  /\ pc' \in [Callers -> {"idle", "remote", "asking", "local"}]
         /\ pc'[c] = place /\ \A d \in Callers \ {c} : pc'[d] = pc[d]
         /\ UNCHANGED settings /\ request' = request /\ startedAt' = startedAt
         /\ headers' = headers /\ result' = result /\ now' = now
BY DEF Types, Proceed

LEMMA ReturnEffect ==
  ASSUME Types, NEW c \in Callers, NEW reason, Return(c, reason)
  PROVE  /\ pc' \in [Callers -> {"idle", "remote", "asking", "local"}]
         /\ DOMAIN result' = Callers
         /\ pc'[c] = "idle" /\ result'[c] = reason
         /\ \A d \in Callers \ {c} : pc'[d] = pc[d] /\ result'[d] = result[d]
         /\ UNCHANGED settings /\ request' = request /\ startedAt' = startedAt
         /\ headers' = headers /\ question' = question /\ answer' = answer /\ now' = now
BY DEF Types, Return

LEMMA GiveEffect ==
  ASSUME Types, NEW c \in Callers, NEW made, Give(c, made)
  PROVE  /\ pc' \in [Callers -> {"idle", "remote", "asking", "local"}]
         /\ DOMAIN result' = Callers /\ DOMAIN headers' = Callers
         /\ pc'[c] = "idle" /\ result'[c] = "headers" /\ headers'[c] = made
         /\ \A d \in Callers \ {c} :
              pc'[d] = pc[d] /\ result'[d] = result[d] /\ headers'[d] = headers[d]
         /\ UNCHANGED settings /\ request' = request /\ startedAt' = startedAt
         /\ question' = question /\ answer' = answer /\ now' = now
BY DEF Types, Give

LEMMA EntryPlaces == Entry \in {"idle", "remote", "local"}
BY DEF Entry

LEMMA CallHeadersInv ==
  ASSUME IInv, NEW c \in Callers, CallHeaders(c)
  PROVE  IInv'
<1>0. Types /\ (\A d \in Callers : CallInv(d))
  BY DEF IInv
<1>1. PICK r \in Requests : request' = [request EXCEPT ![c] = r]
  BY DEF CallHeaders
<1>2. /\ result[c] = "none"
      /\ startedAt' = [startedAt EXCEPT ![c] = now]
      /\ pc' = [pc EXCEPT ![c] = Entry]
      /\ result' = [result EXCEPT ![c] = IF Entry = "idle" THEN "missing config" ELSE "pending"]
      /\ UNCHANGED settings
      /\ headers' = headers /\ asked' = asked /\ question' = question /\ answer' = answer
      /\ now' = now
  BY DEF CallHeaders
<1>3. Types'
  BY <1>0, <1>1, <1>2, EntryPlaces DEF Types
<1>4. ASSUME NEW d \in Callers \ {c} PROVE CallInv(d)'
  <2>1. Still(d)
    BY <1>0, <1>1, <1>2 DEF Types, Still
  <2> QED
    BY <1>0, <1>2, <2>1, StillAtOnce
<1>5. CallInv(c)'
  <2>1. /\ pc'[c] = Entry /\ startedAt'[c] = now
        /\ result'[c] = IF Entry = "idle" THEN "missing config" ELSE "pending"
        /\ question[c] = Nothing /\ answer[c] = Nothing
    BY <1>0, <1>2 DEF Types, CallInv, OneCall
  <2>2. /\ result'[c] \notin {"none", "headers"} /\ (pc'[c] # "idle" => result'[c] = "pending")
        /\ OwnPlace(c)'
    BY <2>1, EntryPlaces DEF OwnPlace
  <2>3. OneCall(c)'
    <3>1. now \in Int /\ now' = now /\ startedAt'[c] = now
      BY <1>0, <1>2, <2>1 DEF Types
    <3>2. startedAt'[c] <= now'
      BY <3>1
    <3> QED
      BY <2>2, <3>2 DEF OneCall
  <2> QED
    BY <1>2, <2>1, <2>2, <2>3, NothingIsSigned DEF CallInv, OwnQuestion, OwnAnswer, Covered, Nothing
<1> QED
  BY <1>3, <1>4, <1>5 DEF IInv

LEMMA AskInv ==
  ASSUME IInv, NEW c \in Callers, Ask(c)
  PROVE  IInv'
<1>0. Types /\ (\A d \in Callers : CallInv(d))
  BY DEF IInv
<1> DEFINE t == request[c].timestamp
           q == [kind |-> "question", token |-> clientToken, method |-> request[c].method,
                 target |-> request[c].target, timestamp |-> Sent(t)]
<1>1. /\ pc' \in [Callers -> {"idle", "remote", "asking", "local"}]
      /\ pc'[c] = "asking" /\ \A d \in Callers \ {c} : pc'[d] = pc[d]
      /\ UNCHANGED settings /\ request' = request /\ startedAt' = startedAt
      /\ headers' = headers /\ result' = result /\ now' = now
      /\ asked' = asked /\ answer' = answer
  BY <1>0, ProceedEffect DEF Ask
<1>2. question' = [question EXCEPT ![c] = q] /\ pc[c] = "remote" /\ config.remote = "good"
  BY SentIsNormalised DEF Ask
<1>3. Types'
  BY <1>0, <1>1, <1>2 DEF Types
<1>4. ASSUME NEW d \in Callers \ {c} PROVE CallInv(d)'
  <2>1. Still(d)
    BY <1>0, <1>1, <1>2 DEF Types, Still
  <2> QED
    BY <1>0, <1>1, <2>1, StillAtOnce
<1>5. CallInv(c)'
  <2>1. OneCall(c) /\ OwnAnswer(c) /\ Covered(c) /\ result[c] = "pending"
    BY <1>0, <1>2 DEF CallInv, OneCall
  <2>2. OneCall(c)' /\ OwnPlace(c)'
    BY <1>1, <1>2, <2>1 DEF OneCall, OwnPlace, settings
  <2>3. OwnQuestion(c)'
    BY <1>0, <1>1, <1>2 DEF OwnQuestion, Types, settings
  <2>4. OwnAnswer(c)' /\ Covered(c)'
    BY <1>1, <2>1 DEF OwnAnswer, Covered
  <2> QED
    BY <2>2, <2>3, <2>4 DEF CallInv
<1> QED
  BY <1>3, <1>4, <1>5 DEF IInv

\* Headers are handed over that are signed over the request, if not in lower case.
LEMMA GiveInv ==
  ASSUME IInv, NEW c \in Callers, NEW made, Give(c, made), pc[c] # "idle",
         asked' \in [Callers -> BOOLEAN], \A d \in Callers \ {c} : asked'[d] = asked[d],
         request[c].method = ToUpper(request[c].method) =>
           made.signature = <<made.timestamp, request[c].method, request[c].target>>
  PROVE  IInv'
<1>0. Types /\ (\A d \in Callers : CallInv(d))
  BY DEF IInv
<1>1. /\ pc' \in [Callers -> {"idle", "remote", "asking", "local"}]
      /\ DOMAIN result' = Callers /\ DOMAIN headers' = Callers
      /\ pc'[c] = "idle" /\ result'[c] = "headers" /\ headers'[c] = made
      /\ \A d \in Callers \ {c} :
           pc'[d] = pc[d] /\ result'[d] = result[d] /\ headers'[d] = headers[d]
      /\ UNCHANGED settings /\ request' = request /\ startedAt' = startedAt
      /\ question' = question /\ answer' = answer /\ now' = now
  BY <1>0, GiveEffect
<1>2. Types'
  BY <1>0, <1>1 DEF Types
<1>3. ASSUME NEW d \in Callers \ {c} PROVE CallInv(d)'
  <2>1. Still(d)
    BY <1>1 DEF Still
  <2> QED
    BY <1>0, <1>1, <2>1, StillAtOnce
<1>4. CallInv(c)'
  <2>1. OneCall(c) /\ OwnQuestion(c) /\ OwnAnswer(c)
    BY <1>0 DEF CallInv
  <2>2. OneCall(c)' /\ OwnPlace(c)' /\ Covered(c)'
    BY <1>1, <2>1 DEF OneCall, OwnPlace, Covered, ToUpper
  <2>3. OwnQuestion(c)' /\ OwnAnswer(c)'
    BY <1>1, <2>1 DEF OwnQuestion, OwnAnswer, settings
  <2> QED
    BY <2>1, <2>2, <2>3 DEF CallInv
<1> QED
  BY <1>2, <1>3, <1>4 DEF IInv

\* The signer is given up, or the call.
LEMMA FailureInv ==
  ASSUME IInv, NEW c \in Callers, pc[c] # "idle",
         \/ Proceed(c, "local") /\ UNCHANGED <<question, answer>>
         \/ \E reason \in {"signer failed", "missing config", "both failed", "bad secret"} :
              Return(c, reason),
         asked' \in [Callers -> BOOLEAN], \A d \in Callers \ {c} : asked'[d] = asked[d]
  PROVE  IInv'
<1>0. Types /\ (\A d \in Callers : CallInv(d))
  BY DEF IInv
<1>1. /\ pc' \in [Callers -> {"idle", "remote", "asking", "local"}]
      /\ DOMAIN result' = Callers
      /\ \/ pc'[c] = "local" /\ result'[c] = result[c]
         \/ pc'[c] = "idle" /\ result'[c] \notin {"none", "pending", "headers"}
      /\ \A d \in Callers \ {c} : pc'[d] = pc[d] /\ result'[d] = result[d]
      /\ UNCHANGED settings /\ request' = request /\ startedAt' = startedAt
      /\ headers' = headers /\ question' = question /\ answer' = answer /\ now' = now
  <2>1. CASE Proceed(c, "local") /\ UNCHANGED <<question, answer>>
    BY <1>0, <2>1, ProceedEffect DEF Types
  <2>2. ASSUME NEW reason \in {"signer failed", "missing config", "both failed", "bad secret"},
               Return(c, reason)
        PROVE  <1>1!1
    BY <1>0, <2>2, ReturnEffect
  <2> QED
    BY <2>1, <2>2, <1>0, ReturnEffect
<1>2. Types'
  BY <1>0, <1>1 DEF Types
<1>3. ASSUME NEW d \in Callers \ {c} PROVE CallInv(d)'
  <2>1. Still(d)
    BY <1>1 DEF Still
  <2> QED
    BY <1>0, <1>1, <2>1, StillAtOnce
<1>4. CallInv(c)'
  <2>1. OneCall(c) /\ OwnQuestion(c) /\ OwnAnswer(c) /\ Covered(c)
    BY <1>0 DEF CallInv
  <2>2. OneCall(c)' /\ OwnPlace(c)' /\ Covered(c)'
    BY <1>1, <2>1 DEF OneCall, OwnPlace, Covered
  <2>3. OwnQuestion(c)' /\ OwnAnswer(c)'
    BY <1>1, <2>1 DEF OwnQuestion, OwnAnswer, settings
  <2> QED
    BY <2>2, <2>3 DEF CallInv
<1> QED
  BY <1>2, <1>3, <1>4 DEF IInv

LEMMA HandleInv ==
  ASSUME IInv, NEW c \in Callers, Handle(c)
  PROVE  IInv'
<1>0. Types /\ (\A d \in Callers : CallInv(d))
  BY DEF IInv
<1>1. /\ question[c] # Nothing
      /\ question' = [question EXCEPT ![c] = Nothing]
      /\ UNCHANGED settings /\ now' = now
      /\ pc' = pc /\ request' = request /\ startedAt' = startedAt /\ asked' = asked
      /\ headers' = headers /\ result' = result
  BY DEF Handle, callVars
<1>2. /\ answer' = IF pc[c] = "asking" THEN [answer EXCEPT ![c] = Response(question[c])] ELSE answer
      /\ DOMAIN answer' = Callers
      /\ \A d \in Callers \ {c} : answer'[d] = answer[d]
      /\ answer'[c] = Response(question[c]) \/ answer'[c] = answer[c]
  BY <1>0 DEF Handle, Types
<1>3. Types'
  BY <1>0, <1>1, <1>2 DEF Types
<1>4. ASSUME NEW d \in Callers \ {c} PROVE CallInv(d)'
  <2>1. Still(d)
    BY <1>0, <1>1, <1>2 DEF Still, Types
  <2> QED
    BY <1>0, <1>1, <2>1, StillAtOnce
<1>5. CallInv(c)'
  <2>1. OneCall(c) /\ OwnPlace(c) /\ OwnQuestion(c) /\ OwnAnswer(c) /\ Covered(c)
    BY <1>0 DEF CallInv
  <2>2. question'[c] = Nothing
    BY <1>0, <1>1 DEF Types
  <2>3. OneCall(c)' /\ OwnPlace(c)' /\ OwnQuestion(c)' /\ Covered(c)'
    <3>1. result[c] # "none"
      BY <1>1, <2>1 DEF OneCall
    <3> QED
      BY <1>1, <2>1, <2>2, <3>1 DEF OneCall, OwnPlace, OwnQuestion, Covered, settings
  <2>4. OwnAnswer(c)'
    <3>1. CASE answer'[c] = answer[c]
      BY <1>1, <2>1, <3>1 DEF OwnAnswer
    <3>2. CASE answer'[c] = Response(question[c]) /\ answer'[c].kind = "signed"
      <4> DEFINE q == question[c]
      <4>1. q.method = request[c].method /\ q.target = request[c].target
            /\ q.timestamp = Sent(request[c].timestamp)
        BY <1>1, <2>1 DEF OwnQuestion
      <4>2. answer'[c].headers = SignedAt(ToUpper(q.method), q.target, q.timestamp, now)
        BY <3>2, SignedResponse
      <4>3. now \in startedAt[c]..now
        BY <1>0, <2>1 DEF Types, OneCall
      <4> QED
        BY <1>1, <4>1, <4>2, <4>3 DEF OwnAnswer
    <3> QED
      BY <1>2, <3>1, <3>2 DEF OwnAnswer
  <2> QED
    BY <2>3, <2>4 DEF CallInv
<1> QED
  BY <1>3, <1>4, <1>5 DEF IInv

LEMMA TickInv ==
  ASSUME IInv, Tick
  PROVE  IInv'
<1>1. /\ now \in Int /\ now' \in Int /\ now <= now'
      /\ UNCHANGED settings
      /\ pc' = pc /\ request' = request /\ startedAt' = startedAt /\ asked' = asked
      /\ headers' = headers /\ result' = result /\ question' = question /\ answer' = answer
  BY DEF IInv, Types, Tick, callVars
<1>2. Types'
  BY <1>1 DEF IInv, Types
<1>3. ASSUME NEW d \in Callers PROVE CallInv(d)'
  BY <1>1, StillInv DEF IInv, Still
<1> QED
  BY <1>2, <1>3 DEF IInv

\* What a goroutine is given, by whoever signs.
LEMMA TakenCovers ==
  ASSUME IInv, NEW c \in Callers, answer[c].kind = "signed",
         request[c].method = ToUpper(request[c].method)
  PROVE  answer[c].headers.signature =
           <<answer[c].headers.timestamp, request[c].method, request[c].target>>
<1>1. PICK moment \in startedAt[c]..now :
        answer[c].headers = SignedAt(ToUpper(request[c].method), request[c].target,
                                     Sent(request[c].timestamp), moment)
  BY DEF IInv, CallInv, OwnAnswer
<1> QED
  BY <1>1, SignedAtFields

LEMMA CallStepInv ==
  ASSUME IInv, NEW c \in Callers, CallStep(c)
  PROVE  IInv'
<1>0. Types
  BY DEF IInv
<1>1. CASE Ask(c)
  BY <1>1, AskInv
<1>2. CASE Take(c)
  <2>1. /\ asked' \in [Callers -> BOOLEAN] /\ \A d \in Callers \ {c} : asked'[d] = asked[d]
        /\ Give(c, answer[c].headers) /\ pc[c] # "idle" /\ answer[c].kind = "signed"
    BY <1>0, <1>2 DEF Take, Types
  <2> QED
    BY <2>1, TakenCovers, GiveInv
<1>3. CASE RemoteFails(c)
  <2>1. /\ asked' \in [Callers -> BOOLEAN] /\ \A d \in Callers \ {c} : asked'[d] = asked[d]
        /\ pc[c] # "idle"
    BY <1>0, <1>3 DEF RemoteFails, Types
  <2>2. \/ Proceed(c, "local") /\ UNCHANGED <<question, answer>>
        \/ \E reason \in {"signer failed", "missing config", "both failed", "bad secret"} :
             Return(c, reason)
    BY <1>3 DEF RemoteFails
  <2> QED
    BY <2>1, <2>2, FailureInv
<1>4. CASE LocalSigns(c)
  <2> DEFINE made == Sign(request[c].method, request[c].target, request[c].timestamp)
  <2>1. /\ asked' \in [Callers -> BOOLEAN] /\ \A d \in Callers \ {c} : asked'[d] = asked[d]
        /\ Give(c, made) /\ pc[c] # "idle"
    BY <1>0, <1>4 DEF LocalSigns, Types
  <2>2. made.signature = <<made.timestamp, request[c].method, request[c].target>>
    BY SignIsSignedAt, SignedAtFields
  <2> HIDE DEF made
  <2> QED
    BY <2>1, <2>2, GiveInv
<1>5. CASE LocalFails(c)
  <2>1. /\ asked' \in [Callers -> BOOLEAN] /\ \A d \in Callers \ {c} : asked'[d] = asked[d]
        /\ pc[c] # "idle"
    BY <1>0, <1>5 DEF LocalFails, Types
  <2>2. \E reason \in {"signer failed", "missing config", "both failed", "bad secret"} :
          Return(c, reason)
    BY <1>5 DEF LocalFails
  <2> QED
    BY <2>1, <2>2, FailureInv
<1> QED
  BY <1>1, <1>2, <1>3, <1>4, <1>5 DEF CallStep

LEMMA InvariantIsInductive == IInv /\ [Next]_vars => IInv'
<1> SUFFICES ASSUME IInv, [Next]_vars PROVE IInv'
  OBVIOUS
<1>1. ASSUME NEW c \in Callers, CallHeaders(c) PROVE IInv'
  BY <1>1, CallHeadersInv
<1>2. ASSUME NEW c \in Callers, CallStep(c) PROVE IInv'
  BY <1>2, CallStepInv
<1>3. ASSUME NEW c \in Callers, Handle(c) PROVE IInv'
  BY <1>3, HandleInv
<1>4. CASE Tick
  BY <1>4, TickInv
<1>5. CASE UNCHANGED vars
  <2>1. /\ now' = now /\ UNCHANGED settings
        /\ pc' = pc /\ request' = request /\ startedAt' = startedAt /\ asked' = asked
        /\ headers' = headers /\ result' = result /\ question' = question /\ answer' = answer
    BY <1>5 DEF vars, callVars
  <2>2. Types'
    BY <2>1 DEF IInv, Types
  <2>3. ASSUME NEW d \in Callers PROVE CallInv(d)'
    BY <2>1, StillAtOnce DEF IInv, Still
  <2> QED
    BY <2>2, <2>3 DEF IInv
<1> QED
  BY <1>1, <1>2, <1>3, <1>4, <1>5 DEF Next

LEMMA Invariance == Spec => []IInv
<1> QED
  BY InitInvariant, InvariantIsInductive, PTL DEF Spec

(***************************************************************************)
(* However many goroutines there are, however late the service signs and   *)
(* answers, and whoever signed: the headers a goroutine is given are       *)
(* signed over the timestamp they carry and its own request, if its method *)
(* is in upper case.                                                       *)
(***************************************************************************)
THEOREM SignaturesAreOwn == Spec => []SignatureCoversRequest
<1>1. IInv => SignatureCoversRequest
  BY DEF IInv, CallInv, Covered, SignatureCoversRequest
<1> QED
  BY Invariance, <1>1, PTL

-----------------------------------------------------------------------------
(* Each goroutine's call is one of BuilderAuth *)

\* What BuilderAuth sees of a goroutine does not change.
LEMMA Unseen ==
  ASSUME NEW d \in Callers, config' = config, now' = now,
         pc'[d] = pc[d] \/ (pc[d] = "remote" /\ pc'[d] = "asking"),
         request'[d] = request[d], startedAt'[d] = startedAt[d], asked'[d] = asked[d],
         headers'[d] = headers[d], result'[d] = result[d]
  PROVE  UNCHANGED Auth(d)!vars
BY DEF Auth!vars, Auth!request

LEMMA NoHeadersFields == NoHeaders.names = {} /\ NoHeaders.timestamp = 0
BY DEF NoHeaders

LEMMA CallHeadersIsCall ==
  ASSUME IInv, NEW c \in Callers, CallHeaders(c)
  PROVE  Auth(c)!CallHeaders
<1>1. PICK r \in Requests : request' = [request EXCEPT ![c] = r]
  BY DEF CallHeaders
<1>2. Types /\ OneCall(c)
  BY DEF IInv, CallInv
<1>3. /\ pc[c] = "idle" /\ result[c] = "none" /\ headers[c] = NoHeaders /\ asked[c] = FALSE
      /\ request'[c] = r /\ startedAt'[c] = now /\ pc'[c] = Entry
      /\ result'[c] = IF Entry = "idle" THEN "missing config" ELSE "pending"
      /\ config' = config /\ now' = now /\ headers' = headers /\ asked' = asked
  BY <1>1, <1>2 DEF CallHeaders, Types, OneCall, settings
<1>4. r.timestamp \in Timestamps
  BY RequestsAssumption
<1>5. Auth(c)!Fresh("Headers", r.timestamp)
  <2>1. /\ (IF pc[c] = "asking" THEN "remote" ELSE pc[c]) = "idle"
        /\ (IF result[c] = "none" THEN 0 ELSE 1) = 0
        /\ (IF result'[c] = "none" THEN 0 ELSE 1) = 1
        /\ (IF result'[c] = "none" THEN "none" ELSE "Headers") = "Headers"
    BY <1>3
  <2>2. [names |-> headers'[c].names, timestamp |-> headers'[c].timestamp] = Auth(c)!NoHeaders
    <3>1. headers'[c].names = {} /\ headers'[c].timestamp = 0
      BY <1>3, NoHeadersFields
    <3> QED
      BY <3>1 DEF Auth!NoHeaders
  <2>3. /\ (IF result[c] = "none" THEN 0 ELSE 1) < 1
        /\ (IF result'[c] = "none" THEN 0 ELSE 1) = (IF result[c] = "none" THEN 0 ELSE 1) + 1
    BY <2>1
  <2>4. asked'[c] = FALSE /\ request'[c].timestamp = r.timestamp /\ startedAt'[c] = now
    BY <1>3
  <2> QED
    BY <1>3, <2>1, <2>2, <2>3, <2>4 DEF Auth!Fresh
<1>6. Auth(c)!Headers
  BY <1>3 DEF Auth!Headers, Auth!FallsBack, Entry, FallsBack
<1> QED
  BY <1>4, <1>5, <1>6 DEF Auth!CallHeaders

\* The service's moment is a moment of the call, and its timestamp the one sent to it.
LEMMA ServiceTimestamp ==
  ASSUME NEW c \in Callers, NEW t, NEW moment
  PROVE  NormalisedAt(Sent(t), moment) =
           Auth(c)!normalizeBuilderTimestamp(Auth(c)!SentToSigner(t), moment)
<1>1. \A k, m : NormalisedAt(k, m) = Auth(c)!normalizeBuilderTimestamp(k, m)
  BY DEF NormalisedAt, Auth!normalizeBuilderTimestamp
<1>2. Sent(t) = Auth(c)!SentToSigner(t)
  BY <1>1 DEF Sent, NormalisedAt, Auth!SentToSigner, Auth!normalizeBuilderTimestamp
<1> QED
  BY <1>1, <1>2

\* Headers are handed to the application.
LEMMA GiveIsMade ==
  ASSUME IInv, NEW c \in Callers, NEW made, Give(c, made), result[c] = "pending",
         NEW seen, seen = [names |-> made.names, timestamp |-> made.timestamp]
  PROVE  Auth(c)!Made(seen)
<1>1. /\ pc'[c] = "idle" /\ result'[c] = "headers" /\ headers'[c] = made
      /\ config' = config /\ request' = request /\ startedAt' = startedAt /\ now' = now
  BY GiveEffect DEF IInv, settings
<1> QED
  BY <1>1 DEF Auth!Made, Auth!request

LEMMA TakeIsSigning ==
  ASSUME IInv, NEW c \in Callers, Take(c)
  PROVE  Auth(c)!RemoteSigns
<1>1. Types /\ OneCall(c) /\ OwnAnswer(c) /\ OwnPlace(c)
  BY DEF IInv, CallInv
<1>2. /\ pc[c] = "asking" /\ answer[c].kind = "signed" /\ result[c] = "pending"
      /\ Give(c, answer[c].headers) /\ asked'[c] = TRUE /\ config.remote = "good"
  BY <1>1 DEF Take, Types, OneCall, OwnPlace
<1>3. PICK moment \in startedAt[c]..now :
        answer[c].headers = SignedAt(ToUpper(request[c].method), request[c].target,
                                     Sent(request[c].timestamp), moment)
  BY <1>1, <1>2 DEF OwnAnswer
<1> DEFINE given == Auth(c)!SentToSigner(request[c].timestamp)
<1>4. Auth(c)!Signed(given, moment) =
        [names |-> answer[c].headers.names, timestamp |-> answer[c].headers.timestamp]
  <2>1. answer[c].headers.names = Auth(c)!HeaderNames
    BY <1>3, SignedAtFields DEF Auth!HeaderNames
  <2>2. answer[c].headers.timestamp = Auth(c)!normalizeBuilderTimestamp(given, moment)
    BY <1>3, SignedAtFields, ServiceTimestamp
  <2> QED
    BY <2>1, <2>2 DEF Auth!Signed
<1>5. Auth(c)!Made(Auth(c)!Signed(given, moment))
  BY <1>2, <1>4, GiveIsMade
<1> QED
  BY <1>2, <1>5 DEF Auth!RemoteSigns

LEMMA LocalIsLocal ==
  ASSUME IInv, NEW c \in Callers, LocalSigns(c)
  PROVE  Auth(c)!LocalSigns
<1> DEFINE made == Sign(request[c].method, request[c].target, request[c].timestamp)
<1>1. /\ pc[c] = "local" /\ result[c] = "pending" /\ config.local = "good"
      /\ Give(c, made) /\ asked' = asked
  BY DEF LocalSigns, IInv, CallInv, OneCall
<1>2. Auth(c)!Signed(request[c].timestamp, now) =
        [names |-> made.names, timestamp |-> made.timestamp]
  <2>1. made.names = Auth(c)!HeaderNames
    BY SignIsSignedAt, SignedAtFields DEF Auth!HeaderNames
  <2>2. made.timestamp = NormalisedAt(request[c].timestamp, now)
    BY SignIsSignedAt, SignedAtFields
  <2>3. made.timestamp = Auth(c)!normalizeBuilderTimestamp(request[c].timestamp, now)
    BY <2>2 DEF NormalisedAt, Auth!normalizeBuilderTimestamp
  <2> HIDE DEF made
  <2> QED
    BY <2>1, <2>3 DEF Auth!Signed
<1> HIDE DEF made
<1>3. Auth(c)!Made(Auth(c)!Signed(request[c].timestamp, now))
  BY <1>1, <1>2, GiveIsMade
<1> QED
  BY <1>1, <1>3 DEF Auth!LocalSigns

\* A call returns an error.
LEMMA ReturnIsReturn ==
  ASSUME IInv, NEW c \in Callers, NEW reason, Return(c, reason), result[c] = "pending",
         reason # "none"
  PROVE  Auth(c)!Return(reason)
<1>1. /\ pc'[c] = "idle" /\ result'[c] = reason /\ headers' = headers
      /\ config' = config /\ request' = request /\ startedAt' = startedAt /\ now' = now
  BY ReturnEffect DEF IInv, settings
<1> QED
  BY <1>1 DEF Auth!Return, Auth!request

LEMMA RemoteFailsIsFailure ==
  ASSUME IInv, NEW c \in Callers, RemoteFails(c)
  PROVE  Auth(c)!RemoteFails
<1>1. Types /\ OneCall(c)
  BY DEF IInv, CallInv
<1>2. /\ pc[c] \in {"remote", "asking"} /\ result[c] = "pending"
      /\ asked'[c] = (config.remote = "good")
  BY <1>1 DEF RemoteFails, Types, OneCall
<1>3. Auth(c)!FallsBack <=> FallsBack
  BY DEF Auth!FallsBack, FallsBack
<1>4. CASE FallsBack
  <2>1. /\ pc'[c] = "local" /\ headers' = headers /\ result' = result
        /\ config' = config /\ request' = request /\ startedAt' = startedAt /\ now' = now
    BY <1>1, <1>4, ProceedEffect DEF RemoteFails, settings
  <2> QED
    BY <1>2, <1>3, <1>4, <2>1 DEF Auth!RemoteFails, Auth!request
<1>5. CASE ~FallsBack
  <2> DEFINE reason == IF config.remote = "good" THEN "signer failed" ELSE "missing config"
  <2>1. Return(c, reason) /\ reason # "none"
    BY <1>5 DEF RemoteFails
  <2>2. Auth(c)!Return(reason)
    BY <1>2, <2>1, ReturnIsReturn
  <2> QED
    BY <1>2, <1>3, <1>5, <2>2 DEF Auth!RemoteFails
<1> QED
  BY <1>4, <1>5

LEMMA LocalFailsIsFailure ==
  ASSUME IInv, NEW c \in Callers, LocalFails(c)
  PROVE  Auth(c)!LocalFails
<1> DEFINE reason == IF FallsBack THEN "both failed"
                     ELSE IF config.local = "incomplete" THEN "missing config" ELSE "bad secret"
<1>1. /\ pc[c] = "local" /\ result[c] = "pending" /\ config.local # "good"
      /\ Return(c, reason) /\ asked' = asked /\ reason # "none"
  BY DEF LocalFails, IInv, CallInv, OneCall
<1>2. Auth(c)!FallsBack <=> FallsBack
  BY DEF Auth!FallsBack, FallsBack
<1>3. Auth(c)!Return(reason)
  BY <1>1, ReturnIsReturn
<1> QED
  BY <1>1, <1>2, <1>3 DEF Auth!LocalFails

AuthStep(d) == [Auth(d)!Next]_(Auth(d)!vars)

LEMMA StepsImplement == IInv /\ [Next]_vars => \A d \in Callers : AuthStep(d)
<1> SUFFICES ASSUME IInv, [Next]_vars, NEW d \in Callers
             PROVE  Auth(d)!Next \/ UNCHANGED Auth(d)!vars
  BY DEF AuthStep
<1>0. Types
  BY DEF IInv
<1>1. ASSUME NEW c \in Callers, CallHeaders(c) PROVE Auth(d)!Next \/ UNCHANGED Auth(d)!vars
  <2>1. CASE c = d
    BY <1>1, <2>1, CallHeadersIsCall DEF Auth!Next
  <2>2. CASE c # d
    BY <1>0, <1>1, <2>2, Unseen DEF CallHeaders, Types, settings
  <2> QED
    BY <2>1, <2>2
<1>2. ASSUME NEW c \in Callers, Ask(c) PROVE UNCHANGED Auth(d)!vars
  BY <1>0, <1>2, ProceedEffect, Unseen DEF Ask, settings
<1>3. ASSUME NEW c \in Callers, Take(c) PROVE Auth(d)!Next \/ UNCHANGED Auth(d)!vars
  <2>1. CASE c = d
    BY <1>3, <2>1, TakeIsSigning DEF Auth!Next
  <2>2. CASE c # d
    BY <1>0, <1>3, <2>2, GiveEffect, Unseen DEF Take, Types, settings
  <2> QED
    BY <2>1, <2>2
<1>4. ASSUME NEW c \in Callers, RemoteFails(c) PROVE Auth(d)!Next \/ UNCHANGED Auth(d)!vars
  <2>1. CASE c = d
    BY <1>4, <2>1, RemoteFailsIsFailure DEF Auth!Next
  <2>2. CASE c # d
    <3>1. asked'[d] = asked[d]
      BY <1>0, <1>4, <2>2 DEF RemoteFails, Types
    <3>2. Proceed(c, "local") \/ \E reason : Return(c, reason)
      BY <1>4 DEF RemoteFails
    <3> QED
      BY <1>0, <2>2, <3>1, <3>2, ProceedEffect, ReturnEffect, Unseen DEF settings
  <2> QED
    BY <2>1, <2>2
<1>5. ASSUME NEW c \in Callers, LocalSigns(c) PROVE Auth(d)!Next \/ UNCHANGED Auth(d)!vars
  <2>1. CASE c = d
    BY <1>5, <2>1, LocalIsLocal DEF Auth!Next
  <2>2. CASE c # d
    BY <1>0, <1>5, <2>2, GiveEffect, Unseen DEF LocalSigns, settings
  <2> QED
    BY <2>1, <2>2
<1>6. ASSUME NEW c \in Callers, LocalFails(c) PROVE Auth(d)!Next \/ UNCHANGED Auth(d)!vars
  <2>1. CASE c = d
    BY <1>6, <2>1, LocalFailsIsFailure DEF Auth!Next
  <2>2. CASE c # d
    BY <1>0, <1>6, <2>2, ReturnEffect, Unseen DEF LocalFails, settings
  <2> QED
    BY <2>1, <2>2
<1>7. ASSUME NEW c \in Callers, Handle(c) PROVE UNCHANGED Auth(d)!vars
  BY <1>7, Unseen DEF Handle, settings, callVars
<1>8. CASE Tick
  BY <1>8 DEF Tick, settings, callVars, Auth!Next, Auth!Tick, Auth!request
<1>9. CASE UNCHANGED vars
  BY <1>9, Unseen DEF vars, settings, callVars
<1> QED
  BY <1>1, <1>2, <1>3, <1>4, <1>5, <1>6, <1>7, <1>8, <1>9 DEF Next, CallStep

(***************************************************************************)
(* However many goroutines share the client and however slow the service   *)
(* is, every step is one BuilderAuth allows, or none, in the eyes of each. *)
(***************************************************************************)
THEOREM AuthIsImplemented == Spec => StepsOfBuilderAuth
<1>1. IInv /\ [Next]_vars => [\A c \in Callers : [Auth(c)!Next]_(Auth(c)!vars)]_vars
  BY StepsImplement DEF AuthStep
<1> QED
  BY <1>1, Invariance, PTL DEF Spec, StepsOfBuilderAuth

(***************************************************************************)
(* Each goroutine's call is a behaviour of BuilderAuth as a whole, whose   *)
(* theorems therefore hold of it, with what they assume of the constants.  *)
(***************************************************************************)
THEOREM EachCallIsOneOfBuilderAuth ==
  ASSUME NEW c \in Callers
  PROVE  Spec => Auth(c)!Spec
<1>1. Init => Auth(c)!Init
  <2> SUFFICES ASSUME Init PROVE Auth(c)!Init
    OBVIOUS
  <2>1. /\ pc[c] = "idle" /\ request[c] = NoRequest /\ startedAt[c] = StartTime
        /\ asked[c] = FALSE /\ headers[c] = NoHeaders /\ result[c] = "none" /\ now = StartTime
        /\ config \in Auth(c)!Configs
    BY DEF Init, Auth!Configs
  <2>2. [names |-> headers[c].names, timestamp |-> headers[c].timestamp] = Auth(c)!NoHeaders
    BY <2>1, NoHeadersFields DEF Auth!NoHeaders
  <2>3. request[c].timestamp = 0
    <3>1. NoRequest.timestamp = 0
      BY DEF NoRequest
    <3> QED
      BY <2>1, <3>1
  <2> QED
    BY <2>1, <2>2, <2>3 DEF Auth!Init
<1>2. IInv /\ [Next]_vars => [Auth(c)!Next]_(Auth(c)!vars)
  BY StepsImplement DEF AuthStep
<1> QED
  BY <1>1, <1>2, Invariance, PTL DEF Spec, Auth!Spec

=============================================================================
