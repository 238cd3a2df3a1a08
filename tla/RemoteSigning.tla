--------------------------- MODULE RemoteSigning ---------------------------
(***************************************************************************)
(* BuilderConfig.Headers called by several goroutines of one client, and   *)
(* the signer service of examples/remote_signer_server they ask.           *)
(* BuilderAuth takes a question to the service as one step, answered or    *)
(* not; here it travels, is signed at the service's own moment, travels    *)
(* back, and meets a client that may have stopped waiting.                 *)
(*                                                                         *)
(* A signature is the tuple of what the HMAC is computed over.             *)
(***************************************************************************)
EXTENDS Integers

CONSTANTS
  MillisPerSecond, MillisThreshold, Timestamps, StartTime, Horizon,  \* as in BuilderAuth
  Callers,   \* goroutines
  Requests,  \* what Headers may be called with: the method (a verb, "" if none, in
             \* the case the application writes it in), the target (path and body,
             \* "" if no path), the timestamp
  Tokens     \* bearer tokens, "" if there is none

ASSUME ClockAssumption == StartTime \in Nat /\ Horizon \in Nat
ASSUME RequestsAssumption ==
  Requests \subseteq
    [method : [verb : STRING, case : {"upper", "lower", "mixed"}],
     target : STRING, timestamp : Timestamps]

VARIABLES
  config,      \* the BuilderConfig all of them use
  clientToken, \* the token it sends
  service,     \* the service's token and secret
  pc,          \* where each call is
  request,     \* the method, target and timestamp Headers was called with
  startedAt,   \* when it was called
  question,    \* what is on its way to the service
  answer,      \* what is on its way back
  asked,       \* the call is over with the remote signer
  headers,     \* the headers made
  result,      \* what Headers returned
  now          \* the clock

settings == <<config, clientToken, service>>
callVars == <<pc, request, startedAt, asked, headers, result>>
vars == <<settings, callVars, question, answer, now>>

NoRequest == [method |-> [verb |-> "", case |-> "upper"], target |-> "", timestamp |-> 0]
NoHeaders == [names |-> {}, timestamp |-> 0, signature |-> <<>>]
Nothing == [kind |-> "nothing"]

(***************************************************************************)
(* A goroutine's call as BuilderAuth sees it.                              *)
(***************************************************************************)
Auth(c) == INSTANCE BuilderAuth WITH
  MaxRetries <- 0,
  Window     <- 0,
  MaxCalls   <- 1,
  pc         <- IF pc[c] = "asking" THEN "remote" ELSE pc[c],
  method     <- IF result[c] = "none" THEN "none" ELSE "Headers",
  given      <- request[c].timestamp,
  startedAt  <- startedAt[c],
  headers    <- [names |-> headers[c].names, timestamp |-> headers[c].timestamp],
  asked      <- asked[c],
  attempt    <- 0,
  result     <- result[c],
  calls      <- IF result[c] = "none" THEN 0 ELSE 1

Init ==
  /\ config \in [local : {"absent", "incomplete", "undecodable", "good"},
                 remote : {"absent", "no host", "good"},
                 RemoteFallbackLocal : BOOLEAN]
  /\ clientToken \in Tokens
  /\ service \in [token : Tokens, secret : {"undecodable", "good"}]
  /\ pc = [c \in Callers |-> "idle"]
  /\ request = [c \in Callers |-> NoRequest]
  /\ startedAt = [c \in Callers |-> StartTime]
  /\ question = [c \in Callers |-> Nothing]
  /\ answer = [c \in Callers |-> Nothing]
  /\ asked = [c \in Callers |-> FALSE]
  /\ headers = [c \in Callers |-> NoHeaders]
  /\ result = [c \in Callers |-> "none"]
  /\ now = StartTime

-----------------------------------------------------------------------------
(* Signing *)

Normalised(timestamp) ==
  IF timestamp = 0 THEN now
  ELSE IF timestamp < MillisThreshold THEN timestamp * MillisPerSecond
  ELSE timestamp

Signed(timestamp, signature) ==
  [names |-> {"key", "passphrase", "signature", "timestamp"},
   timestamp |-> timestamp, signature |-> signature]

\* Mutant of Sign: the timestamp is signed before it is normalised.
SignRaw(method, target, timestamp) ==
  Signed(Normalised(timestamp), <<timestamp, method, target>>)

\* buildBuilderHeadersLocal, of the client or of the service.
Sign(method, target, timestamp) ==
  Signed(Normalised(timestamp), <<Normalised(timestamp), method, target>>)

\* strings.ToUpper, of any method.
ToUpper(method) == [method EXCEPT !.case = "upper"]

-----------------------------------------------------------------------------
(* The client *)

Proceed(c, place) ==
  /\ pc' = [pc EXCEPT ![c] = place]
  /\ UNCHANGED <<settings, request, startedAt, headers, result, now>>

Return(c, reason) ==
  /\ pc' = [pc EXCEPT ![c] = "idle"]
  /\ result' = [result EXCEPT ![c] = reason]
  /\ UNCHANGED <<settings, request, startedAt, headers, question, answer, now>>

Give(c, made) ==
  /\ pc' = [pc EXCEPT ![c] = "idle"]
  /\ result' = [result EXCEPT ![c] = "headers"]
  /\ headers' = [headers EXCEPT ![c] = made]
  /\ UNCHANGED <<settings, request, startedAt, question, answer, now>>

FallsBack ==
  config.RemoteFallbackLocal /\ config.remote # "absent" /\ config.local # "absent"

Entry ==
  IF FallsBack THEN "remote"
  ELSE IF config.local # "absent" THEN "local"
  ELSE IF config.remote # "absent" THEN "remote"
  ELSE "idle"

\* Entry of Headers: who signs.
CallHeaders(c) ==
  /\ result[c] = "none"
  /\ \E r \in Requests : request' = [request EXCEPT ![c] = r]
  /\ startedAt' = [startedAt EXCEPT ![c] = now]
  /\ pc' = [pc EXCEPT ![c] = Entry]
  /\ result' = [result EXCEPT ![c] = IF Entry = "idle" THEN "missing config" ELSE "pending"]
  /\ UNCHANGED <<settings, headers, asked, question, answer, now>>

\* buildBuilderHeadersRemote posts the question; a timestamp of 0 is left out.
Ask(c) ==
  /\ pc[c] = "remote"
  /\ config.remote = "good"
  /\ Proceed(c, "asking")
  /\ question' = [question EXCEPT ![c] =
       [kind |-> "question", token |-> clientToken, method |-> request[c].method,
        target |-> request[c].target,
        timestamp |-> IF request[c].timestamp = 0 THEN 0 ELSE Normalised(request[c].timestamp)]]
  /\ UNCHANGED <<asked, answer>>

\* Mutant of Take: any answer is taken for a good one.
TakeAnyStatus(c) ==
  /\ pc[c] = "asking"
  /\ answer[c] # Nothing
  /\ asked' = [asked EXCEPT ![c] = TRUE]
  /\ Give(c, IF answer[c].kind = "signed" THEN answer[c].headers ELSE NoHeaders)

\* The answer is a 2xx with all four headers.
Take(c) ==
  /\ pc[c] = "asking"
  /\ answer[c].kind = "signed"
  /\ asked' = [asked EXCEPT ![c] = TRUE]
  /\ Give(c, answer[c].headers)

\* Mutant of RemoteFails: nobody limits the wait for an answer.
RemoteFailsWhenTold(c) ==
  /\ pc[c] \in {"remote", "asking"}
  /\ pc[c] = "asking" => answer[c].kind = "status"
  /\ asked' = [asked EXCEPT ![c] = config.remote = "good"]
  /\ IF FallsBack THEN Proceed(c, "local") /\ UNCHANGED <<question, answer>>
     ELSE Return(c, IF config.remote = "good" THEN "signer failed" ELSE "missing config")

\* The service has no host, cannot be reached, answers with an error status or not
\* readably, or the client's timeout or the caller's context ends the wait.
RemoteFails(c) ==
  /\ pc[c] \in {"remote", "asking"}
  /\ asked' = [asked EXCEPT ![c] = config.remote = "good"]
  /\ IF FallsBack THEN Proceed(c, "local") /\ UNCHANGED <<question, answer>>
     ELSE Return(c, IF config.remote = "good" THEN "signer failed" ELSE "missing config")

\* The method is signed as it is given.
LocalSigns(c) ==
  /\ pc[c] = "local"
  /\ config.local = "good"
  /\ Give(c, Sign(request[c].method, request[c].target, request[c].timestamp))
  /\ UNCHANGED asked

LocalFails(c) ==
  /\ pc[c] = "local"
  /\ config.local # "good"
  /\ Return(c, IF FallsBack THEN "both failed"
               ELSE IF config.local = "incomplete" THEN "missing config" ELSE "bad secret")
  /\ UNCHANGED asked

CallStep(c) == Ask(c) \/ Take(c) \/ RemoteFails(c) \/ LocalSigns(c) \/ LocalFails(c)

-----------------------------------------------------------------------------
(* The service *)

Status(code) == [kind |-> "status", code |-> code]

\* The handler of /sign-builder: its token, its view of the request, which must name
\* a method and a path, its own clock and credentials.
Response(q) ==
  IF service.token # "" /\ q.token # service.token THEN Status(401)
  ELSE IF q.method.verb = "" \/ q.target = "" THEN Status(400)
  ELSE IF service.secret # "good" THEN Status(500)
  ELSE [kind |-> "signed", headers |-> Sign(ToUpper(q.method), q.target, q.timestamp)]

\* The answer is dropped if nobody waits for it any more.
Handle(c) ==
  /\ question[c] # Nothing
  /\ question' = [question EXCEPT ![c] = Nothing]
  /\ answer' = IF pc[c] = "asking" THEN [answer EXCEPT ![c] = Response(question[c])] ELSE answer
  /\ UNCHANGED <<settings, callVars, now>>

Tick ==
  /\ now < Horizon
  /\ now' = now + 1
  /\ UNCHANGED <<settings, callVars, question, answer>>

Next == (\E c \in Callers : CallHeaders(c) \/ CallStep(c) \/ Handle(c)) \/ Tick

Spec == Init /\ [][Next]_vars

\* The goroutines run, and the client limits its wait; the service need not answer.
FairSpec == Spec /\ \A c \in Callers : WF_vars(CallStep(c))

-----------------------------------------------------------------------------
(* Properties *)

(***************************************************************************)
(* Every step of a goroutine, of the service and of the clock is one       *)
(* BuilderAuth allows, or none, in the eyes of each goroutine: a signature *)
(* made late, an answer that comes too late or is an error included.       *)
(***************************************************************************)
StepsOfBuilderAuth == [][\A c \in Callers : [Auth(c)!Next]_(Auth(c)!vars)]_vars

(***************************************************************************)
(* Whoever signed, the headers a goroutine is given are signed over the    *)
(* timestamp they carry and over the very request it asked about, not      *)
(* another goroutine's.  A method not in upper case is excepted, whatever  *)
(* its verb: the service signs it in upper case, the client's own fallback *)
(* as it is.                                                               *)
(***************************************************************************)
SignatureCoversRequest ==
  \A c \in Callers : result[c] = "headers" /\ request[c].method = ToUpper(request[c].method) =>
    headers[c].signature = <<headers[c].timestamp, request[c].method, request[c].target>>

\* Headers returns, whether or not the service answers.
HeadersReturn == \A c \in Callers : (pc[c] # "idle") ~> (pc[c] = "idle")

=============================================================================
