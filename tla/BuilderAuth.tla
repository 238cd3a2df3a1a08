---------------------------- MODULE BuilderAuth ----------------------------
(***************************************************************************)
(* Builder authentication of the requests of one client, one after the     *)
(* other: RelayClient.send, which signs a request once and hands it to the *)
(* retrying transport, and BuilderConfig.Headers called by an application. *)
(* The configuration signs locally, through a remote signer, or remotely   *)
(* with a local fallback.                                                  *)
(*                                                                         *)
(* Time passes between any two steps.  The signer service is the one of    *)
(* examples/remote_signer_server; the relayer turns down a request whose   *)
(* headers are incomplete or older than Window.                            *)
(***************************************************************************)
EXTENDS Integers

CONSTANTS
  MillisPerSecond,  \* 1000
  MillisThreshold,  \* builderTimestampMillisThreshold: below it are seconds
  Timestamps,       \* timestamps an application passes to Headers
  MaxRetries,       \* retries of the transport
  Window,           \* age up to which the relayer accepts a timestamp
  StartTime,        \* the clock at first, in milliseconds
  Horizon,          \* bound on the clock
  MaxCalls          \* bound on the calls

Configs == [local : {"absent", "incomplete", "undecodable", "good"},
            remote : {"absent", "no host", "good"},
            RemoteFallbackLocal : BOOLEAN]

HeaderNames == {"key", "passphrase", "signature", "timestamp"}

ASSUME MillisAssumption ==
  MillisPerSecond \in Nat \ {0} /\ MillisThreshold \in Nat \ {0} /\ StartTime \in Nat \ {0}
ASSUME TimestampsAssumption == Timestamps \subseteq Int
ASSUME RetriesAssumption == MaxRetries \in Nat
ASSUME WindowAssumption == Window \in Nat
ASSUME BoundsAssumption == Horizon \in Nat /\ MaxCalls \in Nat

VARIABLES
  config,    \* the BuilderConfig
  pc,        \* where the current call is
  method,    \* "send" or "Headers"
  given,     \* the timestamp argument of Headers, 0 if none
  startedAt, \* when the call began
  headers,   \* the headers made for the call
  asked,     \* the call has asked the remote signer
  attempt,   \* attempts the transport has sent
  result,    \* what the call returned
  calls,     \* calls made so far
  now        \* the clock

request == <<method, given, startedAt>>
vars == <<config, pc, request, headers, asked, attempt, result, calls, now>>

NoHeaders == [names |-> {}, timestamp |-> 0]

Init ==
  /\ config \in Configs
  /\ pc = "idle"
  /\ method = "none"
  /\ given = 0
  /\ startedAt = StartTime
  /\ headers = NoHeaders
  /\ asked = FALSE
  /\ attempt = 0
  /\ result = "none"
  /\ calls = 0
  /\ now = StartTime

-----------------------------------------------------------------------------
(* The configuration and its timestamps *)

\* Mutant of IsValid: whatever is complete will do.
IsValidInPart == config.local \in {"undecodable", "good"} \/ config.remote = "good"

IsValid ==
  LET localValid == config.local \in {"undecodable", "good"}
      remoteValid == config.remote = "good"
  IN  IF config.RemoteFallbackLocal THEN remoteValid \/ localValid
      ELSE IF config.local # "absent" THEN localValid
      ELSE remoteValid

FallsBack ==
  config.RemoteFallbackLocal /\ config.remote # "absent" /\ config.local # "absent"

\* Mutant of normalizeBuilderTimestamp: milliseconds are not told from seconds.
normalizeAlways(timestamp, moment) ==
  IF timestamp = 0 THEN moment ELSE timestamp * MillisPerSecond

\* What is signed at a moment: no timestamp stands for the moment itself.
normalizeBuilderTimestamp(timestamp, moment) ==
  IF timestamp = 0 THEN moment
  ELSE IF timestamp < MillisThreshold THEN timestamp * MillisPerSecond
  ELSE timestamp

Signed(timestamp, moment) ==
  [names |-> HeaderNames, timestamp |-> normalizeBuilderTimestamp(timestamp, moment)]

\* The timestamp the signer service is sent: left out, and read as 0, if none is given.
SentToSigner(timestamp) ==
  IF timestamp = 0 THEN 0 ELSE normalizeBuilderTimestamp(timestamp, now)

-----------------------------------------------------------------------------
(* A call *)

Return(answer) ==
  /\ pc' = "idle"
  /\ result' = answer
  /\ UNCHANGED <<config, request, headers, attempt, calls, now>>

Fresh(m, timestamp) ==
  /\ pc = "idle"
  /\ calls < MaxCalls
  /\ calls' = calls + 1
  /\ method' = m
  /\ given' = timestamp
  /\ startedAt' = now
  /\ headers' = NoHeaders
  /\ asked' = FALSE
  /\ attempt' = 0
  /\ UNCHANGED <<config, now>>

\* Entry of Headers: who signs.
Headers ==
  \/ (FallsBack \/ config.local = "absent") /\ config.remote # "absent"
     /\ pc' = "remote" /\ result' = "pending"
  \/ ~FallsBack /\ config.local # "absent" /\ pc' = "local" /\ result' = "pending"
  \/ config.local = "absent" /\ config.remote = "absent"
     /\ pc' = "idle" /\ result' = "missing config"

CallHeaders == \E t \in Timestamps : Fresh("Headers", t) /\ Headers

\* Mutant of send: the headers of the call before are used again.
sendCached ==
  /\ pc = "idle"
  /\ calls < MaxCalls
  /\ IF headers.names = HeaderNames /\ method = "send"
     THEN /\ calls' = calls + 1 /\ startedAt' = now /\ attempt' = 0
          /\ pc' = "submit" /\ result' = "pending"
          /\ UNCHANGED <<config, method, given, headers, asked, now>>
     ELSE /\ Fresh("send", 0)
          /\ IF IsValid THEN Headers ELSE pc' = "idle" /\ result' = "missing config"

send ==
  /\ Fresh("send", 0)
  /\ IF IsValid THEN Headers ELSE pc' = "idle" /\ result' = "missing config"

Made(h) ==
  /\ headers' = h
  /\ IF method = "send"
     THEN pc' = "submit" /\ UNCHANGED result
     ELSE pc' = "idle" /\ result' = "headers"
  /\ UNCHANGED <<config, request, attempt, calls, now>>

\* buildBuilderHeadersRemote is answered; the signer signed at some moment of the call.
RemoteSigns ==
  /\ pc = "remote"
  /\ config.remote = "good"
  /\ asked' = TRUE
  /\ \E moment \in startedAt..now : Made(Signed(SentToSigner(given), moment))

\* Mutants of RemoteFails: only an unreachable signer is replaced; an answer
\* without the key is taken for a good one.
RemoteFailsForGood ==
  /\ pc = "remote"
  /\ asked' = (config.remote = "good")
  /\ \/ /\ FallsBack
        /\ pc' = "local"
        /\ UNCHANGED <<config, request, headers, attempt, result, calls, now>>
     \/ config.remote = "good" /\ Return("signer failed")

RemoteAnswersInPart ==
  /\ pc = "remote"
  /\ config.remote = "good"
  /\ asked' = TRUE
  /\ Made([names |-> HeaderNames \ {"key"}, timestamp |-> now])

\* No answer in time, an error status, an undecodable body or a missing header;
\* nothing is asked of a signer without a host.
RemoteFails ==
  /\ pc = "remote"
  /\ asked' = (config.remote = "good")
  /\ IF FallsBack
     THEN /\ pc' = "local"
          /\ UNCHANGED <<config, request, headers, attempt, result, calls, now>>
     ELSE Return(IF config.remote = "good" THEN "signer failed" ELSE "missing config")

LocalSigns ==
  /\ pc = "local"
  /\ config.local = "good"
  /\ UNCHANGED asked
  /\ Made(Signed(given, now))

LocalFails ==
  /\ pc = "local"
  /\ config.local # "good"
  /\ Return(IF FallsBack THEN "both failed"
            ELSE IF config.local = "incomplete" THEN "missing config" ELSE "bad secret")
  /\ UNCHANGED asked

-----------------------------------------------------------------------------
(* The transport and the relayer *)

Accepted == headers.names = HeaderNames /\ now - headers.timestamp <= Window

\* Mutant of Retry: the budget is off by one.
RetryOnceMore ==
  /\ pc = "submit"
  /\ attempt <= MaxRetries
  /\ attempt' = attempt + 1
  /\ UNCHANGED <<config, pc, request, headers, asked, result, calls, now>>

\* An attempt fails and is made again, with the same headers.
Retry ==
  /\ pc = "submit"
  /\ attempt < MaxRetries
  /\ attempt' = attempt + 1
  /\ UNCHANGED <<config, pc, request, headers, asked, result, calls, now>>

\* The last attempt failed too, the context is done, or the answer is another 4xx.
RequestFails ==
  /\ pc = "submit"
  /\ Return("request failed")
  /\ UNCHANGED asked

Served ==
  /\ pc = "submit"
  /\ Accepted
  /\ Return("served")
  /\ UNCHANGED asked

Unauthorized ==
  /\ pc = "submit"
  /\ ~Accepted
  /\ Return("unauthorized")
  /\ UNCHANGED asked

Tick ==
  /\ now < Horizon
  /\ now' = now + 1
  /\ UNCHANGED <<config, pc, request, headers, asked, attempt, result, calls>>

Next ==
  \/ CallHeaders \/ send
  \/ RemoteSigns \/ RemoteFails \/ LocalSigns \/ LocalFails
  \/ Retry \/ RequestFails \/ Served \/ Unauthorized
  \/ Tick

Spec == Init /\ [][Next]_vars

-----------------------------------------------------------------------------
(* Properties *)

Results ==
  {"none", "pending", "missing config", "signer failed", "both failed", "bad secret",
   "headers", "request failed", "served", "unauthorized"}

\* The variables have their types.
TypeOK ==
  /\ config \in Configs
  /\ pc \in {"idle", "remote", "local", "submit"}
  /\ method \in {"none", "send", "Headers"}
  /\ given \in Timestamps \cup {0}
  /\ startedAt \in Nat /\ startedAt <= now
  /\ headers \in [names : SUBSET HeaderNames, timestamp : Int]
  /\ asked \in BOOLEAN
  /\ attempt \in 0..MaxRetries
  /\ result \in Results
  /\ calls \in Nat
  /\ now \in Nat

(***************************************************************************)
(* A call whose configuration IsValid lets through is never told that it   *)
(* is missing, and one that IsValid refuses never reaches the signer       *)
(* service or the relayer.  IsValid does not decode the secret: a call it  *)
(* lets through may still find that it cannot sign.                        *)
(***************************************************************************)
ValidityIsHonest ==
  method = "send" =>
    /\ result = "missing config" => ~IsValid
    /\ asked \/ headers # NoHeaders => IsValid

(***************************************************************************)
(* With RemoteFallbackLocal and good credentials of its own a client is    *)
(* never left without headers, whatever the signer service does.           *)
(***************************************************************************)
FallbackServes ==
  config.RemoteFallbackLocal /\ config.local = "good" =>
    result \notin {"missing config", "signer failed", "both failed", "bad secret"}

(***************************************************************************)
(* A request with good credentials is turned down as unauthorized only if  *)
(* the call, with its signing, pauses and retries, has taken longer than   *)
(* the relayer's window: no header outlives the call it was made for.      *)
(***************************************************************************)
UnauthorizedMeansSlow ==
  result = "unauthorized" => now - startedAt > Window

(***************************************************************************)
(* Whoever signs, the timestamp of the headers is the application's, in    *)
(* milliseconds, although a remote timestamp is normalised twice: by the   *)
(* client and by the signer.  Seconds before 2001 (1e9) are excepted.      *)
(***************************************************************************)
SignersAgree ==
  result = "headers" /\ given * MillisPerSecond >= MillisThreshold =>
    headers.timestamp = IF given < MillisThreshold THEN given * MillisPerSecond ELSE given

=============================================================================
