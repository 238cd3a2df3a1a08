------------------------- MODULE BuilderAuthProofs -------------------------
(***************************************************************************)
(* Proofs about builder authentication, for every set of timestamps, every *)
(* threshold, window and retry budget, however far the clock runs and      *)
(* however many calls are made.                                            *)
(***************************************************************************)
EXTENDS BuilderAuth, TLAPS

-----------------------------------------------------------------------------
(* The inductive invariant *)

\* A call that goes on has no result yet; only Headers is given a timestamp.
CallUnderWay ==
  /\ pc # "idle" => result = "pending"
  /\ method = "send" => given = 0
  /\ method = "none" => result = "none" /\ pc = "idle"
  /\ pc = "submit" => method = "send"

\* Who is asked to sign is configured, and alone unless there is a fallback.
SignerConfigured ==
  /\ pc = "remote" => config.remote # "absent" /\ (FallsBack \/ config.local = "absent")
  /\ pc = "local" => config.local # "absent"

\* A call of send goes past IsValid with a valid configuration only.
OnlyValidIsSent ==
  method = "send" =>
    /\ pc # "idle" => IsValid
    /\ asked \/ headers # NoHeaders => IsValid

\* What is submitted was signed completely and after the call began.
SignedInCall ==
  pc = "submit" => headers.names = HeaderNames /\ headers.timestamp >= startedAt

IInv ==
  /\ TypeOK
  /\ CallUnderWay
  /\ SignerConfigured
  /\ OnlyValidIsSent
  /\ SignedInCall
  /\ ValidityIsHonest
  /\ FallbackServes
  /\ UnauthorizedMeansSlow
  /\ SignersAgree

-----------------------------------------------------------------------------
(* Timestamps *)

LEMMA NormalizedType ==
  ASSUME now \in Nat, NEW t \in Int, NEW m \in Nat
  PROVE  /\ normalizeBuilderTimestamp(t, m) \in Int
         /\ SentToSigner(t) \in Int
BY MillisAssumption DEF normalizeBuilderTimestamp, SentToSigner

\* No timestamp stands for the moment of signing, for either signer.
LEMMA UndatedIsNow ==
  ASSUME NEW m
  PROVE  /\ normalizeBuilderTimestamp(0, m) = m
         /\ SentToSigner(0) = 0
BY DEF normalizeBuilderTimestamp, SentToSigner

\* Normalising a timestamp of 1e9 seconds or more is idempotent.
LEMMA NormalizedOnceOrTwice ==
  ASSUME NEW t \in Int, NEW m \in Nat, t * MillisPerSecond >= MillisThreshold
  PROVE  LET millis == IF t < MillisThreshold THEN t * MillisPerSecond ELSE t
         IN  /\ normalizeBuilderTimestamp(t, m) = millis
             /\ normalizeBuilderTimestamp(SentToSigner(t), m) = millis
<1>1. MillisPerSecond \in Nat /\ MillisThreshold \in Nat /\ MillisThreshold > 0
  BY MillisAssumption
<1>2. t * MillisPerSecond \in Int
  BY <1>1
<1>3. t # 0
  BY <1>1
<1> DEFINE product == t * MillisPerSecond
<1>4. product \in Int /\ product >= MillisThreshold
  BY <1>2
<1> HIDE DEF product
<1>5. \A k : normalizeBuilderTimestamp(t, k) = IF t < MillisThreshold THEN product ELSE t
  BY <1>3 DEF normalizeBuilderTimestamp, product
<1>6. SentToSigner(t) = IF t < MillisThreshold THEN product ELSE t
  BY <1>3, <1>5 DEF SentToSigner
<1>7. SentToSigner(t) # 0 /\ ~(SentToSigner(t) < MillisThreshold)
  BY <1>1, <1>4, <1>6
<1>8. normalizeBuilderTimestamp(SentToSigner(t), m) = SentToSigner(t)
  BY <1>7 DEF normalizeBuilderTimestamp
<1> QED
  BY <1>5, <1>6, <1>8 DEF product

LEMMA SignedFields ==
  ASSUME NEW t, NEW m
  PROVE  /\ Signed(t, m).names = HeaderNames
         /\ Signed(t, m).timestamp = normalizeBuilderTimestamp(t, m)
BY DEF Signed

LEMMA SignedType ==
  ASSUME now \in Nat, NEW t \in Int, NEW m \in Nat
  PROVE  Signed(t, m) \in [names : SUBSET HeaderNames, timestamp : Int]
BY NormalizedType DEF Signed

-----------------------------------------------------------------------------
(* Configurations *)

\* What IsValid lets through names a signer Headers can ask.
LEMMA ValidIsUsable ==
  ASSUME config \in Configs, IsValid
  PROVE  /\ ~(config.local = "absent" /\ config.remote = "absent")
         /\ ~FallsBack /\ config.local # "absent" => config.local # "incomplete"
         /\ ~FallsBack /\ config.local = "absent" => config.remote = "good"
BY DEF IsValid, FallsBack, Configs

LEMMA LocalCredentialsAreValid ==
  ASSUME config \in Configs, config.RemoteFallbackLocal, config.local = "good"
  PROVE  /\ IsValid
         /\ config.remote # "absent" => FallsBack
BY DEF IsValid, FallsBack, Configs

\* A configuration is never changed.
LEMMA ConfigIsKept ==
  ASSUME config' = config
  PROVE  (IsValid' <=> IsValid) /\ (FallsBack' <=> FallsBack)
BY DEF IsValid, FallsBack

-----------------------------------------------------------------------------
(* Steps *)

LEMMA NoHeadersType == NoHeaders \in [names : SUBSET HeaderNames, timestamp : Int]
<1>1. {} \in SUBSET HeaderNames /\ 0 \in Int
  OBVIOUS
<1> QED
  BY <1>1 DEF NoHeaders

LEMMA InitEstablishes == Init => IInv
<1> SUFFICES ASSUME Init PROVE IInv
  OBVIOUS
<1>1. /\ headers \in [names : SUBSET HeaderNames, timestamp : Int]
      /\ config \in Configs /\ asked = FALSE
      /\ pc = "idle" /\ method = "none" /\ result = "none"
  BY NoHeadersType DEF Init
<1>2. /\ startedAt \in Nat /\ startedAt <= now /\ now \in Nat /\ calls \in Nat
      /\ attempt \in 0..MaxRetries /\ given \in Timestamps \cup {0}
  BY MillisAssumption, RetriesAssumption DEF Init
<1>3. TypeOK
  BY <1>1, <1>2 DEF TypeOK, Results
<1> QED
  BY <1>3 DEF Init, IInv, CallUnderWay, SignerConfigured, OnlyValidIsSent, SignedInCall,
              ValidityIsHonest, FallbackServes, UnauthorizedMeansSlow, SignersAgree

\* A call begins at the moment, with no attempt made.
LEMMA FreshClock ==
  ASSUME TypeOK, NEW m, NEW t, Fresh(m, t)
  PROVE  /\ startedAt' \in Nat /\ startedAt' <= now' /\ now' \in Nat /\ calls' \in Nat
         /\ attempt' \in 0..MaxRetries
<1>1. now \in Nat /\ calls \in Nat
  BY DEF TypeOK
<1>2. startedAt' = now /\ now' = now /\ calls' = calls + 1 /\ attempt' = 0
  BY DEF Fresh
<1> QED
  BY <1>1, <1>2, RetriesAssumption

\* What the entry of a call leaves, whichever signer it picks.
LEMMA EntryKeepsIInv ==
  ASSUME IInv, NEW m \in {"send", "Headers"}, NEW t \in Timestamps \cup {0}, Fresh(m, t),
         m = "send" => t = 0,
         pc' \in {"idle", "remote", "local"},
         result' = IF pc' = "idle" THEN "missing config" ELSE "pending",
         pc' = "remote" => config.remote # "absent" /\ (FallsBack \/ config.local = "absent"),
         pc' = "local" => config.local # "absent",
         m = "send" => (pc' # "idle" <=> IsValid),
         pc' = "idle" => config.local # "good" \/ ~config.RemoteFallbackLocal
  PROVE  IInv'
<1>1. /\ config' = config /\ now' = now /\ method' = m /\ given' = t /\ startedAt' = now
      /\ headers' = NoHeaders /\ asked' = FALSE /\ attempt' = 0 /\ calls' = calls + 1
  BY DEF Fresh
<1>2. (IsValid' <=> IsValid) /\ (FallsBack' <=> FallsBack)
  BY <1>1, ConfigIsKept
<1>3. /\ startedAt' \in Nat /\ startedAt' <= now' /\ now' \in Nat /\ calls' \in Nat
      /\ attempt' \in 0..MaxRetries
  BY FreshClock DEF IInv
<1>4. result' \in {"missing config", "pending"}
  OBVIOUS
<1>5. TypeOK'
  <2>1. /\ headers' \in [names : SUBSET HeaderNames, timestamp : Int]
        /\ config' \in Configs /\ asked' \in BOOLEAN /\ given' \in Timestamps \cup {0}
    BY <1>1, NoHeadersType DEF IInv, TypeOK
  <2>2. method' \in {"none", "send", "Headers"} /\ result' \in Results
    BY <1>1, <1>4 DEF Results
  <2> QED
    BY <1>3, <2>1, <2>2 DEF TypeOK
<1>6. CallUnderWay' /\ SignerConfigured' /\ SignedInCall'
  BY <1>1, <1>2 DEF CallUnderWay, SignerConfigured, SignedInCall
<1>7. OnlyValidIsSent' /\ ValidityIsHonest'
  BY <1>1, <1>2 DEF OnlyValidIsSent, ValidityIsHonest, NoHeaders
<1>8. FallbackServes'
  BY <1>1 DEF FallbackServes
<1>9. UnauthorizedMeansSlow' /\ SignersAgree'
  BY <1>4 DEF UnauthorizedMeansSlow, SignersAgree
<1> QED
  BY <1>5, <1>6, <1>7, <1>8, <1>9 DEF IInv

LEMMA HeadersCallKeepsIInv == IInv /\ CallHeaders => IInv'
<1> SUFFICES ASSUME IInv, NEW t \in Timestamps, Fresh("Headers", t), Headers
             PROVE  IInv'
  BY DEF CallHeaders
<1>1. /\ pc' \in {"idle", "remote", "local"}
      /\ result' = IF pc' = "idle" THEN "missing config" ELSE "pending"
      /\ pc' = "remote" => config.remote # "absent" /\ (FallsBack \/ config.local = "absent")
      /\ pc' = "local" => config.local # "absent"
      /\ pc' = "idle" => config.local = "absent"
  BY DEF Headers
<1> QED
  BY <1>1, EntryKeepsIInv

LEMMA SendCallKeepsIInv == IInv /\ send => IInv'
<1> SUFFICES ASSUME IInv, send
             PROVE  IInv'
  OBVIOUS
<1>1. config \in Configs /\ Fresh("send", 0)
  BY DEF IInv, TypeOK, send
<1>2. CASE IsValid
  <2>1. Headers
    BY <1>2 DEF send
  <2>2. ~(config.local = "absent" /\ config.remote = "absent")
    BY <1>1, <1>2, ValidIsUsable
  <2>3. /\ pc' \in {"remote", "local"} /\ result' = "pending"
        /\ pc' = "remote" => config.remote # "absent" /\ (FallsBack \/ config.local = "absent")
        /\ pc' = "local" => config.local # "absent"
    BY <2>1, <2>2 DEF Headers
  <2> QED
    BY <1>1, <1>2, <2>3, EntryKeepsIInv
<1>3. CASE ~IsValid
  <2>1. pc' = "idle" /\ result' = "missing config"
    BY <1>3 DEF send
  <2>2. config.local # "good" \/ ~config.RemoteFallbackLocal
    BY <1>1, <1>3, LocalCredentialsAreValid
  <2> QED
    BY <1>1, <1>3, <2>1, <2>2, EntryKeepsIInv
<1> QED
  BY <1>2, <1>3

\* A call returns with an answer that fits the configuration and the clock.
LEMMA ReturnKeepsIInv ==
  ASSUME IInv, pc # "idle", NEW answer \in Results, Return(answer), asked' \in BOOLEAN,
         answer # "headers", answer # "none",
         answer = "missing config" => method = "Headers" \/ ~IsValid,
         config.RemoteFallbackLocal /\ config.local = "good" =>
           answer \notin {"missing config", "signer failed", "both failed", "bad secret"},
         answer = "unauthorized" => now - startedAt > Window
  PROVE  IInv'
<1>1. /\ pc' = "idle" /\ result' = answer /\ config' = config /\ now' = now
      /\ method' = method /\ given' = given /\ startedAt' = startedAt
      /\ headers' = headers /\ attempt' = attempt /\ calls' = calls
  BY DEF Return, request
<1>2. (IsValid' <=> IsValid) /\ (FallsBack' <=> FallsBack)
  BY <1>1, ConfigIsKept
<1>3. TypeOK'
  BY <1>1 DEF IInv, TypeOK
<1>4. CallUnderWay' /\ SignerConfigured' /\ SignedInCall'
  BY <1>1 DEF IInv, CallUnderWay, SignerConfigured, SignedInCall
<1>5. OnlyValidIsSent' /\ ValidityIsHonest'
  BY <1>1, <1>2 DEF IInv, OnlyValidIsSent, ValidityIsHonest
<1>6. FallbackServes' /\ UnauthorizedMeansSlow' /\ SignersAgree'
  BY <1>1 DEF FallbackServes, UnauthorizedMeansSlow, SignersAgree
<1> QED
  BY <1>3, <1>4, <1>5, <1>6 DEF IInv

\* Headers are handed to the transport, or to the application that asked for them.
LEMMA MadeKeepsIInv ==
  ASSUME IInv, pc # "idle", NEW t \in Int, NEW m \in startedAt..now, Made(Signed(t, m)),
         asked' \in BOOLEAN,
         method = "send" => t = 0,
         given * MillisPerSecond >= MillisThreshold =>
           normalizeBuilderTimestamp(t, m) =
             IF given < MillisThreshold THEN given * MillisPerSecond ELSE given
  PROVE  IInv'
<1>1. /\ headers' = Signed(t, m) /\ config' = config /\ now' = now /\ method' = method
      /\ given' = given /\ startedAt' = startedAt /\ attempt' = attempt /\ calls' = calls
      /\ method = "send" => pc' = "submit" /\ result' = result
      /\ method # "send" => pc' = "idle" /\ result' = "headers"
  BY DEF Made, request
<1>2. (IsValid' <=> IsValid) /\ (FallsBack' <=> FallsBack)
  BY <1>1, ConfigIsKept
<1>3. /\ result = "pending" /\ method \in {"send", "Headers"}
      /\ now \in Nat /\ startedAt \in Nat /\ m \in Nat /\ startedAt <= m
  BY DEF IInv, TypeOK, CallUnderWay
<1>4. /\ headers' \in [names : SUBSET HeaderNames, timestamp : Int]
      /\ headers'.names = HeaderNames
      /\ headers'.timestamp = normalizeBuilderTimestamp(t, m)
  BY <1>1, <1>3, SignedType, SignedFields
<1>5. TypeOK'
  BY <1>1, <1>3, <1>4 DEF IInv, TypeOK, Results
<1>6. CallUnderWay' /\ SignerConfigured'
  BY <1>1, <1>3 DEF IInv, CallUnderWay, SignerConfigured
<1>7. SignedInCall'
  <2>1. SUFFICES ASSUME method = "send"
                 PROVE  headers'.timestamp >= startedAt
    BY <1>1, <1>4 DEF SignedInCall
  <2>2. normalizeBuilderTimestamp(t, m) = m
    BY <2>1, UndatedIsNow
  <2> QED
    BY <1>3, <1>4, <2>2 DEF IInv, TypeOK
<1>8. OnlyValidIsSent' /\ ValidityIsHonest'
  BY <1>1, <1>2, <1>3 DEF IInv, OnlyValidIsSent, ValidityIsHonest
<1>9. FallbackServes' /\ UnauthorizedMeansSlow'
  BY <1>1, <1>3 DEF FallbackServes, UnauthorizedMeansSlow
<1>10. SignersAgree'
  BY <1>1, <1>3, <1>4 DEF SignersAgree
<1> QED
  BY <1>5, <1>6, <1>7, <1>8, <1>9, <1>10 DEF IInv

\* A step within a call that gives no answer keeps what was promised of it.
LEMMA ProgressKeepsIInv ==
  ASSUME IInv, pc # "idle", pc' \in {pc, "local"},
         UNCHANGED <<config, request, headers, result, calls, now>>,
         attempt' \in 0..MaxRetries, asked' \in BOOLEAN,
         pc' = "local" => config.local # "absent"
  PROVE  IInv'
<1>1. /\ config' = config /\ now' = now /\ method' = method /\ given' = given
      /\ startedAt' = startedAt /\ headers' = headers /\ result' = result /\ calls' = calls
  BY DEF request
<1>2. (IsValid' <=> IsValid) /\ (FallsBack' <=> FallsBack)
  BY <1>1, ConfigIsKept
<1>3. TypeOK'
  BY <1>1 DEF IInv, TypeOK
<1>4. CallUnderWay' /\ SignerConfigured' /\ SignedInCall'
  BY <1>1, <1>2 DEF IInv, CallUnderWay, SignerConfigured, SignedInCall
<1>5. OnlyValidIsSent' /\ ValidityIsHonest'
  BY <1>1, <1>2 DEF IInv, OnlyValidIsSent, ValidityIsHonest
<1>6. FallbackServes' /\ UnauthorizedMeansSlow' /\ SignersAgree'
  BY <1>1 DEF IInv, FallbackServes, UnauthorizedMeansSlow, SignersAgree
<1> QED
  BY <1>3, <1>4, <1>5, <1>6 DEF IInv

\* The clock moves on: what was too old stays too old.
LEMMA TickKeepsIInv == IInv /\ Tick => IInv'
<1> SUFFICES ASSUME IInv, Tick PROVE IInv'
  OBVIOUS
<1>1. /\ config' = config /\ now' = now + 1 /\ method' = method /\ given' = given
      /\ startedAt' = startedAt /\ headers' = headers /\ result' = result /\ calls' = calls
      /\ pc' = pc /\ asked' = asked /\ attempt' = attempt
  BY DEF Tick, request
<1>2. (IsValid' <=> IsValid) /\ (FallsBack' <=> FallsBack)
  BY <1>1, ConfigIsKept
<1>3. TypeOK'
  BY <1>1 DEF IInv, TypeOK
<1>4. CallUnderWay' /\ SignerConfigured' /\ SignedInCall'
  BY <1>1, <1>2 DEF IInv, CallUnderWay, SignerConfigured, SignedInCall
<1>5. OnlyValidIsSent' /\ ValidityIsHonest'
  BY <1>1, <1>2 DEF IInv, OnlyValidIsSent, ValidityIsHonest
<1>6. FallbackServes' /\ SignersAgree'
  BY <1>1 DEF IInv, FallbackServes, SignersAgree
<1>7. UnauthorizedMeansSlow'
  <2>1. now \in Nat /\ startedAt \in Nat /\ Window \in Nat
    BY WindowAssumption DEF IInv, TypeOK
  <2> QED
    BY <1>1, <2>1 DEF IInv, UnauthorizedMeansSlow
<1> QED
  BY <1>3, <1>4, <1>5, <1>6, <1>7 DEF IInv

LEMMA StepPreserves == IInv /\ [Next]_vars => IInv'
<1> SUFFICES ASSUME IInv, [Next]_vars PROVE IInv'
  OBVIOUS
<1>1. CASE CallHeaders
  BY <1>1, HeadersCallKeepsIInv
<1>2. CASE send
  BY <1>2, SendCallKeepsIInv
<1>3. CASE RemoteSigns
  <2>1. given \in Int /\ now \in Nat /\ pc # "idle" /\ asked' \in BOOLEAN
    BY <1>3, TimestampsAssumption DEF RemoteSigns, IInv, TypeOK
  <2>2. SentToSigner(given) \in Int
    BY <2>1, NormalizedType
  <2>3. method = "send" => SentToSigner(given) = 0
    BY UndatedIsNow DEF IInv, CallUnderWay
  <2>4. PICK m \in startedAt..now : Made(Signed(SentToSigner(given), m))
    BY <1>3 DEF RemoteSigns
  <2>5. m \in Nat
    BY DEF IInv, TypeOK
  <2>6. given * MillisPerSecond >= MillisThreshold =>
          normalizeBuilderTimestamp(SentToSigner(given), m) =
            IF given < MillisThreshold THEN given * MillisPerSecond ELSE given
    BY <2>1, <2>5, NormalizedOnceOrTwice
  <2> QED
    BY <2>1, <2>2, <2>3, <2>4, <2>6, MadeKeepsIInv
<1>4. CASE RemoteFails
  <2>1. /\ pc = "remote" /\ config \in Configs /\ config.remote # "absent"
        /\ asked' \in BOOLEAN
    BY <1>4 DEF RemoteFails, IInv, TypeOK, SignerConfigured
  <2>2. CASE FallsBack
    <3>1. config.local # "absent"
      BY <2>2 DEF FallsBack
    <3>2. /\ pc' = "local" /\ asked' \in BOOLEAN /\ attempt' \in 0..MaxRetries
          /\ UNCHANGED <<config, request, headers, result, calls, now>>
      BY <1>4, <2>2 DEF RemoteFails, IInv, TypeOK
    <3> QED
      BY <2>1, <3>1, <3>2, ProgressKeepsIInv
  <2>3. CASE ~FallsBack
    <3>1. ~(config.RemoteFallbackLocal /\ config.local = "good")
      BY <2>1, <2>3, LocalCredentialsAreValid
    <3>2. CASE config.remote = "good"
      <4>1. Return("signer failed")
        BY <1>4, <2>3, <3>2 DEF RemoteFails
      <4> QED
        BY <2>1, <3>1, <4>1, ReturnKeepsIInv DEF Results
    <3>3. CASE config.remote # "good"
      <4>1. Return("missing config")
        BY <1>4, <2>3, <3>3 DEF RemoteFails
      <4>2. config.local = "absent"
        BY <2>1, <2>3 DEF IInv, SignerConfigured
      <4>3. ~IsValid
        BY <2>1, <2>3, <3>3, <4>2, ValidIsUsable
      <4> QED
        BY <2>1, <3>1, <4>1, <4>3, ReturnKeepsIInv DEF Results
    <3> QED
      BY <3>2, <3>3
  <2> QED
    BY <2>2, <2>3
<1>5. CASE LocalSigns
  <2>1. given \in Int /\ now \in Nat /\ pc # "idle" /\ asked' \in BOOLEAN
    BY <1>5, TimestampsAssumption DEF LocalSigns, IInv, TypeOK
  <2>2. method = "send" => given = 0
    BY DEF IInv, CallUnderWay
  <2>3. given * MillisPerSecond >= MillisThreshold =>
          normalizeBuilderTimestamp(given, now) =
            IF given < MillisThreshold THEN given * MillisPerSecond ELSE given
    BY <2>1, NormalizedOnceOrTwice
  <2>4. now \in startedAt..now
    BY DEF IInv, TypeOK
  <2> QED
    BY <1>5, <2>1, <2>2, <2>3, <2>4, MadeKeepsIInv DEF LocalSigns
<1>6. CASE LocalFails
  <2>1. /\ pc = "local" /\ config \in Configs
        /\ config.local # "absent" /\ config.local # "good" /\ asked' \in BOOLEAN
    BY <1>6 DEF LocalFails, IInv, TypeOK, SignerConfigured
  <2>2. CASE FallsBack
    <3>1. Return("both failed")
      BY <1>6, <2>2 DEF LocalFails
    <3> QED
      BY <2>1, <3>1, ReturnKeepsIInv DEF Results
  <2>3. CASE ~FallsBack /\ config.local = "incomplete"
    <3>1. Return("missing config")
      BY <1>6, <2>3 DEF LocalFails
    <3>2. ~IsValid
      BY <2>1, <2>3, ValidIsUsable
    <3> QED
      BY <2>1, <3>1, <3>2, ReturnKeepsIInv DEF Results
  <2>4. CASE ~FallsBack /\ config.local # "incomplete"
    <3>1. Return("bad secret")
      BY <1>6, <2>4 DEF LocalFails
    <3> QED
      BY <2>1, <3>1, ReturnKeepsIInv DEF Results
  <2> QED
    BY <2>2, <2>3, <2>4
<1>7. CASE Retry
  <2>1. /\ pc = "submit" /\ pc' = pc /\ asked' \in BOOLEAN
        /\ UNCHANGED <<config, request, headers, result, calls, now>>
    BY <1>7 DEF Retry, IInv, TypeOK
  <2>2. attempt' \in 0..MaxRetries
    BY <1>7, RetriesAssumption DEF Retry, IInv, TypeOK
  <2> QED
    BY <2>1, <2>2, ProgressKeepsIInv
<1>8. CASE RequestFails
  BY <1>8, ReturnKeepsIInv DEF RequestFails, Results, IInv, TypeOK
<1>9. CASE Served
  BY <1>9, ReturnKeepsIInv DEF Served, Results, IInv, TypeOK
<1>10. CASE Unauthorized
  <2>1. pc = "submit" /\ Return("unauthorized") /\ ~Accepted /\ asked' \in BOOLEAN
    BY <1>10 DEF Unauthorized, IInv, TypeOK
  <2>2. /\ headers.names = HeaderNames /\ headers.timestamp >= startedAt
        /\ headers.timestamp \in Int /\ now \in Nat /\ startedAt \in Nat
    BY <2>1 DEF IInv, TypeOK, SignedInCall
  <2>3. now - headers.timestamp > Window
    BY <2>1, <2>2, WindowAssumption DEF Accepted
  <2>4. now - startedAt > Window
    BY <2>2, <2>3, WindowAssumption
  <2> QED
    BY <2>1, <2>4, ReturnKeepsIInv DEF Results
<1>11. CASE Tick
  BY <1>11, TickKeepsIInv
<1>12. CASE UNCHANGED vars
  <2> USE <1>12 DEF vars, request
  <2>1. (IsValid' <=> IsValid) /\ (FallsBack' <=> FallsBack)
    BY ConfigIsKept
  <2> QED
    BY <2>1 DEF IInv, TypeOK, CallUnderWay, SignerConfigured, OnlyValidIsSent, SignedInCall,
                ValidityIsHonest, FallbackServes, UnauthorizedMeansSlow, SignersAgree
<1> QED
  BY <1>1, <1>2, <1>3, <1>4, <1>5, <1>6, <1>7, <1>8, <1>9, <1>10, <1>11, <1>12 DEF Next

LEMMA InvariantHolds == Spec => []IInv
BY InitEstablishes, StepPreserves, PTL DEF Spec

-----------------------------------------------------------------------------
(* Theorems *)

\* The variables have their types.
THEOREM TypeCorrectness == Spec => []TypeOK
<1>1. IInv => TypeOK
  BY DEF IInv
<1> QED
  BY <1>1, InvariantHolds, PTL

\* A call that IsValid lets through is never told that its configuration is missing,
\* though its secret may not decode or its signer fail; what IsValid refuses reaches
\* neither signer nor relayer.
THEOREM ValidityHolds == Spec => []ValidityIsHonest
<1>1. IInv => ValidityIsHonest
  BY DEF IInv
<1> QED
  BY <1>1, InvariantHolds, PTL

\* With RemoteFallbackLocal and good local credentials no failure of the signer
\* service reaches the caller.
THEOREM FallbackHolds == Spec => []FallbackServes
<1>1. IInv => FallbackServes
  BY DEF IInv
<1> QED
  BY <1>1, InvariantHolds, PTL

\* send's requests are refused as unauthorized only when the call has taken longer
\* than the relayer's window.
THEOREM OnlySlowCallsAreUnauthorized == Spec => []UnauthorizedMeansSlow
<1>1. IInv => UnauthorizedMeansSlow
  BY DEF IInv
<1> QED
  BY <1>1, InvariantHolds, PTL

\* Local and remote headers carry the application's timestamp, in milliseconds,
\* although the remote one is normalised twice.
THEOREM TimestampsAgree == Spec => []SignersAgree
<1>1. IInv => SignersAgree
  BY DEF IInv
<1> QED
  BY <1>1, InvariantHolds, PTL

=============================================================================
