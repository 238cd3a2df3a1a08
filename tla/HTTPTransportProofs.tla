------------------------ MODULE HTTPTransportProofs ------------------------
(***************************************************************************)
(* What HTTPTransport promises for every retry budget, delay, set of       *)
(* statuses and set of Retry-After headers.                                *)
(*                                                                         *)
(* AttemptBudget is not inductive: that no attempt is sent or handled      *)
(* twice depends on where the call is (AttemptsOnWire), and that "max      *)
(* retries exceeded" tells the truth depends on which errors an attempt    *)
(* can leave in lastErr (ErrorsOfAttempts).                                *)
(***************************************************************************)
EXTENDS HTTPTransport, FiniteSetTheorems, TLAPS

AttemptErrors ==
  {<<"request">>, <<"request", "context">>, <<"read">>, <<"read", "context">>}
    \cup {HTTPError(status) : status \in Statuses}

ErrorsOfAttempts == pc = "loop" => lastErr \in AttemptErrors

AttemptsOnWire ==
  /\ inflight \cap handled = {}
  /\ pc = "start" => attempt = 0
  /\ pc = "loop" => attempt > 0
  /\ pc \in {"sleep", "send", "await"} => attempt \in Attempts
  /\ pc \in {"start", "loop", "sleep", "send"} =>
       /\ inflight \cup handled \subseteq 0..(attempt - 1)
       /\ ctxDone \/ inflight \cup handled = 0..(attempt - 1)
  /\ pc = "await" =>
       /\ inflight \cup handled \subseteq 0..attempt
       /\ attempt \in inflight \cup handled
       /\ ctxDone \/ inflight \cup handled = 0..attempt
  /\ inflight \cup handled \subseteq 0..attempt

ResultOfCall ==
  /\ pc # "done" => result = Pending
  /\ Failed /\ Has(result.err, "max retries") => attempt = MaxRetries + 1

IInv == TypeOK /\ ErrorsOfAttempts /\ AttemptsOnWire /\ ResultOfCall

-----------------------------------------------------------------------------
(* Operators *)

\* Duration arithmetic stays in the integers.
LEMMA WrapType == ASSUME NEW x \in Int PROVE Wrap(x) \in Int
  BY DurationAssumption DEF Wrap

\* The backoff of any rank is a Duration, however the multiplication wraps.
LEMMA BackoffType == ASSUME NEW retry \in Nat PROVE exponentialBackoff(retry) \in Int
  <1>1. Capped(retry, MaxBackoffExponent) \in Nat
    BY BackoffAssumption DEF Capped
  <1>2. 2 ^ Capped(retry, MaxBackoffExponent) \in Int
    BY <1>1
  <1>. QED  BY <1>2, WrapType, BackoffAssumption DEF exponentialBackoff

\* What parseRetryAfter returns is an optional Duration.
LEMMA RetryAfterType ==
  ASSUME NEW header \in [form : RetryAfterForms, value : Int]
  PROVE  parseRetryAfter(header) \in [ok : BOOLEAN, delay : Int]
  <1>1. header.value * Second \in Int /\ header.value \in Int
    BY DurationAssumption
  <1>2. Wrap(header.value * Second) \in Int
    BY <1>1, WrapType
  <1>3. Capped(header.value, DurationLimit - 1) \in Int
    BY <1>1, DurationAssumption DEF Capped
  <1>. QED  BY <1>2, <1>3 DEF parseRetryAfter, NoDelay

\* Wrapping an error adds a link in front of it.
LEMMA WrapError ==
  ASSUME NEW err \in Errors, NEW link \in Links
  PROVE  (<<link>> \o err) \in Errors /\ (<<link>> \o err)[1] = link
  <1>1. <<link>> \in Seq(Links) /\ err \in Seq(Links)
    BY DEF Errors
  <1>2. Len(<<link>>) = 1 /\ <<link>>[1] = link
    OBVIOUS
  <1>. QED  BY <1>1, <1>2 DEF Errors

\* Sequences of one and of two elements.
LEMMA ShortSequences ==
  ASSUME NEW S, NEW a \in S, NEW b \in S
  PROVE  /\ <<a>> \in Seq(S) /\ \A i \in DOMAIN <<a>> : <<a>>[i] = a
         /\ <<a, b>> \in Seq(S) /\ \A i \in DOMAIN <<a, b>> : <<a, b>>[i] \in {a, b}
  OBVIOUS

\* An element put in front of a sequence moves the others up by one.
LEMMA Prepended ==
  ASSUME NEW S, NEW s \in Seq(S), NEW x \in S, NEW i \in DOMAIN s
  PROVE  i + 1 \in DOMAIN (<<x>> \o s) /\ (<<x>> \o s)[i + 1] = s[i]
  OBVIOUS

\* A chain of one or two links other than x does not have the link x.
LEMMA ShortChains ==
  ASSUME NEW a \in Links, NEW b \in Links, NEW x, a # x, b # x
  PROVE  /\ <<a>> \in Errors /\ ~Has(<<a>>, x)
         /\ <<a, b>> \in Errors /\ ~Has(<<a, b>>, x)
  BY ShortSequences DEF Errors, Has

\* The error of a status unwraps to one of the SDK's codes or to a nil *SDKError.
LEMMA StatusErrorType ==
  ASSUME NEW status PROVE httpErrorForStatus(status) \in SDKCodes \cup {NilSDKError}
  BY DEF httpErrorForStatus, SDKCodes

\* The errors of failed attempts are chains without "max retries".
LEMMA AttemptErrorsType ==
  ASSUME NEW err \in AttemptErrors
  PROVE  err \in Errors /\ ~Has(err, "max retries")
  <1>1. /\ "http" \in Links /\ "request" \in Links /\ "read" \in Links /\ "context" \in Links
        /\ "http" # "max retries" /\ "request" # "max retries"
        /\ "read" # "max retries" /\ "context" # "max retries"
    BY DEF TransportLinks, Links
  <1>2. CASE err \in {HTTPError(status) : status \in Statuses}
    <2>1. PICK status \in Statuses : err = <<"http", httpErrorForStatus(status)>>
      BY <1>2 DEF HTTPError
    <2>2. httpErrorForStatus(status) \in Links /\ httpErrorForStatus(status) # "max retries"
      BY StatusErrorType DEF SDKCodes, NilSDKError, Links
    <2>3. /\ <<"http", httpErrorForStatus(status)>> \in Errors
          /\ ~Has(<<"http", httpErrorForStatus(status)>>, "max retries")
      BY <1>1, <2>2, ShortChains
    <2>. QED  BY <2>1, <2>3
  <1>3. CASE err \in {<<"request">>, <<"request", "context">>, <<"read">>, <<"read", "context">>}
    <2>1. /\ <<"request">> \in Errors /\ ~Has(<<"request">>, "max retries")
          /\ <<"request", "context">> \in Errors /\ ~Has(<<"request", "context">>, "max retries")
      BY <1>1, ShortChains
    <2>2. /\ <<"read">> \in Errors /\ ~Has(<<"read">>, "max retries")
          /\ <<"read", "context">> \in Errors /\ ~Has(<<"read", "context">>, "max retries")
      BY <1>1, ShortChains
    <2>. QED  BY <1>3, <2>1, <2>2
  <1>. QED  BY <1>2, <1>3 DEF AttemptErrors

-----------------------------------------------------------------------------
(* The inductive invariant *)

LEMMA InitInvariant == Init => IInv
  <1>. SUFFICES ASSUME Init PROVE IInv
    OBVIOUS
  <1>1. <<>> \in Errors /\ ~Has(<<>>, "max retries")
    BY DEF Errors, Has
  <1>2. TypeOK
    <2>1. Pending \in [kind : {"pending", "value", "zero", "error"}, err : Errors]
      BY <1>1 DEF Pending
    <2>2. NoDelay \in [ok : BOOLEAN, delay : Int]
      BY DEF NoDelay
    <2>3. NoReply \in [status : 0..599, retryAfter : [form : RetryAfterForms, value : Int]]
      BY DEF NoReply, NoHeader, RetryAfterForms
    <2>4. /\ attempt \in 0..(MaxRetries + 1) /\ delay \in Int
          /\ pc \in {"start", "loop", "sleep", "send", "await", "done"}
      BY RetriesAssumption DEF Init
    <2>5. /\ lastErr \in Errors /\ ctxDone \in BOOLEAN
          /\ inflight \subseteq Attempts /\ handled \subseteq Attempts
      BY <1>1 DEF Init
    <2>6. /\ result \in [kind : {"pending", "value", "zero", "error"}, err : Errors]
          /\ nextRetryDelay \in [ok : BOOLEAN, delay : Int]
          /\ reply \in [status : 0..599, retryAfter : [form : RetryAfterForms, value : Int]]
      BY <2>1, <2>2, <2>3 DEF Init
    <2>. QED  BY <2>4, <2>5, <2>6 DEF TypeOK
  <1>3. ErrorsOfAttempts /\ ResultOfCall
    BY DEF Init, ErrorsOfAttempts, ResultOfCall, Pending, Failed
  <1>4. AttemptsOnWire
    BY RetriesAssumption DEF Init, AttemptsOnWire, Attempts
  <1>. QED  BY <1>2, <1>3, <1>4 DEF IInv

\* A returning call keeps its types, and its result tells the truth about the budget.
LEMMA ReturnStep ==
  ASSUME IInv, NEW kind \in {"value", "zero", "error"}, NEW err \in Errors,
         Return(kind, err), Has(err, "max retries") => attempt = MaxRetries + 1,
         UNCHANGED <<ctxDone, inflight, handled>>,
         reply' \in [status : 0..599, retryAfter : [form : RetryAfterForms, value : Int]]
  PROVE  IInv'
  <1>1. TypeOK'
    BY DEF IInv, TypeOK, Return
  <1>2. ErrorsOfAttempts'
    BY DEF Return, ErrorsOfAttempts
  <1>3. AttemptsOnWire'
    BY DEF IInv, TypeOK, AttemptsOnWire, Return
  <1>4. ResultOfCall'
    BY DEF Return, ResultOfCall, Failed
  <1>. QED  BY <1>1, <1>2, <1>3, <1>4 DEF IInv

\* A failed attempt leaves one of the attempts' errors and gives up its place.
LEMMA FailStep ==
  ASSUME IInv, NEW err \in AttemptErrors, NEW retryDelay \in [ok : BOOLEAN, delay : Int],
         FailAttempt(err, retryDelay), pc \in {"await", "send"}, pc = "send" => ctxDone,
         UNCHANGED <<ctxDone, inflight, handled>>,
         reply' \in [status : 0..599, retryAfter : [form : RetryAfterForms, value : Int]]
  PROVE  IInv'
  <1>1. TypeOK'
    <2>1. attempt' \in 0..(MaxRetries + 1)
      BY RetriesAssumption DEF IInv, TypeOK, AttemptsOnWire, Attempts, FailAttempt
    <2>2. lastErr' \in Errors
      BY AttemptErrorsType DEF FailAttempt
    <2>. QED  BY <2>1, <2>2 DEF IInv, TypeOK, FailAttempt
  <1>2. ErrorsOfAttempts'
    BY DEF FailAttempt, ErrorsOfAttempts
  <1>3. AttemptsOnWire'
    BY RetriesAssumption DEF IInv, TypeOK, AttemptsOnWire, Attempts, FailAttempt
  <1>4. ResultOfCall'
    BY DEF IInv, ResultOfCall, Failed, FailAttempt, Pending
  <1>. QED  BY <1>1, <1>2, <1>3, <1>4 DEF IInv

LEMMA StepInvariant == IInv /\ [Next]_vars => IInv'
  <1>. SUFFICES ASSUME IInv, [Next]_vars PROVE IInv'
    OBVIOUS
  <1>. USE RetriesAssumption
  <1>1. CASE Reject
    <2>1. <<"arguments">> \in Errors /\ ~Has(<<"arguments">>, "max retries")
      <3>1. "arguments" \in Links /\ "arguments" # "max retries"
        BY DEF Links, TransportLinks
      <3>. QED  BY <3>1, ShortChains
    <2>. QED  BY <1>1, <2>1, ReturnStep DEF Reject, IInv, TypeOK
  <1>2. CASE FirstAttempt
    BY <1>2 DEF FirstAttempt, IInv, TypeOK, ErrorsOfAttempts, AttemptsOnWire, ResultOfCall,
                Failed, Attempts
  <1>3. CASE Pause
    <2>1. attempt - 1 \in Nat
      BY <1>3 DEF Pause, IInv, TypeOK, AttemptsOnWire
    <2>2. TypeOK'
      <3>1. delay' \in Int
        BY <1>3, <2>1, BackoffType DEF Pause, IInv, TypeOK
      <3>2. nextRetryDelay' \in [ok : BOOLEAN, delay : Int]
        BY <1>3 DEF Pause, NoDelay
      <3>. QED  BY <1>3, <3>1, <3>2 DEF Pause, IInv, TypeOK
    <2>3. ErrorsOfAttempts' /\ AttemptsOnWire' /\ ResultOfCall'
      BY <1>3 DEF Pause, IInv, TypeOK, ErrorsOfAttempts, AttemptsOnWire, ResultOfCall,
                  Failed, Attempts
    <2>. QED  BY <2>2, <2>3 DEF IInv
  <1>4. CASE Exhausted
    <2>1. (<<"max retries">> \o lastErr) \in Errors
      BY WrapError DEF IInv, TypeOK, Links, TransportLinks
    <2>2. attempt = MaxRetries + 1
      <3>1. attempt \in 0..(MaxRetries + 1)
        BY DEF IInv, TypeOK
      <3>2. attempt > MaxRetries
        BY <1>4, Zenon DEF Exhausted
      <3>. QED  BY <3>1, <3>2
    <2>3. reply' \in [status : 0..599, retryAfter : [form : RetryAfterForms, value : Int]]
      BY <1>4 DEF Exhausted, IInv, TypeOK
    <2>4. /\ Return("error", <<"max retries">> \o lastErr)
          /\ UNCHANGED <<ctxDone, inflight, handled>>
      BY <1>4 DEF Exhausted
    <2>. QED  BY <2>1, <2>2, <2>3, <2>4, ReturnStep, Zenon
  <1>5. CASE Wake
    BY <1>5 DEF Wake, IInv, TypeOK, ErrorsOfAttempts, AttemptsOnWire, ResultOfCall,
                Failed, Attempts
  <1>6. CASE SleepCancelled
    <2>1. <<"context">> \in Errors /\ ~Has(<<"context">>, "max retries")
      <3>1. "context" \in Links /\ "context" # "max retries"
        BY DEF Links, TransportLinks
      <3>. QED  BY <3>1, ShortChains
    <2>. QED  BY <1>6, <2>1, ReturnStep DEF SleepCancelled, IInv, TypeOK
  <1>7. CASE Send
    <2>1. TypeOK' /\ ErrorsOfAttempts' /\ ResultOfCall'
      BY <1>7 DEF Send, IInv, TypeOK, ErrorsOfAttempts, AttemptsOnWire, ResultOfCall,
                  Failed, Attempts, NoReply, NoHeader, RetryAfterForms
    <2>2. AttemptsOnWire'
      BY <1>7 DEF Send, IInv, TypeOK, AttemptsOnWire, Attempts
    <2>. QED  BY <2>1, <2>2 DEF IInv
  <1>8. CASE SendCancelled
    <2>1. NoReply \in [status : 0..599, retryAfter : [form : RetryAfterForms, value : Int]]
      BY DEF NoReply, NoHeader, RetryAfterForms
    <2>. QED  BY <1>8, <2>1, FailStep DEF SendCancelled, AttemptErrors, IInv, TypeOK
  <1>9. CASE RequestFails
    <2>1. PICK err \in {<<"request">>, <<"request", "context">>} : FailAttempt(err, nextRetryDelay)
      BY <1>9 DEF RequestFails
    <2>2. /\ pc \in {"await", "send"} /\ (pc = "send" => ctxDone)
          /\ UNCHANGED <<ctxDone, inflight, handled>>
          /\ nextRetryDelay \in [ok : BOOLEAN, delay : Int]
          /\ reply' \in [status : 0..599, retryAfter : [form : RetryAfterForms, value : Int]]
      BY <1>9 DEF RequestFails, IInv, TypeOK
    <2>3. err \in AttemptErrors
      BY <2>1 DEF AttemptErrors
    <2>. QED  BY <2>1, <2>2, <2>3, FailStep, Zenon
  <1>10. CASE ReadFails
    <2>1. PICK err \in {<<"read">>, <<"read", "context">>} : FailAttempt(err, nextRetryDelay)
      BY <1>10 DEF ReadFails
    <2>2. /\ pc \in {"await", "send"} /\ (pc = "send" => ctxDone)
          /\ UNCHANGED <<ctxDone, inflight, handled>>
          /\ nextRetryDelay \in [ok : BOOLEAN, delay : Int]
          /\ reply' \in [status : 0..599, retryAfter : [form : RetryAfterForms, value : Int]]
      BY <1>10 DEF ReadFails, IInv, TypeOK
    <2>3. err \in AttemptErrors
      BY <2>1 DEF AttemptErrors
    <2>. QED  BY <2>1, <2>2, <2>3, FailStep, Zenon
  <1>11. CASE Receive
    <2>1. PICK status \in Statuses, header \in RetryAfters, body \in Bodies :
            /\ reply' = [status |-> status, retryAfter |-> header]
            /\ React(status, header, body)
      BY <1>11 DEF Receive
    <2>2. reply' \in [status : 0..599, retryAfter : [form : RetryAfterForms, value : Int]]
      BY <2>1, StatusAssumption, RetryAfterAssumption
    <2>3. /\ pc \in {"await", "send"} /\ (pc = "send" => ctxDone)
          /\ UNCHANGED <<ctxDone, inflight, handled>>
      BY <1>11 DEF Receive
    <2>4. HTTPError(status) \in AttemptErrors
      BY DEF AttemptErrors
    <2>5. HTTPError(status) \in Errors /\ ~Has(HTTPError(status), "max retries")
      BY <2>4, AttemptErrorsType
    <2>6. ASSUME FailAttempt(HTTPError(status), RequestedDelay(status, header)) PROVE IInv'
      <3>1. RequestedDelay(status, header) \in [ok : BOOLEAN, delay : Int]
        BY RetryAfterType, RetryAfterAssumption DEF RequestedDelay, IInv, TypeOK
      <3>. QED  BY <2>2, <2>3, <2>4, <2>6, <3>1, FailStep, Zenon
    <2>7. ASSUME Return("error", HTTPError(status)) PROVE IInv'
      BY <2>2, <2>3, <2>5, <2>7, ReturnStep, Zenon
    <2>8. ASSUME Decode(body) PROVE IInv'
      <3>1. PICK kind \in {"value", "zero", "error"}, err \in {<<>>, <<"decode">>} :
              Return(kind, err)
        BY <2>8 DEF Decode, Bodies
      <3>2. err \in Errors /\ ~Has(err, "max retries")
        <4>1. "decode" \in Links /\ "decode" # "max retries"
          BY DEF Links, TransportLinks
        <4>2. <<"decode">> \in Errors /\ ~Has(<<"decode">>, "max retries")
          BY <4>1, ShortChains
        <4>3. <<>> \in Errors /\ ~Has(<<>>, "max retries")
          BY DEF Errors, Has
        <4>. QED  BY <3>1, <4>2, <4>3
      <3>. QED  BY <2>2, <2>3, <3>1, <3>2, ReturnStep, Zenon
    <2>. QED  BY <2>1, <2>6, <2>7, <2>8 DEF React
  <1>12. CASE ServerHandles
    <2>1. PICK a \in inflight : /\ inflight' = inflight \ {a}
                               /\ handled' = handled \cup {a}
                               /\ UNCHANGED <<client, ctxDone, reply>>
      BY <1>12 DEF ServerHandles
    <2>2. inflight' \cup handled' = inflight \cup handled /\ inflight' \cap handled' = {}
      BY <2>1 DEF IInv, AttemptsOnWire
    <2>3. inflight' \subseteq Attempts /\ handled' \subseteq Attempts
      BY <2>2 DEF IInv, TypeOK
    <2>4. TypeOK'
      BY <2>1, <2>3 DEF client, IInv, TypeOK
    <2>5. AttemptsOnWire'
      BY <2>1, <2>2 DEF client, IInv, AttemptsOnWire
    <2>6. ErrorsOfAttempts' /\ ResultOfCall'
      BY <2>1 DEF client, IInv, ErrorsOfAttempts, ResultOfCall, Failed
    <2>. QED  BY <2>4, <2>5, <2>6 DEF IInv
  <1>13. CASE CancelContext
    BY <1>13 DEF CancelContext, client, IInv, TypeOK, ErrorsOfAttempts, AttemptsOnWire,
                 ResultOfCall, Failed
  <1>14. CASE UNCHANGED vars
    <2>1. UNCHANGED <<client, ctxDone, reply, inflight, handled>>
      BY <1>14 DEF vars
    <2>2. TypeOK'
      BY <2>1 DEF client, IInv, TypeOK
    <2>3. AttemptsOnWire'
      BY <2>1 DEF client, IInv, AttemptsOnWire
    <2>4. ErrorsOfAttempts' /\ ResultOfCall'
      BY <2>1 DEF client, IInv, ErrorsOfAttempts, ResultOfCall, Failed
    <2>. QED  BY <2>2, <2>3, <2>4 DEF IInv
  <1>. QED  BY <1>1, <1>2, <1>3, <1>4, <1>5, <1>6, <1>7, <1>8, <1>9, <1>10, <1>11, <1>12,
                <1>13, <1>14 DEF Next, DoStep

LEMMA InvariantHolds == Spec => []IInv
  BY InitInvariant, StepInvariant, PTL DEF Spec

-----------------------------------------------------------------------------
(* Theorems *)

\* Every variable of a call has its type in every reachable state.
THEOREM TypeCorrectness == Spec => []TypeOK
  BY InvariantHolds, PTL DEF IInv

(***************************************************************************)
(* The retry loop of HTTPClient.Do never exceeds its budget, skips no      *)
(* attempt of an uncancelled call, and gives up only when the budget is    *)
(* spent.                                                                  *)
(***************************************************************************)
THEOREM BudgetIsKept == Spec => []AttemptBudget
  <1>1. IInv => AttemptBudget
    <2>. SUFFICES ASSUME IInv PROVE AttemptBudget
      OBVIOUS
    <2>. USE RetriesAssumption
    <2>1. Cardinality(inflight \cup handled) <= MaxRetries + 1
      <3>1. inflight \cup handled \subseteq Attempts
        BY DEF IInv, TypeOK
      <3>2. IsFiniteSet(Attempts) /\ Cardinality(Attempts) = MaxRetries + 1
        BY FS_Interval DEF Attempts
      <3>3. Cardinality(inflight \cup handled) <= Cardinality(Attempts)
        BY <3>1, <3>2, FS_Subset
      <3>. QED  BY <3>2, <3>3
    <2>2. ~ctxDone /\ pc \in {"loop", "sleep", "send"} =>
            inflight \cup handled = 0..(attempt - 1)
      BY DEF IInv, AttemptsOnWire
    <2>. QED  BY <2>1, <2>2 DEF IInv, AttemptsOnWire, ResultOfCall, AttemptBudget
  <1>. QED  BY <1>1, InvariantHolds, PTL

\* What errors.Is finds in an error it finds behind the wrapper as well.
LEMMA Headed ==
  ASSUME NEW S, NEW s \in Seq(S), NEW x \in S
  PROVE  (<<x>> \o s)[1] = x /\ 1 \in DOMAIN (<<x>> \o s)
  OBVIOUS

LEMMA WrappedLink ==
  ASSUME NEW err \in Errors, NEW link, Has(err, link)
  PROVE  Has(<<"max retries">> \o err, link) /\ Has(<<"max retries">> \o err, "max retries")
  <1>1. PICK i \in DOMAIN err : err[i] = link
    BY DEF Has
  <1>2. "max retries" \in Links
    BY DEF Links, TransportLinks
  <1>3. /\ i + 1 \in DOMAIN (<<"max retries">> \o err)
        /\ (<<"max retries">> \o err)[i + 1] = err[i]
    BY <1>1, <1>2, Prepended DEF Errors
  <1>4. Has(<<"max retries">> \o err, link)
    BY <1>1, <1>3 DEF Has
  <1>5. (<<"max retries">> \o err)[1] = "max retries" /\ 1 \in DOMAIN (<<"max retries">> \o err)
    BY <1>2, Headed DEF Errors
  <1>. QED  BY <1>4, <1>5 DEF Has

(***************************************************************************)
(* A call that noticed the cancellation of its context returns an error in *)
(* which errors.Is finds the context's error.  An attempt that failed on   *)
(* the context is never followed by one that is sent: NoticedCancellation. *)
(***************************************************************************)
NoticedCancellation ==
  Has(lastErr, "context") => ctxDone /\ pc \notin {"start", "await"}

CancelInv == NoticedCancellation /\ CancellationSurfaces

\* A cancellation that Do has noticed is found by errors.Is in what it returns.
THEOREM CancellationIsReported == Spec => []CancellationSurfaces
  <1>1. Init => CancelInv
    BY DEF Init, CancelInv, NoticedCancellation, CancellationSurfaces, Has, Failed
  <1>2. IInv /\ CancelInv /\ [Next]_vars => CancelInv'
    <2>. SUFFICES ASSUME IInv, CancelInv, [Next]_vars PROVE CancelInv'
      OBVIOUS
    <2>. USE DEF CancelInv, NoticedCancellation, CancellationSurfaces, Failed
    <2>1. CASE Reject
      BY <2>1 DEF Reject, Return
    <2>2. CASE FirstAttempt \/ Pause \/ Wake \/ Send
      BY <2>2 DEF FirstAttempt, Pause, Wake, Send
    <2>3. CASE Exhausted
      <3>1. lastErr \in Errors
        BY DEF IInv, TypeOK
      <3>2. Has(lastErr, "context") => Has(<<"max retries">> \o lastErr, "context")
        BY <3>1, WrappedLink
      <3>3. /\ pc = "loop" /\ pc' = "done"
            /\ result' = [kind |-> "error", err |-> <<"max retries">> \o lastErr]
            /\ UNCHANGED <<lastErr, ctxDone>>
        BY <2>3 DEF Exhausted, Return
      <3>4. result'.err = <<"max retries">> \o lastErr
        BY <3>3
      <3>. QED  BY <3>2, <3>3, <3>4
    <2>4. CASE SleepCancelled
      <3>1. /\ result'.err = <<"context">> /\ pc' = "done"
            /\ ctxDone /\ UNCHANGED <<lastErr, ctxDone>>
        BY <2>4 DEF SleepCancelled, Return
      <3>2. Has(<<"context">>, "context")
        BY DEF Has
      <3>. QED  BY <3>1, <3>2
    <2>5. CASE SendCancelled
      BY <2>5 DEF SendCancelled, FailAttempt
    <2>6. CASE RequestFails
      <3>1. ~Has(<<"request">>, "context")
        BY DEF Has
      <3>. QED  BY <2>6, <3>1 DEF RequestFails, FailAttempt
    <2>7. CASE ReadFails
      <3>1. ~Has(<<"read">>, "context")
        BY DEF Has
      <3>. QED  BY <2>7, <3>1 DEF ReadFails, FailAttempt
    <2>8. CASE Receive
      <3>1. ~Has(lastErr, "context") /\ pc = "await"
        BY <2>8 DEF Receive
      <3>2. PICK status \in Statuses, header \in RetryAfters, body \in Bodies :
              React(status, header, body)
        BY <2>8 DEF Receive
      <3>3. ~Has(HTTPError(status), "context")
        <4>1. httpErrorForStatus(status) # "context"
          BY StatusErrorType DEF SDKCodes, NilSDKError
        <4>. QED  BY <4>1 DEF HTTPError, Has
      <3>. QED  BY <3>1, <3>2, <3>3 DEF React, FailAttempt, Return, Decode, Bodies
    <2>9. CASE ServerHandles
      BY <2>9 DEF ServerHandles, client
    <2>10. CASE CancelContext
      BY <2>10 DEF CancelContext, client
    <2>11. CASE UNCHANGED vars
      BY <2>11 DEF vars, client
    <2>. QED  BY <2>1, <2>2, <2>3, <2>4, <2>5, <2>6, <2>7, <2>8, <2>9, <2>10, <2>11
              DEF Next, DoStep
  <1>. QED  BY <1>1, <1>2, InvariantHolds, PTL DEF Spec, CancelInv

(***************************************************************************)
(* A call cancelled between two attempts ends with the context's error.    *)
(* Where it can be from then on: Doomed, which no step leaves.  It sends   *)
(* nothing more, so what it fails on is the context.                       *)
(***************************************************************************)
Doomed ==
  /\ ctxDone
  /\ \/ pc \in {"sleep", "send"}
     \/ pc = "loop" /\ (attempt <= MaxRetries \/ Has(lastErr, "context"))
     \/ Failed /\ Has(result.err, "context")

LEMMA DoomedStays == IInv /\ Doomed /\ [Next]_vars => Doomed'
  <1>. SUFFICES ASSUME IInv, Doomed, [Next]_vars PROVE Doomed'
    OBVIOUS
  <1>. USE DEF Doomed, Failed
  <1>1. CASE Pause \/ Wake
    BY <1>1 DEF Pause, Wake
  <1>2. CASE Exhausted
    <2>1. /\ pc = "loop" /\ pc' = "done" /\ ctxDone' = ctxDone /\ attempt > MaxRetries
          /\ result' = [kind |-> "error", err |-> <<"max retries">> \o lastErr]
      BY <1>2 DEF Exhausted, Return
    <2>2. lastErr \in Errors /\ attempt \in Int
      BY RetriesAssumption DEF IInv, TypeOK
    <2>3. Has(lastErr, "context")
      <3>1. ~(attempt <= MaxRetries)
        <4>1. attempt > MaxRetries
          BY <1>2, Zenon DEF Exhausted
        <4>. HIDE DEF Doomed
        <4>. QED  BY <4>1, <2>2, RetriesAssumption
      <3>2. pc # "done" /\ pc \notin {"sleep", "send"}
        BY <2>1
      <3>. QED  BY <3>1, <3>2, Zenon
    <2>4. result'.kind = "error" /\ result'.err = <<"max retries">> \o lastErr
      BY <2>1
    <2>. QED  BY <2>1, <2>2, <2>3, <2>4, WrappedLink
  <1>3. CASE SleepCancelled
    <2>1. /\ pc' = "done" /\ ctxDone' = ctxDone
          /\ result'.kind = "error" /\ result'.err = <<"context">>
      BY <1>3 DEF SleepCancelled, Return
    <2>2. Has(<<"context">>, "context")
      BY DEF Has
    <2>. QED  BY <2>1, <2>2
  <1>4. CASE SendCancelled
    <2>1. pc' = "loop" /\ ctxDone' = ctxDone /\ lastErr' = <<"request", "context">>
      BY <1>4 DEF SendCancelled, FailAttempt
    <2>2. Has(<<"request", "context">>, "context")
      BY DEF Has
    <2>. QED  BY <2>1, <2>2
  <1>5. CASE Reject \/ FirstAttempt \/ Send \/ RequestFails \/ ReadFails \/ Receive
    BY <1>5 DEF Reject, FirstAttempt, Send, RequestFails, ReadFails, Receive
  <1>6. CASE ServerHandles \/ CancelContext \/ UNCHANGED vars
    BY <1>6 DEF ServerHandles, CancelContext, vars, client
  <1>. QED  BY <1>1, <1>2, <1>3, <1>4, <1>5, <1>6 DEF Next, DoStep

\* HTTPClient.Do, cancelled between two attempts, returns an error in which errors.Is
\* finds the context's, whatever is left of its budget.
THEOREM CancelledCallsFail == Spec => CancelledBetweenAttempts
  <1>1. ctxDone /\ BetweenAttempts => Doomed
    BY DEF Doomed, BetweenAttempts
  <1>2. Doomed => (pc = "done" => Failed /\ Has(result.err, "context"))
    BY DEF Doomed, Failed
  <1>. QED
    BY <1>1, <1>2, DoomedStays, InvariantHolds, PTL DEF Spec, CancelledBetweenAttempts

-----------------------------------------------------------------------------
(* The latest reply decides the outcome and the pause *)

\* While the call goes on its latest reply, if there is one, is worth a retry, and
\* the reason of the failure is that reply.
LatestReply ==
  /\ pc \in {"start", "await"} => reply = NoReply
  /\ pc \in {"loop", "sleep", "send"} => reply.status = 0 \/ Retryable(reply.status)
  /\ pc = "loop" /\ reply.status # 0 => lastErr = HTTPError(reply.status)

ReplyInv == LatestReply /\ OutcomeTellsLastReply

\* A status's error is found in the error of an attempt it answered.
LEMMA StatusErrorFound ==
  ASSUME NEW status PROVE Has(HTTPError(status), httpErrorForStatus(status))
  <1>1. <<"http", httpErrorForStatus(status)>>[2] = httpErrorForStatus(status)
        /\ 2 \in DOMAIN <<"http", httpErrorForStatus(status)>>
    OBVIOUS
  <1>. QED  BY <1>1 DEF HTTPError, Has

LEMMA NoReplyStatus == NoReply.status = 0 /\ NoReply.retryAfter.form = "none"
  BY DEF NoReply, NoHeader

LEMMA RetryableIsNotDefinite ==
  ASSUME NEW status \in 0..599
  PROVE  /\ status = 0 \/ Retryable(status) => ~Definite(status)
         /\ ~Retryable(status) /\ status >= 400 => Definite(status)
  BY DEF Retryable, Definite

\* A failed attempt is left behind with no reply, or with one worth a retry.
LEMMA FailedAttemptReply ==
  ASSUME NEW err, NEW retryDelay, FailAttempt(err, retryDelay), NEW status \in 0..599,
         reply'.status = status, status = 0 \/ (Retryable(status) /\ err = HTTPError(status))
  PROVE  ReplyInv'
  <1>1. pc' = "loop" /\ lastErr' = err
    BY DEF FailAttempt
  <1>. QED  BY <1>1, RetryableIsNotDefinite DEF ReplyInv, LatestReply, OutcomeTellsLastReply

LEMMA RepliesAreLatest == Spec => []ReplyInv
  <1>1. Init => ReplyInv
    <2>. SUFFICES ASSUME Init PROVE ReplyInv
      OBVIOUS
    <2>1. pc = "start" /\ reply = NoReply /\ ~Definite(reply.status)
      BY NoReplyStatus DEF Init, Definite
    <2>. QED  BY <2>1 DEF ReplyInv, LatestReply, OutcomeTellsLastReply
  <1>2. IInv /\ ReplyInv /\ [Next]_vars => ReplyInv'
    <2>. SUFFICES ASSUME IInv, ReplyInv, [Next]_vars PROVE ReplyInv'
      OBVIOUS
    <2>0. reply.status \in 0..599 /\ lastErr \in Errors
      BY DEF IInv, TypeOK
    <2>n. ~Definite(0)
      BY DEF Definite
    <2>1. CASE Reject
      <3>1. /\ reply.status = 0 /\ UNCHANGED reply /\ pc' = "done"
            /\ result' = [kind |-> "error", err |-> <<"arguments">>]
        BY <2>1, NoReplyStatus DEF Reject, Return, ReplyInv, LatestReply
      <3>2. result'.kind = "error"
        BY <3>1
      <3>3. reply'.status = 0 /\ ~(reply'.status >= 400)
        BY <3>1
      <3>. QED  BY <2>n, <3>1, <3>2, <3>3 DEF ReplyInv, LatestReply, OutcomeTellsLastReply
    <2>2. CASE FirstAttempt
      BY <2>2, <2>n, NoReplyStatus DEF FirstAttempt, ReplyInv, LatestReply, OutcomeTellsLastReply
    <2>3. CASE Pause \/ Wake
      BY <2>3 DEF Pause, Wake, ReplyInv, LatestReply, OutcomeTellsLastReply
    <2>4. CASE Exhausted
      <3>1. /\ pc = "loop" /\ pc' = "done" /\ UNCHANGED reply
            /\ result' = [kind |-> "error", err |-> <<"max retries">> \o lastErr]
        BY <2>4 DEF Exhausted, Return
      <3>2. result'.kind = "error" /\ result'.err = <<"max retries">> \o lastErr
        BY <3>1
      <3>3. ~Definite(reply.status)
        BY <3>1 DEF ReplyInv, OutcomeTellsLastReply
      <3>4. reply.status >= 400 => lastErr = HTTPError(reply.status)
        <4>1. reply.status >= 400 => reply.status # 0
          BY <2>0
        <4>. QED  BY <3>1, <4>1 DEF ReplyInv, LatestReply
      <3>5. reply.status >= 400 =>
              /\ Has(result'.err, httpErrorForStatus(reply.status))
              /\ Has(result'.err, "max retries")
        BY <2>0, <3>2, <3>4, StatusErrorFound, WrappedLink
      <3>. QED  BY <3>1, <3>2, <3>3, <3>5 DEF ReplyInv, LatestReply, OutcomeTellsLastReply
    <2>5. CASE SleepCancelled
      <3>1. /\ pc' = "done" /\ UNCHANGED reply /\ pc = "sleep"
            /\ result' = [kind |-> "error", err |-> <<"context">>]
        BY <2>5 DEF SleepCancelled, Return
      <3>2. result'.kind = "error" /\ result'.err = <<"context">>
        BY <3>1
      <3>3. Has(<<"context">>, "context")
        BY DEF Has
      <3>. QED  BY <3>1, <3>2, <3>3 DEF ReplyInv, LatestReply, OutcomeTellsLastReply
    <2>6. CASE Send
      BY <2>6, <2>n, NoReplyStatus DEF Send, ReplyInv, LatestReply, OutcomeTellsLastReply
    <2>7. CASE SendCancelled
      BY <2>7, NoReplyStatus, FailedAttemptReply DEF SendCancelled
    <2>8. CASE RequestFails \/ ReadFails
      <3>1. reply'.status = 0
        BY <2>8, NoReplyStatus DEF RequestFails, ReadFails, ReplyInv, LatestReply
      <3>. QED  BY <2>8, <3>1, FailedAttemptReply DEF RequestFails, ReadFails
    <2>9. CASE Receive
      <3>1. PICK status \in Statuses, header \in RetryAfters, body \in Bodies :
              /\ reply' = [status |-> status, retryAfter |-> header]
              /\ React(status, header, body)
        BY <2>9 DEF Receive
      <3>2. reply'.status = status /\ status \in 100..599 /\ status \in 0..599
        BY <3>1, StatusAssumption
      <3>3. ASSUME Retryable(status), FailAttempt(HTTPError(status), RequestedDelay(status, header))
            PROVE  ReplyInv'
        BY <3>2, <3>3, FailedAttemptReply
      <3>4. ASSUME ~Retryable(status), status >= 400, Return("error", HTTPError(status))
            PROVE  ReplyInv'
        <4>1. pc' = "done" /\ result'.kind = "error" /\ result'.err = HTTPError(status)
          BY <3>4 DEF Return
        <4>2. Definite(status) /\ Has(HTTPError(status), httpErrorForStatus(status))
          BY <3>2, <3>4, RetryableIsNotDefinite, StatusErrorFound
        <4>3. ~Has(HTTPError(status), "max retries")
          BY <3>1, AttemptErrorsType DEF AttemptErrors
        <4>. QED  BY <3>2, <4>1, <4>2, <4>3 DEF ReplyInv, LatestReply, OutcomeTellsLastReply
      <3>5. ASSUME status < 400, Decode(body) PROVE ReplyInv'
        <4>1. pc' = "done"
          BY <3>5 DEF Decode, Return, Bodies
        <4>2. status \in 100..399 /\ ~(status >= 400)
          BY <3>2, <3>5
        <4>. QED  BY <3>2, <4>1, <4>2 DEF ReplyInv, LatestReply, OutcomeTellsLastReply
      <3>. QED  BY <3>1, <3>3, <3>4, <3>5 DEF React
    <2>10. CASE ServerHandles \/ CancelContext \/ UNCHANGED vars
      <3>1. UNCHANGED <<pc, reply, result, lastErr>>
        BY <2>10 DEF ServerHandles, CancelContext, vars, client
      <3>2. LatestReply'
        BY <3>1 DEF ReplyInv, LatestReply
      <3>3. OutcomeTellsLastReply'
        BY <3>1 DEF ReplyInv, OutcomeTellsLastReply
      <3>. QED  BY <3>2, <3>3 DEF ReplyInv
    <2>. QED  BY <2>1, <2>2, <2>3, <2>4, <2>5, <2>6, <2>7, <2>8, <2>9, <2>10 DEF Next, DoStep
  <1>. QED  BY <1>1, <1>2, InvariantHolds, PTL DEF Spec

(***************************************************************************)
(* What HTTPClient.Do returns is what its latest attempt was answered, for *)
(* every budget, every set of statuses and every pause asked for: no older *)
(* reply and no older error shows in the outcome.                          *)
(***************************************************************************)
THEOREM LatestReplyDecides == Spec => []OutcomeTellsLastReply
  BY RepliesAreLatest, PTL DEF ReplyInv

(***************************************************************************)
(* The pause before an attempt follows from the reply to the attempt       *)
(* before it, for every Retry-After a Duration can hold, provided the      *)
(* backoff itself fits into a Duration.                                    *)
(***************************************************************************)
BackoffFits ==
  \A rank \in Nat :
    BaseDelay * 2 ^ Capped(rank, MaxBackoffExponent) \in -DurationLimit..(DurationLimit - 1)

\* The pause that the latest reply asks for.
OwedDelay ==
  IF reply.status = 429 THEN parseRetryAfter(reply.retryAfter) ELSE NoDelay

PauseDecided ==
  /\ pc \in {"start", "sleep", "send", "await"} => nextRetryDelay = NoDelay
  /\ pc = "loop" /\ attempt <= MaxRetries =>
       IF OwedDelay.ok THEN nextRetryDelay = OwedDelay ELSE nextRetryDelay = NoDelay
  /\ pc = "sleep" =>
       /\ attempt > 0
       /\ IF OwedDelay.ok THEN delay = OwedDelay.delay ELSE delay = exponentialBackoff(attempt - 1)

\* A Duration that fits does not wrap.
LEMMA WrapFits ==
  ASSUME NEW x \in -DurationLimit..(DurationLimit - 1) PROVE Wrap(x) = x
  <1>1. DurationLimit \in Nat \ {0} /\ x + DurationLimit \in 0..(2 * DurationLimit - 1)
    BY DurationAssumption
  <1>2. (x + DurationLimit) % (2 * DurationLimit) = x + DurationLimit
    BY <1>1
  <1>. QED  BY <1>1, <1>2 DEF Wrap

\* A Retry-After that a Duration can hold is granted in full.
LEMMA AskedIsGranted ==
  ASSUME NEW header \in [form : RetryAfterForms, value : Int]
  PROVE  /\ parseRetryAfter(header).ok <=> header.form # "none"
         /\ header.form # "none" /\ Asked(header) < DurationLimit =>
              parseRetryAfter(header).delay >= Asked(header)
  <1>0. /\ header.value \in Int /\ Second \in Nat \ {0} /\ DurationLimit \in Nat \ {0}
    BY DurationAssumption
  <1>1. CASE header.form = "none"
    BY <1>1 DEF parseRetryAfter, NoDelay
  <1>2. CASE header.form # "none"
    <2>. DEFINE granted == IF header.value <= 0 THEN 0
                           ELSE IF header.form = "date" THEN Capped(header.value, DurationLimit - 1)
                           ELSE Wrap(header.value * Second)
    <2>1. parseRetryAfter(header) = [ok |-> TRUE, delay |-> granted]
      BY <1>2 DEF parseRetryAfter
    <2>2. parseRetryAfter(header).ok /\ parseRetryAfter(header).delay = granted
      BY <2>1
    <2>3. CASE header.value <= 0
      <3>1. header.value * Second <= 0
        BY <1>0, <2>3
      <3>2. granted = 0
        BY <2>3
      <3>. QED  BY <1>0, <1>2, <2>2, <2>3, <3>1, <3>2 DEF Asked
    <2>4. CASE header.value > 0 /\ header.form = "date"
      <3>1. granted = Capped(header.value, DurationLimit - 1) /\ Asked(header) = header.value
        <4>1. ~(header.value <= 0)
          BY <1>0, <2>4
        <4>. QED  BY <2>4, <4>1 DEF Asked
      <3>. QED  BY <1>0, <1>2, <2>2, <3>1 DEF Capped
    <2>5. CASE header.value > 0 /\ header.form # "date"
      <3>. DEFINE x == header.value * Second
      <3>1. granted = Wrap(x) /\ Asked(header) = x
        <4>1. ~(header.value <= 0) /\ header.form = "seconds"
          BY <1>0, <1>2, <2>5 DEF RetryAfterForms
        <4>. QED  BY <2>5, <4>1 DEF Asked
      <3>2. x \in Int /\ x > 0
        BY <1>0, <2>5
      <3>. HIDE DEF x
      <3>3. x < DurationLimit => Wrap(x) = x
        BY <1>0, <3>2, WrapFits
      <3>. QED  BY <1>2, <2>2, <3>1, <3>2, <3>3
    <2>. QED  BY <1>0, <2>3, <2>4, <2>5
  <1>. QED  BY <1>1, <1>2

\* A failed attempt hands on the pause its reply asks for.
LEMMA FailedAttemptPause ==
  ASSUME NEW err, NEW retryDelay, FailAttempt(err, retryDelay), attempt \in Nat,
         attempt < MaxRetries => IF OwedDelay'.ok THEN retryDelay = OwedDelay' ELSE retryDelay = NoDelay
  PROVE  PauseDecided'
  <1>1. pc' = "loop" /\ nextRetryDelay' = retryDelay /\ attempt' = attempt + 1
    BY DEF FailAttempt
  <1>2. attempt' <= MaxRetries => attempt < MaxRetries
    BY <1>1, RetriesAssumption
  <1>. QED  BY <1>1, <1>2 DEF PauseDecided

LEMMA NothingOwed == ~NoDelay.ok /\ (reply.status # 429 => ~OwedDelay.ok)
  BY DEF OwedDelay, NoDelay

\* Each pause of Do is the one the reply before it asks for, if the longest backoff is
\* a Duration.
THEOREM PauseFollowsReply ==
  ASSUME BackoffFits
  PROVE  Spec => []PauseFollowsLastReply
  <1>1. Init => PauseDecided
    BY DEF Init, PauseDecided
  <1>2. IInv /\ ReplyInv /\ PauseDecided /\ [Next]_vars => PauseDecided'
    <2>. SUFFICES ASSUME IInv, ReplyInv, PauseDecided, [Next]_vars PROVE PauseDecided'
      OBVIOUS
    <2>0. attempt \in 0..(MaxRetries + 1) /\ attempt \in Nat
      BY RetriesAssumption DEF IInv, TypeOK
    <2>1. CASE Reject \/ Exhausted \/ SleepCancelled
      BY <2>1 DEF Reject, Exhausted, SleepCancelled, Return, PauseDecided
    <2>2. CASE FirstAttempt \/ Wake
      BY <2>2 DEF FirstAttempt, Wake, PauseDecided
    <2>3. CASE Pause
      <3>1. UNCHANGED OwedDelay
        BY <2>3 DEF Pause, OwedDelay
      <3>2. attempt > 0
        BY <2>3 DEF Pause, IInv, AttemptsOnWire
      <3>. QED  BY <2>3, <3>1, <3>2, NothingOwed DEF Pause, PauseDecided
    <2>4. CASE Send
      BY <2>4 DEF Send, PauseDecided
    <2>5. CASE SendCancelled \/ RequestFails \/ ReadFails
      <3>1. reply'.status = 0 /\ nextRetryDelay = NoDelay
        BY <2>5, NoReplyStatus
           DEF SendCancelled, RequestFails, ReadFails, PauseDecided, ReplyInv, LatestReply
      <3>2. ~OwedDelay'.ok
        BY <3>1 DEF OwedDelay, NoDelay
      <3>3. PICK err : FailAttempt(err, nextRetryDelay)
        BY <2>5 DEF SendCancelled, RequestFails, ReadFails
      <3>. QED  BY <2>0, <3>1, <3>2, <3>3, FailedAttemptPause
    <2>6. CASE Receive
      <3>1. PICK status \in Statuses, header \in RetryAfters, body \in Bodies :
              /\ reply' = [status |-> status, retryAfter |-> header]
              /\ React(status, header, body)
        BY <2>6 DEF Receive
      <3>2. reply'.status = status /\ reply'.retryAfter = header
        BY <3>1
      <3>3. nextRetryDelay = NoDelay
        BY <2>6 DEF Receive, PauseDecided
      <3>4. OwedDelay' = IF status = 429 THEN parseRetryAfter(header) ELSE NoDelay
        BY <3>2 DEF OwedDelay, parseRetryAfter, NoDelay
      <3>5. ASSUME FailAttempt(HTTPError(status), RequestedDelay(status, header))
            PROVE  PauseDecided'
        <4>1. attempt < MaxRetries =>
                IF OwedDelay'.ok THEN RequestedDelay(status, header) = OwedDelay'
                ELSE RequestedDelay(status, header) = NoDelay
          BY <3>3, <3>4, NothingOwed DEF RequestedDelay
        <4>. QED  BY <2>0, <3>5, <4>1, FailedAttemptPause
      <3>6. ASSUME Return("error", HTTPError(status)) \/ Decode(body) PROVE PauseDecided'
        <4>1. pc' = "done"
          BY <3>6 DEF Decode, Return, Bodies
        <4>. QED  BY <4>1 DEF PauseDecided
      <3>. QED  BY <3>1, <3>5, <3>6 DEF React
    <2>7. CASE ServerHandles \/ CancelContext \/ UNCHANGED vars
      <3>1. UNCHANGED <<pc, attempt, nextRetryDelay, delay, reply>>
        BY <2>7 DEF ServerHandles, CancelContext, vars, client
      <3>2. UNCHANGED OwedDelay
        BY <3>1 DEF OwedDelay
      <3>. QED  BY <3>1, <3>2 DEF PauseDecided, exponentialBackoff
    <2>. QED  BY <2>1, <2>2, <2>3, <2>4, <2>5, <2>6, <2>7 DEF Next, DoStep
  <1>3. IInv /\ PauseDecided => PauseFollowsLastReply
    <2>. SUFFICES ASSUME IInv, PauseDecided, pc = "sleep"
                  PROVE  IF reply.status = 429 /\ reply.retryAfter.form # "none"
                         THEN Asked(reply.retryAfter) < DurationLimit =>
                                delay >= Asked(reply.retryAfter)
                         ELSE delay = BaseDelay * 2 ^ Capped(attempt - 1, MaxBackoffExponent)
      BY DEF PauseFollowsLastReply
    <2>1. reply.retryAfter \in [form : RetryAfterForms, value : Int]
      BY DEF IInv, TypeOK
    <2>2. reply.status = 429 => (OwedDelay.ok <=> reply.retryAfter.form # "none")
      BY <2>1, AskedIsGranted DEF OwedDelay
    <2>3. CASE reply.status = 429 /\ reply.retryAfter.form # "none"
      <3>1. delay = parseRetryAfter(reply.retryAfter).delay
        BY <2>2, <2>3 DEF PauseDecided, OwedDelay
      <3>. QED  BY <2>1, <2>3, <3>1, AskedIsGranted
    <2>4. CASE ~(reply.status = 429 /\ reply.retryAfter.form # "none")
      <3>1. delay = exponentialBackoff(attempt - 1)
        BY <2>2, <2>4, NothingOwed DEF PauseDecided
      <3>2. attempt - 1 \in Nat
        BY RetriesAssumption DEF IInv, TypeOK, PauseDecided
      <3>3. exponentialBackoff(attempt - 1) =
              BaseDelay * 2 ^ Capped(attempt - 1, MaxBackoffExponent)
        BY <3>2, WrapFits DEF BackoffFits, exponentialBackoff
      <3>. QED  BY <2>4, <3>1, <3>3
    <2>. QED  BY <2>3, <2>4
  <1>. QED  BY <1>1, <1>2, <1>3, InvariantHolds, RepliesAreLatest, PTL DEF Spec

-----------------------------------------------------------------------------
(* The call implements AtLeastOnceCall *)

\* A call that returns without having had an answer leaves the outcome unknown.
LEMMA GivesUp ==
  ASSUME pc # "done", pc' = "done", result'.kind = "error",
         result'.err[1] \notin {"http", "decode"}, UNCHANGED handled
  PROVE  Call!Next
  <1>1. outcome = "pending" /\ outcome' = "unknown"
    BY DEF outcome, Answered
  <1>. QED  BY <1>1 DEF Call!Next, Call!GiveUp

\* A call that returns an answer has had an attempt handled.
LEMMA Answers ==
  ASSUME pc # "done", pc' = "done", handled # {},
         result'.kind # "error" \/ result'.err[1] \in {"http", "decode"}, UNCHANGED handled
  PROVE  Call!Next
  <1>1. outcome = "pending" /\ outcome' = "answered"
    BY DEF outcome, Answered
  <1>. QED  BY <1>1 DEF Call!Next, Call!Answer

(***************************************************************************)
(* HTTPClient.Do, its backoff, Retry-After pauses and cancellation         *)
(* included, is an at-least-once call: an outcome is decided once, and     *)
(* only an attempt the server has handled answers it.                      *)
(***************************************************************************)
THEOREM DoIsAtLeastOnce == Spec => ImplementsCall
  <1>1. Init => Call!Init
    BY DEF Init, Call!Init, outcome, Answered
  <1>2. IInv /\ [Next]_vars => [Call!Next]_(Call!vars)
    <2>. SUFFICES ASSUME IInv, [Next]_vars PROVE Call!Next \/ UNCHANGED Call!vars
      OBVIOUS
    <2>1. CASE Reject
      BY <2>1, GivesUp DEF Reject, Return
    <2>2. CASE FirstAttempt \/ Pause \/ Wake \/ Send
      BY <2>2 DEF FirstAttempt, Pause, Wake, Send, outcome, Answered, Call!vars
    <2>3. CASE Exhausted
      <3>1. (<<"max retries">> \o lastErr)[1] = "max retries"
        BY WrapError DEF IInv, TypeOK, Links, TransportLinks
      <3>2. /\ pc = "loop" /\ pc' = "done" /\ UNCHANGED handled
            /\ result' = [kind |-> "error", err |-> <<"max retries">> \o lastErr]
        BY <2>3 DEF Exhausted, Return
      <3>3. result'.kind = "error" /\ result'.err[1] = "max retries"
        BY <3>1, <3>2
      <3>. QED  BY <3>2, <3>3, GivesUp
    <2>4. CASE SleepCancelled
      BY <2>4, GivesUp DEF SleepCancelled, Return
    <2>5. CASE SendCancelled \/ RequestFails \/ ReadFails
      BY <2>5 DEF SendCancelled, RequestFails, ReadFails, FailAttempt, outcome, Answered, Call!vars
    <2>6. CASE Receive
      <3>1. pc = "await" /\ handled # {} /\ UNCHANGED handled
        BY <2>6 DEF Receive
      <3>2. PICK status \in Statuses, header \in RetryAfters, body \in Bodies :
              React(status, header, body)
        BY <2>6 DEF Receive
      <3>3. ASSUME FailAttempt(HTTPError(status), RequestedDelay(status, header))
            PROVE  UNCHANGED Call!vars
        BY <3>1, <3>3 DEF FailAttempt, outcome, Answered, Call!vars
      <3>4. ASSUME Return("error", HTTPError(status)) PROVE Call!Next
        BY <3>1, <3>4, Answers DEF Return, HTTPError
      <3>5. ASSUME Decode(body) PROVE Call!Next
        <4>1. \/ Return("value", <<>>)
              \/ Return("zero", <<>>)
              \/ Return("error", <<"decode">>)
          BY <3>5 DEF Decode, Bodies
        <4>2. <<"decode">>[1] = "decode"
          OBVIOUS
        <4>. QED  BY <3>1, <4>1, <4>2, Answers DEF Return
      <3>. QED  BY <3>2, <3>3, <3>4, <3>5 DEF React
    <2>7. CASE ServerHandles
      <3>1. PICK a \in inflight : handled' = handled \cup {a} /\ UNCHANGED client
        BY <2>7 DEF ServerHandles
      <3>2. a \notin handled /\ a \in Call!Attempts
        BY DEF IInv, TypeOK, AttemptsOnWire, Attempts, Call!Attempts
      <3>3. UNCHANGED outcome
        BY <3>1 DEF client, outcome, Answered
      <3>. QED  BY <3>1, <3>2, <3>3 DEF Call!Next, Call!Handle
    <2>8. CASE CancelContext \/ UNCHANGED vars
      BY <2>8 DEF CancelContext, vars, client, outcome, Answered, Call!vars
    <2>. QED  BY <2>1, <2>2, <2>3, <2>4, <2>5, <2>6, <2>7, <2>8 DEF Next, DoStep
  <1>. QED  BY <1>1, <1>2, InvariantHolds, PTL DEF Spec, ImplementsCall, Call!Spec

=============================================================================
