--------------------------- MODULE HTTPTransport ---------------------------
(***************************************************************************)
(* One call of HTTPClient.Do: the request is sent up to MaxRetries + 1     *)
(* times, a transient failure is retried after a pause, a definite answer  *)
(* ends the call, and the caller may cancel its context at any moment.     *)
(*                                                                         *)
(* The network and the server are the environment.  A request the client   *)
(* has given up on is still on its way: it may be handled late, during a   *)
(* later attempt or after the call has returned, or never.                 *)
(***************************************************************************)
EXTENDS Integers, Sequences, FiniteSets, SDKErrors

CONSTANTS
  MaxRetries,         \* retries after the first attempt (HTTPClient.maxRetries)
  BaseDelay,          \* HTTPClient.baseDelay, in units of time
  MaxBackoffExponent, \* maxBackoffExponent
  Second,             \* units of time in a second (1e9 nanoseconds)
  DurationLimit,      \* a Duration lies in -DurationLimit..DurationLimit-1 (2^63)
  Statuses,           \* HTTP statuses the server may answer with
  RetryAfters         \* Retry-After headers a 429 may carry

RetryAfterForms == {"none", "seconds", "date"}

ASSUME RetriesAssumption == MaxRetries \in Nat
ASSUME BackoffAssumption == BaseDelay \in Int /\ MaxBackoffExponent \in Nat
ASSUME DurationAssumption == Second \in Nat \ {0} /\ DurationLimit \in Nat \ {0}
ASSUME StatusAssumption == Statuses \subseteq 100..599
\* The value of a date is its distance from now; a header the client cannot
\* parse, or no header at all, has the form "none".
ASSUME RetryAfterAssumption == RetryAfters \subseteq [form : RetryAfterForms, value : Int]

VARIABLES
  pc,             \* where the call is
  attempt,        \* index of the current attempt
  nextRetryDelay, \* pause asked for by the last 429, for the next attempt only
  delay,          \* the pause in progress
  lastErr,        \* why the last attempt failed
  result,         \* what the call returned
  ctxDone,        \* the caller's context is done
  reply,          \* what the latest attempt was answered, if it was read
  inflight,       \* attempts whose request is on the wire
  handled         \* attempts whose request the server has handled

client == <<pc, attempt, nextRetryDelay, delay, lastErr, result>>
vars == <<client, ctxDone, reply, inflight, handled>>

Attempts == 0..MaxRetries

NoHeader == [form |-> "none", value |-> 0]
NoReply == [status |-> 0, retryAfter |-> NoHeader]
NoDelay == [ok |-> FALSE, delay |-> 0]
Pending == [kind |-> "pending", err |-> <<>>]
Bodies == {"json", "empty", "garbled"}

\* int64 arithmetic of time.Duration.
Wrap(x) == ((x + DurationLimit) % (2 * DurationLimit)) - DurationLimit

Capped(x, limit) == IF x > limit THEN limit ELSE x

parseRetryAfter(header) ==
  IF header.form = "none" THEN NoDelay
  ELSE [ok    |-> TRUE,
        delay |-> IF header.value <= 0 THEN 0
                  ELSE IF header.form = "date" THEN Capped(header.value, DurationLimit - 1)
                  ELSE Wrap(header.value * Second)]

exponentialBackoff(retry) == Wrap(BaseDelay * 2 ^ Capped(retry, MaxBackoffExponent))

\* Mutant of Retryable: a server's failure is taken for an answer.
RetryableThrottled(status) == status = 429

Retryable(status) == status >= 500 \/ status = 429

Init ==
  /\ pc = "start"
  /\ attempt = 0
  /\ nextRetryDelay = NoDelay
  /\ delay = 0
  /\ lastErr = <<>>
  /\ result = Pending
  /\ ctxDone = FALSE
  /\ reply = NoReply
  /\ inflight = {}
  /\ handled = {}

-----------------------------------------------------------------------------
(* The call *)

Return(kind, err) ==
  /\ pc' = "done"
  /\ result' = [kind |-> kind, err |-> err]
  /\ UNCHANGED <<attempt, nextRetryDelay, delay, lastErr>>

\* Mutants of FailAttempt: the first failure's error is kept; the loop forgets
\* to advance.
FailKeepsFirst(err, retryDelay) ==
  /\ pc' = "loop"
  /\ attempt' = attempt + 1
  /\ lastErr' = IF lastErr = <<>> THEN err ELSE lastErr
  /\ nextRetryDelay' = retryDelay
  /\ UNCHANGED <<delay, result>>

FailStandsStill(err, retryDelay) ==
  /\ pc' = "loop"
  /\ attempt' = IF attempt = 0 THEN 1 ELSE attempt
  /\ lastErr' = err
  /\ nextRetryDelay' = retryDelay
  /\ UNCHANGED <<delay, result>>

\* The loop's "continue" with the reason of the failure.
FailAttempt(err, retryDelay) ==
  /\ pc' = "loop"
  /\ attempt' = attempt + 1
  /\ lastErr' = err
  /\ nextRetryDelay' = retryDelay
  /\ UNCHANGED <<delay, result>>

\* A nil client, an unparsable URL, or a method no request can be built with.
Reject ==
  /\ pc = "start"
  /\ Return("error", <<"arguments">>)
  /\ UNCHANGED <<ctxDone, reply, inflight, handled>>

FirstAttempt ==
  /\ pc = "start"
  /\ pc' = "send"
  /\ UNCHANGED <<attempt, nextRetryDelay, delay, lastErr, result>>
  /\ UNCHANGED <<ctxDone, reply, inflight, handled>>

\* Mutants of Pause: the loop bound is off by one; the Retry-After is not reset.
PauseOnceMore ==
  /\ pc = "loop"
  /\ attempt <= MaxRetries + 1
  /\ pc' = "sleep"
  /\ delay' = IF nextRetryDelay.ok THEN nextRetryDelay.delay ELSE exponentialBackoff(attempt - 1)
  /\ nextRetryDelay' = NoDelay
  /\ UNCHANGED <<attempt, lastErr, result, ctxDone, reply, inflight, handled>>

PauseKeepsRetryAfter ==
  /\ pc = "loop"
  /\ attempt <= MaxRetries
  /\ pc' = "sleep"
  /\ delay' = IF nextRetryDelay.ok THEN nextRetryDelay.delay ELSE exponentialBackoff(attempt - 1)
  /\ UNCHANGED <<attempt, nextRetryDelay, lastErr, result, ctxDone, reply, inflight, handled>>

Pause ==
  /\ pc = "loop"
  /\ attempt <= MaxRetries
  /\ pc' = "sleep"
  /\ delay' = IF nextRetryDelay.ok THEN nextRetryDelay.delay ELSE exponentialBackoff(attempt - 1)
  /\ nextRetryDelay' = NoDelay
  /\ UNCHANGED <<attempt, lastErr, result>>
  /\ UNCHANGED <<ctxDone, reply, inflight, handled>>

\* Mutants of Exhausted: one attempt too early; the last error formatted instead
\* of wrapped; no error at all.
ExhaustedEarly ==
  /\ pc = "loop"
  /\ attempt >= MaxRetries
  /\ Return("error", <<"max retries">> \o lastErr)
  /\ UNCHANGED <<ctxDone, reply, inflight, handled>>

ExhaustedUnwrapped ==
  /\ pc = "loop"
  /\ attempt > MaxRetries
  /\ Return("error", <<"max retries">>)
  /\ UNCHANGED <<ctxDone, reply, inflight, handled>>

ExhaustedQuietly ==
  /\ pc = "loop"
  /\ attempt > MaxRetries
  /\ Return("zero", <<>>)
  /\ UNCHANGED <<ctxDone, reply, inflight, handled>>

Exhausted ==
  /\ pc = "loop"
  /\ attempt > MaxRetries
  /\ Return("error", <<"max retries">> \o lastErr)
  /\ UNCHANGED <<ctxDone, reply, inflight, handled>>

\* The pause is over: no pause was due, the timer fired, or it fired along with
\* the cancellation and select took the timer.
Wake ==
  /\ pc = "sleep"
  /\ pc' = "send"
  /\ UNCHANGED <<attempt, nextRetryDelay, delay, lastErr, result>>
  /\ UNCHANGED <<ctxDone, reply, inflight, handled>>

SleepCancelled ==
  /\ pc = "sleep"
  /\ delay > 0
  /\ ctxDone
  /\ Return("error", <<"context">>)
  /\ UNCHANGED <<ctxDone, reply, inflight, handled>>

\* Mutant of Send: the request is built without the caller's context.
SendDetached ==
  /\ pc = "send"
  /\ pc' = "await"
  /\ inflight' = inflight \cup {attempt}
  /\ reply' = NoReply
  /\ UNCHANGED <<attempt, nextRetryDelay, delay, lastErr, result, ctxDone, handled>>

Send ==
  /\ pc = "send"
  /\ ~ctxDone
  /\ pc' = "await"
  /\ inflight' = inflight \cup {attempt}
  /\ reply' = NoReply
  /\ UNCHANGED <<attempt, nextRetryDelay, delay, lastErr, result>>
  /\ UNCHANGED <<ctxDone, handled>>

\* net/http sends nothing on a context that is already done.
SendCancelled ==
  /\ pc = "send"
  /\ ctxDone
  /\ FailAttempt(<<"request", "context">>, nextRetryDelay)
  /\ reply' = NoReply
  /\ UNCHANGED <<ctxDone, inflight, handled>>

\* No reply: the connection or the client's timeout broke, or the context is done.
RequestFails ==
  /\ pc = "await"
  /\ \/ FailAttempt(<<"request">>, nextRetryDelay)
     \/ ctxDone /\ FailAttempt(<<"request", "context">>, nextRetryDelay)
  /\ UNCHANGED <<ctxDone, reply, inflight, handled>>

\* The status line came but the body did not: the status is not looked at.
ReadFails ==
  /\ pc = "await"
  /\ attempt \in handled
  /\ \/ FailAttempt(<<"read">>, nextRetryDelay)
     \/ ctxDone /\ FailAttempt(<<"read", "context">>, nextRetryDelay)
  /\ UNCHANGED <<ctxDone, reply, inflight, handled>>

\* The pause the next attempt owes to a 429, unless this was the last attempt.
RequestedDelay(status, header) ==
  IF attempt < MaxRetries /\ status = 429 /\ parseRetryAfter(header).ok
  THEN parseRetryAfter(header)
  ELSE nextRetryDelay

\* An empty body leaves the caller's value as it was.
Decode(body) ==
  CASE body = "json"    -> Return("value", <<>>)
    [] body = "empty"   -> Return("zero", <<>>)
    [] body = "garbled" -> Return("error", <<"decode">>)

React(status, header, body) ==
  \/ /\ Retryable(status)
     /\ FailAttempt(HTTPError(status), RequestedDelay(status, header))
  \/ /\ ~Retryable(status)
     /\ status >= 400
     /\ Return("error", HTTPError(status))
  \/ /\ ~Retryable(status)
     /\ status < 400
     /\ Decode(body)

Receive ==
  /\ pc = "await"
  /\ attempt \in handled
  /\ \E status \in Statuses, header \in RetryAfters, body \in Bodies :
       /\ reply' = [status |-> status, retryAfter |-> header]
       /\ React(status, header, body)
  /\ UNCHANGED <<ctxDone, inflight, handled>>

-----------------------------------------------------------------------------
(* The environment *)

ServerHandles ==
  \E a \in inflight :
    /\ inflight' = inflight \ {a}
    /\ handled' = handled \cup {a}
    /\ UNCHANGED <<client, ctxDone, reply>>

CancelContext ==
  /\ ~ctxDone
  /\ pc # "done"
  /\ ctxDone' = TRUE
  /\ UNCHANGED <<client, reply, inflight, handled>>

DoStep ==
  \/ Reject \/ FirstAttempt \/ Pause \/ Exhausted \/ Wake \/ SleepCancelled
  \/ Send \/ SendCancelled \/ RequestFails \/ ReadFails \/ Receive

Next == DoStep \/ ServerHandles \/ CancelContext

Spec == Init /\ [][Next]_vars

\* The calling goroutine runs, timers fire, and the client's timeout ends a wait
\* for a reply that does not come.  Nothing is assumed of the server.
FairSpec == Spec /\ WF_vars(DoStep)

-----------------------------------------------------------------------------
(* Properties *)

Errors == Seq(Links)

\* The variables have their types.
TypeOK ==
  /\ pc \in {"start", "loop", "sleep", "send", "await", "done"}
  /\ attempt \in 0..(MaxRetries + 1)
  /\ nextRetryDelay \in [ok : BOOLEAN, delay : Int]
  /\ delay \in Int
  /\ lastErr \in Errors
  /\ result \in [kind : {"pending", "value", "zero", "error"}, err : Errors]
  /\ ctxDone \in BOOLEAN
  /\ reply \in [status : 0..599, retryAfter : [form : RetryAfterForms, value : Int]]
  /\ inflight \subseteq Attempts
  /\ handled \subseteq Attempts

Failed == pc = "done" /\ result.kind = "error"

(***************************************************************************)
(* The server is never asked more than MaxRetries + 1 times; short of a    *)
(* cancellation no attempt is counted that was not sent; and "max retries  *)
(* exceeded" is reported only when the whole budget is spent.              *)
(***************************************************************************)
AttemptBudget ==
  /\ Cardinality(inflight \cup handled) <= MaxRetries + 1
  /\ inflight \cup handled \subseteq 0..attempt
  /\ ~ctxDone /\ pc \in {"loop", "sleep", "send"} =>
       inflight \cup handled = 0..(attempt - 1)
  /\ Failed /\ Has(result.err, "max retries") => attempt = MaxRetries + 1

(***************************************************************************)
(* What the call returns is what its latest attempt was answered: success  *)
(* for a status below 400, the status's own error otherwise, and never the *)
(* reason an earlier attempt failed for.  A definite answer (not a 429 and *)
(* not a 5xx) ends the call.                                               *)
(***************************************************************************)
Definite(status) == status \in (100..499) \ {429}

OutcomeTellsLastReply ==
  /\ Definite(reply.status) => pc = "done"
  /\ pc = "done" /\ result.kind \in {"value", "zero"} => reply.status \in 100..399
  /\ pc = "done" /\ reply.status >= 400 /\ ~Has(result.err, "context") =>
       /\ result.kind = "error"
       /\ Has(result.err, httpErrorForStatus(reply.status))
       /\ Definite(reply.status) <=> ~Has(result.err, "max retries")

(***************************************************************************)
(* The pause before an attempt is decided by the reply to the attempt      *)
(* before it and by nothing older: a 429 is given the time its Retry-After *)
(* asks for when a Duration can hold it, every other failure the           *)
(* exponential backoff of its own rank.                                    *)
(***************************************************************************)
Asked(header) ==
  IF header.form = "seconds" THEN header.value * Second ELSE header.value

PauseFollowsLastReply ==
  pc = "sleep" =>
    IF reply.status = 429 /\ reply.retryAfter.form # "none"
    THEN Asked(reply.retryAfter) < DurationLimit => delay >= Asked(reply.retryAfter)
    ELSE delay = BaseDelay * 2 ^ Capped(attempt - 1, MaxBackoffExponent)

(***************************************************************************)
(* A call cancelled between two attempts ends as cancelled: whichever way  *)
(* its select goes, however many attempts are left to fail on the context  *)
(* and however late an answer to an abandoned one, it returns an error in  *)
(* which errors.Is finds the context's.                                    *)
(***************************************************************************)
BetweenAttempts == pc \in {"sleep", "send"} \/ (pc = "loop" /\ attempt <= MaxRetries)

CancelledBetweenAttempts ==
  [](ctxDone /\ BetweenAttempts => [](pc = "done" => Failed /\ Has(result.err, "context")))

(***************************************************************************)
(* A call that has noticed the cancellation reports it: errors.Is finds    *)
(* the context's error in what it returns.                                 *)
(***************************************************************************)
CancellationSurfaces == Failed /\ Has(lastErr, "context") => Has(result.err, "context")

(***************************************************************************)
(* errors.Is decides whether the returned error is one of the SDK's errors *)
(* and does not panic (errors.go:84 "Is implements error comparison for    *)
(* errors.Is").  It does panic on the error of a 404.                      *)
(***************************************************************************)
ErrorsIsDecides == Failed => \A code \in SDKCodes : ErrorsIs(result.err, code) # "panic"

\* The call returns: its loop, its pauses and its waits all end.
Terminates == <>(pc = "done")

(***************************************************************************)
(* Seen from outside the call is one at-least-once call: each attempt is   *)
(* handled at most once, the outcome is decided once, and the caller is    *)
(* told the server's answer only when the server has handled an attempt.   *)
(***************************************************************************)
Answered == result.kind # "error" \/ result.err[1] \in {"http", "decode"}

outcome == IF pc # "done" THEN "pending" ELSE IF Answered THEN "answered" ELSE "unknown"

Call == INSTANCE AtLeastOnceCall
  WITH MaxRetries <- MaxRetries, handled <- handled, outcome <- outcome

ImplementsCall == Call!Spec

=============================================================================
