----------------------------- MODULE Submission -----------------------------
(***************************************************************************)
(* One submission from its headers to the chain: the POST to /submit of    *)
(* RelayClient over the attempts and pauses of HTTPTransport, with the     *)
(* headers that send makes once for all of them and the relayer that       *)
(* turns stale ones down.  RelayClient takes this stretch as SendAttempt,  *)
(* GiveUp, Declined and Submitted, without pauses, statuses or a clock.    *)
(*                                                                         *)
(* Every step is a step of HTTPTransport, of the relayer and the chain, or *)
(* of the clock, which counts from the moment the headers were made.       *)
(***************************************************************************)
EXTENDS Integers, Sequences, FiniteSets

CONSTANTS
  MaxRetries, BaseDelay, MaxBackoffExponent, Second, DurationLimit, Statuses, RetryAfters,
  Operations,    \* operations that may be submitted
  Nonces,        \* nonces that may have been signed
  Window,        \* age up to which the relayer accepts headers
  Horizon,       \* bound on the clock
  me             \* the goroutine

ASSUME RetriesAssumption == MaxRetries \in Nat
ASSUME StatusAssumption == Statuses \subseteq 100..599
ASSUME OperationsAssumption == Operations \subseteq {"SAFE", "PROXY", "SAFE-CREATE"}
ASSUME NoncesAssumption == Nonces \subseteq Nat
ASSUME ClockAssumption == Window \in Nat /\ Horizon \in Nat

VARIABLES
  pc, attempt, nextRetryDelay, delay, lastErr, result, ctxDone, reply, inflight, handled,
  operation,   \* the operation submitted
  nonce,       \* the nonce that was signed
  signedAt,    \* timestamp of the headers
  now,         \* the clock
  wakeAt,      \* when the pause in progress ends
  answer,      \* the relayer's answer to the latest attempt
  deployed,    \* the Safe is deployed
  walletNonce, \* next nonces of the wallets
  records      \* transactions the relayer has accepted

transport ==
  <<pc, attempt, nextRetryDelay, delay, lastErr, result, ctxDone, reply, inflight, handled>>
signedRequest == <<operation, nonce, signedAt>>
relayer == <<answer, deployed, walletNonce, records>>
vars == <<transport, signedRequest, now, wakeAt, relayer>>

Transport == INSTANCE HTTPTransport

(***************************************************************************)
(* The same submission as RelayClient sees it.                             *)
(***************************************************************************)
Sent == inflight \cup handled

Place ==
  IF pc # "done" THEN "submit" ELSE IF result.kind = "error" THEN "returned" ELSE "wait"

Outcome ==
  IF pc # "done" THEN "pending"
  ELSE IF result.kind # "error" THEN "submitted"
  ELSE IF result.err[1] = "decode" THEN "not decoded"
  ELSE IF result.err[1] = "http" THEN "declined"
  ELSE "submission failed"

Relay == INSTANCE RelayClient WITH
  Callers        <- {me},
  Batches        <- {"transactions"},
  InitialNonces  <- Nonces,
  Bodies         <- Transport!Bodies,
  pc             <- [c \in {me} |-> Place],
  operation      <- [c \in {me} |-> operation],
  batch          <- [c \in {me} |-> IF operation = "SAFE-CREATE" THEN "none" ELSE "transactions"],
  nonce          <- [c \in {me} |-> nonce],
  sent           <- [c \in {me} |-> Cardinality(Sent)],
  wire           <- [c \in {me} |-> [attempt : inflight, nonce : {nonce}]],
  reply          <- [c \in {me} |-> IF answer.kind = "stale" THEN [answer EXCEPT !.kind = "declined"]
                                    ELSE answer],
  result         <- [c \in {me} |-> Outcome],
  handle         <- [c \in {me} |-> IF result.kind = "value" THEN answer.id ELSE 0],
  verdict        <- [c \in {me} |-> "none"],
  deployedAtCall <- [c \in {me} |-> FALSE]

\* Execute on a Safe has found it deployed; the proxy path may have no nonce.
Init ==
  /\ Transport!Init
  /\ operation \in Operations
  /\ nonce \in CASE operation = "SAFE"        -> Nonces
                [] operation = "PROXY"       -> Nonces \cup {Relay!NoNonce}
                [] operation = "SAFE-CREATE" -> {Relay!NoNonce}
  /\ signedAt = 0
  /\ now = 0
  /\ wakeAt = 0
  /\ answer = Relay!NoReply
  /\ deployed = (operation = "SAFE")
  /\ walletNonce \in [Relay!Wallets -> Nonces]
  /\ records = <<>>

-----------------------------------------------------------------------------
(* The transport *)

\* The call's own steps that neither wait for the clock nor meet the relayer.
CallStep ==
  /\ \/ Transport!Reject \/ Transport!FirstAttempt \/ Transport!Exhausted
     \/ Transport!SleepCancelled \/ Transport!SendCancelled
     \/ Transport!RequestFails \/ Transport!ReadFails
     \/ Transport!CancelContext
  /\ UNCHANGED <<signedRequest, now, wakeAt, relayer>>

Pause ==
  /\ Transport!Pause
  /\ wakeAt' = now + delay'
  /\ UNCHANGED <<signedRequest, now, relayer>>

\* The timer of a pause does not fire before its time.
Wake ==
  /\ Transport!Wake
  /\ now >= wakeAt
  /\ UNCHANGED <<signedRequest, now, wakeAt, relayer>>

\* Mutant of Send: every attempt is given headers of its own.
SendSignedAnew ==
  /\ Transport!Send
  /\ answer' = Relay!NoReply
  /\ signedAt' = now
  /\ UNCHANGED <<operation, nonce, now, wakeAt, deployed, walletNonce, records>>

\* Every attempt carries the headers send made before the first.
Send ==
  /\ Transport!Send
  /\ answer' = Relay!NoReply
  /\ UNCHANGED <<signedRequest, now, wakeAt, deployed, walletNonce, records>>

\* The statuses that may answer an attempt: 200 if it was accepted, 401 if its
\* headers were stale, any other 4xx if it was declined; a 5xx may be a gateway's,
\* whatever the relayer did.
Answers(status) ==
  \/ status >= 500
  \/ status < 400 /\ answer.kind = "accepted"
  \/ status = 401 /\ answer.kind = "stale"
  \/ status \in (400..499) \ {401} /\ answer.kind = "declined"

Receive ==
  /\ Transport!Receive
  /\ Answers(reply'.status)
  /\ UNCHANGED <<signedRequest, now, wakeAt, relayer>>

-----------------------------------------------------------------------------
(* The relayer, the chain and the clock *)

\* What the relayer says to an attempt, if the call is still there to hear it.
Replied(a, kind, id) ==
  answer' = IF pc # "done" /\ a = Cardinality(Sent) - 1 THEN [kind |-> kind, id |-> id]
            ELSE answer

\* Stale headers are turned down unread; a request with fresh ones is declined or
\* accepted as a transaction, even if it was accepted before.
Arrive(a) ==
  /\ Transport!ServerHandles
  /\ inflight' = inflight \ {a}
  /\ UNCHANGED <<signedRequest, now, wakeAt, deployed, walletNonce>>
  /\ IF now - signedAt > Window
     THEN Replied(a, "stale", Relay!NoID) /\ UNCHANGED records
     ELSE \/ Replied(a, "declined", Relay!NoID) /\ UNCHANGED records
          \/ /\ records' = Append(records, [request |-> Relay!SignedAs(me, nonce), state |-> "NEW"])
             /\ Replied(a, "accepted", Len(records) + 1)

Chain ==
  /\ UNCHANGED <<transport, signedRequest, now, wakeAt, answer>>
  /\ \E id \in DOMAIN records : Relay!Mine(id) \/ Relay!Drop(id)

Tick ==
  /\ now < Horizon
  /\ now' = now + 1
  /\ UNCHANGED <<transport, signedRequest, wakeAt, relayer>>

Next ==
  \/ CallStep \/ Pause \/ Wake \/ Send \/ Receive
  \/ (\E a \in inflight : Arrive(a)) \/ Chain \/ Tick

Spec == Init /\ [][Next]_vars

-----------------------------------------------------------------------------
(* Properties *)

(***************************************************************************)
(* With its pauses, Retry-After headers, cancellations and stale headers,  *)
(* every step of a submission is one RelayClient allows: what holds of     *)
(* RelayClient, which leaves all of this out, holds of the client.         *)
(***************************************************************************)
StepsOfRelayClient == [][Relay!Next]_(Relay!vars)

(***************************************************************************)
(* No attempt is accepted later than Window after the call made its        *)
(* headers, however long it pauses and however late an attempt arrives:    *)
(* an application that has waited that long knows all duplicates there     *)
(* will be.                                                                *)
(***************************************************************************)
DuplicatesExpire == [][Len(records') > Len(records) => now <= Window]_vars

(***************************************************************************)
(* An HTTP error tells that nothing was accepted only if one attempt was   *)
(* sent: then no transaction is, or ever will be, at the relayer.  With    *)
(* two or more an earlier one may have been accepted.                      *)
(***************************************************************************)
FirstErrorIsFinal ==
  pc = "done" /\ result.kind = "error" /\ result.err[1] = "http" /\ Cardinality(Sent) = 1 =>
    records = <<>>

=============================================================================
