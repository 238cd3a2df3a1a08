# TLA+ models of go-builder-relayer-client

This directory holds TLA+ models of the Polymarket relayer client, the TLC
configurations that model-check them, and theorems about them that TLAPS has
checked. Source paths are relative to the repository, e.g. `client.go:209`.
`PROJECT.json` maps every definition to the lines it models, and lists the runs,
the hazards and the theorems.

## 1. The system

### Parts

| Part | Source | State it keeps | Operations |
|---|---|---|---|
| HTTP transport | `http_client.go` | per call: attempt index, last error, Retry-After of the last 429 | `Do` |
| Error values | `http_client.go`, `pkg/errors`, `pkg/types/errors.go` | none | `httpErrorForStatus`, `Unwrap`, `SDKError.Is` |
| Relay client | `client.go`, `response.go` | per call: the operation, its nonce, the transaction ID; otherwise immutable | `Execute`, `Deploy`, `GetNonce`, `GetRelayPayload`, `GetDeployed`, `GetTransaction(s)` |
| Polling | `client.go:272-333`, `response.go` | per call: polls made, last answer | `PollUntilState`, `Wait`, `WaitWithOptions` |
| Builder authentication | `builder_auth.go`, `client.go:335-384` | the configuration; per call: the headers | `IsValid`, `Headers`, `send` |
| Transaction building | `internal/builder`, `internal/encoder`, `internal/utils` | none: a batch becomes a signed request | `BuildSafeTransactionRequest`, `BuildProxyTransactionRequest`, ... |
| Derivation, chain tables | `config.go`, `derive.go`, `internal/builder/builder_derive.go` | none | `DeriveSafeAddress`, `DeriveProxyAddress`, `GetContractConfig` |
| Signer | `pkg/signer` | a private key | `SignMessage`, `SignTypedData`, ... |
| Logger | `pkg/logger` | level and default logger, each behind an RWMutex | `SetLevel`, `GetLevel`, `SetDefault`, `Debug` ... `Error` |
| End-to-end program | `examples/end_to_end` | where a run is, what it saw; nothing outlives a run | look, deploy and wait, execute and wait |
| Signer service | `examples/remote_signer_server` | secret and bearer token, fixed | one handler |
| Basic example, scripts | `examples/basic`, `scripts` | none | straight lines of calls, release tooling |

### Interactions

An application calls `Execute` or `Deploy`. These read the deployment and the
nonce of the wallet from the relayer, build and sign a request, and POST it to
`/submit`; the result is a handle whose `Wait` polls `/transaction`. Every
request goes through `send`, which makes the builder headers once (locally,
through a remote signer, or remotely with a local fallback) and passes the
request to `HTTPClient.Do`, which sends it up to `maxRetries + 1` times. The
relayer puts the transaction on the chain. Apart from `SetHTTPClient`, taken here as
set-up, `RelayClient` has no mutable state of its own, so goroutines that share one meet
only at the relayer and at the signer service: they may be given the same nonce, find
the same Safe undeployed, and submit at once, even the same bytes: signatures are
deterministic and a deployment has no nonce. Processes that run one after the other
meet there too, since nothing of an operation is stored. The logger is the one piece
of state goroutines do share inside the process; no part reads it to decide anything.

### What is hard

- **Delivery.** The POST to `/submit` is retried like a GET. An attempt the client
  has given up on may still arrive, be accepted, and take effect.
- **Ordering.** What is examined (a deployment, a nonce, a transaction's state) was
  read some time ago, and other callers and the relayer have gone on.
- **Cancellation.** It may come at any moment and races the timers of pauses.
- **Partial failure.** A success with an empty body leaves zero values; a remote
  signer may be unreachable or answer in part; a gas estimate may fail.
- **Time.** One signature serves all retries of a call; Retry-After and backoff are
  computed in 64-bit Durations; timestamps come in seconds or milliseconds.
- **Crashes.** A program that panics or is killed leaves its submissions on the wire and
  at the relayer, and the next run knows nothing of them.
- **Shared memory.** The logger's level and the default logger are behind two locks
  taken one after the other.
- **Boundaries.** Inclusive loop bounds, the last poll, defaults for zero and
  negative arguments, padding and packing of integers.

The hazards are listed one by one, with their lines and the properties that
would catch them, under `hazards` in `PROJECT.json`.

### What makes each part correct

- *Transport:* the budget is kept, the outcome is what the last attempt was told,
  a pause is the one the last reply asked for, a call cancelled between two attempts
  ends as cancelled, and the call returns.
- *Relay client:* a request takes effect at most once, a call that was turned
  down has submitted none, and a transaction is reported as mined only to callers whose
  request took effect; nothing is submitted unprepared.
- *Polling:* what is reported about a transaction is true when it is reported, a
  timeout comes after every poll and against no answer, and for `Wait` past no state it asked for;
  queries are spaced, and a wait
  cancelled between two polls ends as cancelled.
- *Authentication:* a configuration `IsValid` lets through is never missing to
  `Headers` and one it refuses reaches nobody, the fallback covers the failures it is there for, headers do not outlive their
  call, and the two signers agree about timestamps.
  A signature covers the request it was asked for and no other goroutine's.
- *Building:* the wallet executes the batch that was asked for, what is signed
  is what is sent, and an address that was told is one the wallet can be used at.
- *End-to-end program:* it executes only on a deployed Safe, its panics do not hide
  an effect other than through a failed submission or wait, no two runs are confirmed
  by one effect, and every run ends.
- *Logger:* calls of several goroutines print, drop and return what they would if made
  one after the other.

## 2. Modules

| Module | What it is |
|---|---|
| `SDKErrors` | error chains and `errors.Is` over them |
| `AtLeastOnceCall` | abstract: what a retried call promises |
| `HTTPTransport` | one call of `Do`, with the network and the server around it |
| `HTTPTransportProofs` | theorems about it |
| `PollUntilState` | one wait for a transaction, with the relayer moving it on |
| `PollUntilStateProofs` | theorems about it |
| `RelayedOperations` | abstract: what `Execute`, `Deploy` and `Wait` promise |
| `RelayClient` | concurrent operations of one signer, the relayer and the chain |
| `RelayClientProofs` | theorems about it, and from them about `EndToEnd` |
| `BuilderAuth` | `send` and `Headers`, the signer service, the clock, the relayer's check |
| `BuilderAuthProofs` | theorems about it |
| `TransactionBuilding` | building and signing a request, the addresses of wallets, and the contracts that read them |
| `TransactionBuildingProofs` | theorems about it |
| `Submission` | composition: one submission over `HTTPTransport` attempts with aging headers, as a part of `RelayClient` |
| `SubmissionProofs` | theorems about it |
| `RemoteSigning` | composition: `Headers` of several goroutines and the signer service, each as `BuilderAuth` sees it |
| `RemoteSigningProofs` | theorems about it |
| `EndToEnd` | composition: the end-to-end program, killed and restarted, over `RelayClient` |
| `Logger` | the package functions of the logger called by goroutines |
| `LoggerProofs` | theorems about it |
| `MC*` | values of the constants for TLC |

Every detailed module treats the part of the system outside the code (network,
relayer, chain, signer service, contracts, clock) as a nondeterministic
environment, and each of its actions is one stretch of code between two points
where something else can happen: a request, a wait, a select.

### HTTPTransport (`http_client.go:143-267`)

`pc` is the place in `Do`: `start`, `loop` (head of the attempt loop after a
failure), `sleep`, `send` (about to call `client.Do`), `await`, `done`. `attempt`,
`nextRetryDelay`, `lastErr` are the variables of the same name. `Pause`/`Wake`/
`SleepCancelled` are the pause with its select; `Send`/`SendCancelled` are the two
fates of `client.Do` on a live and on a finished context; `RequestFails`,
`ReadFails` and `Receive` are what can come back; `Exhausted` is the end of the loop.
A request is put in `inflight` by `Send` and stays there when the client gives up on
it: `ServerHandles` may take it at any later time, once. `Wrap` is 64-bit
Duration arithmetic at a smaller width. Errors are sequences of links, outermost
first, as successive calls of `Unwrap` give them (`SDKErrors`).

`AtLeastOnceCall` is what a caller may rely on; the refinement mapping keeps
`handled` and reads `outcome` off `pc` and `result`.

### PollUntilState (`client.go:272-333`, `response.go:22-56`)

`Poll`, `Wait` and `WaitWithOptions` are the three entries, each filling its own
defaults in; the loop is `TimedOut`, `Cancelled`, `Query`, then `Answer` or
`QueryFails`, then `Found`, `FoundFailed` or `NotYet`, then `Wake` or
`SleepCancelled`. `tx` is the transaction's state at the relayer, which
`RelayerAdvances` moves on between any two steps; `txns` is what the last answer
said. `slept` is the time since the last query.

### RelayClient (`client.go:90-270`)

Each caller is a goroutine that calls `Execute` on a Safe, `Execute` on a proxy
wallet, or `Deploy` once, and then `Wait`. `batch` is what it asks for: the
transactions and the metadata. `GetDeployed`, `GetNonce`, `Sign` are the
steps up to the submission; `SendAttempt` is one attempt of the POST;
`GiveUp`, `Declined` and `Submitted` end it. `wire` holds the attempts that have not arrived yet,
also after the call has returned. `Arrive`, `Mine` and `Drop` are the relayer and
the chain: `records` are the transactions the relayer has accepted, `Executable` is
the nonce check of the wallets and the factory's single deployment. The
client's calls of the transport are taken at what `AtLeastOnceCall` promises.
A proxy wallet's missing nonce is signed as 0 (`SignedNonce`), as `ParseBigInt` does.

The relayer sees no goroutines. A request is what was signed (`SignedAs`: operation,
batch and nonce), and a transaction in `records` is made of a request, whoever sent it.
The relayer may recognise a request it has already accepted, of any caller, and
answer with the same transaction, or accept it anew (`Known`); the code shows no sign
of relying on either. Two deployments of the Safe, and two executions of one batch given
one nonce, are identical requests: one of the callers may be answered with the other's
transaction.

`RelayedOperations` is what an application may rely on. The mapping reads
`submitted` off what each caller has put on the wire, `effects` off the mined
transactions of each request, and `told` off what the caller has been told; "unknown"
leaves open whether its request took or will take effect. Callers with identical
requests share one effect, and all of them may be told that it was mined.

### BuilderAuth (`builder_auth.go`, `client.go:335-376`)

All 24 configurations (four kinds of local credentials, three of remote, with
and without fallback), `send` and `Headers` called one after the other, and a clock
that may move between any two steps. `Made` hands the headers to the transport or
to the application; `Retry` is the transport's next attempt with the same headers;
`Accepted` is the relayer's check of completeness and age. The signer service is
modelled from `examples/remote_signer_server` and from what the client sends it and
reads from it. HMACs and header names are abstract.

### TransactionBuilding (`internal/`)

Bytes are digits of a small base and words have a few of them; integers,
`LeftPad32`, MultiSend packing, two's complement of an ABI encoding, the two
conventions of a recovery value are modelled by what they do. The text of an address
need not be one: `HexToAddress` keeps the last of the bytes it can read and never fails,
so that a batch, and a proxy transaction, call some other address without an error;
only the typed data of a single Safe transaction (`SingleTypable`) turn such a text
down. An estimate of 0 is passed on as the gas limit. A hash is the tuple of what
is hashed, so two addresses are equal when they are derived from the same inputs.
`MultiSend`, `Verified` and `Calls` are the contracts, modelled from the
format `encodePackedMultisend` writes and the fields that are signed.
The chain a client is made for decides which contracts are configured
(`GetContractConfig`), which wallets it can derive and what it refuses; `Deploy` and the
two derivations are here beside the two kinds of `Execute`.

### Submission (`client.go:155-165`, `:199-209`, `http_client.go:143-267`)

The stretch `RelayClient` takes as `SendAttempt`, `GiveUp`, `Declined` and `Submitted`,
at full length. It instantiates `HTTPTransport` for the variables of the call and
adds what the call meets: a clock that starts when `send` makes the headers, the end of
each pause (`wakeAt`), the relayer, which turns stale headers down with a 401, and the
chain. Each step is a step of `HTTPTransport`, of the relayer, of the chain or of
the clock; `Relay` is the mapping to `RelayClient` with one caller.

### RemoteSigning (`builder_auth.go:57-185`, `examples/remote_signer_server/main.go`)

`BuilderAuth` takes a question to the signer service as one step. Here the question
travels (`Ask`), is signed at the service's own moment with its own idea of
method and timestamp, or turned down if the token is wrong or the question has no method
or no path (`Handle`), travels back, and meets a client that may have stopped
waiting (`Take`, `RemoteFails`). `Auth(c)` is each goroutine's call as `BuilderAuth` sees it.

### EndToEnd (`examples/end_to_end/main.go`)

`place` is where each run of the program is. The two calls a run makes are callers of
`RelayClient`, which the module extends: `CallDeploy` and `CallExecute` begin them,
`CallGoesOn` is any step of theirs, `CallEnds` is the program's reaction. Any error is a
panic; `Kill` may come at any moment, and what the run has left on the wire stays
there; `StartAgain` starts the next run, which executes the same transaction: given the
same nonce it submits the very bytes an earlier run has submitted.

### Logger (`pkg/logger/logger.go`)

A critical section is one step. Except for `SetDefault` a call has several: it takes
the default logger from under the package's lock, then uses it under, or after, that
logger's lock. `explanations`
is kept for the property only: it holds every state that some order of the whole
calls made so far leads to, with the answers that order gives.

## 3. Runs

Runs that pass:

| Run | States | Bounds | Shows |
|---|---|---|---|
| `transport` | 12,638 | 3 retries; statuses 200, 399, 400, 401, 404, 429, 499, 500; a Duration of 8 bits | budget, outcome, pauses, cancellation, termination, and that `Do` is an at-least-once call |
| `poll` | 13,830 | 24 argument tuples, 6 options, up to 4 polls | `Wait` tells the truth, timeouts are earned, queries are spaced, a wait cancelled between polls says so, waits end |
| `relay` | 3,168,686 | two callers, two batches, every operation, one retry, empty bodies | the abstract operations are implemented; Safe executions are prepared; a reported failure is final if the request was sent once, by one caller |
| `auth` | 60,780 | 24 configurations, two calls, two retries, 8 ticks, a window of 2 | configurations, fallback, age of headers, timestamps |
| `building` | 62,692 | base 4, words of 2; three chains; batches of one, two and three; five texts of an address; an estimate of 0 | the wallet executes the batch; built requests verify; derived wallets are usable |
| `submission` | 411,958 | two retries; statuses 200, 400, 401, 429, 503; a window of 3, a clock up to 6 | each step is one of `RelayClient`; duplicates expire with the headers; the first error is final |
| `remote_signing` | 480,804 | two goroutines, five requests, tokens, one tick | each step is one of `BuilderAuth`; signatures cover the request; `Headers` returns |
| `end_to_end` | 27,925 | two runs of one transaction without retries | `Execute` finds its Safe; what a panic may hide and a confirmation says; `Deploy` stops at a deployed Safe; runs end |
| `logger` | 134,679 | three goroutines, two calls each, two loggers and the no-op logger | what goroutines see is explained by an order of whole calls |

Why the bounds are enough: three retries give a first, a middle and a last
attempt with a Retry-After carried from one to the next, and the backoff exponent
saturates within them. `Second * 13` overflows the Duration as `1e9 *
9223372037` overflows 64 bits. Three or four polls are a first, a middle and a
last one, with a transaction whose life has at most four steps. Two callers
with one retry are enough for a duplicate that arrives after the other caller's operation,
two batches for requests of theirs that are identical and that are not,
and `submission` has one caller with two retries. Eight ticks are more than the window, so that headers
go stale both within one call and between two calls. Values go below, to and above the
limits of a byte and of a word, and data has every relation to a word's length
(empty, shorter, longer), and an address has a byte too many or too few, so batches of two contain every shift a wrong length
could cause. In `submission` one Retry-After outlasts the window and one does not, so a
retry is sent with good and with stale headers. In `end_to_end` the second run meets
whatever the first has left, its own request under an earlier ID included; with a retry or a third run the state space is
more than a run can cover in minutes, and retries are what `relay` and `submission` are
about. Three goroutines in `logger` are two that interfere and one that sees
it. Symmetry is used where callers are interchangeable and only safety is
checked. Deadlock is not checked: a call that has returned stops.

Runs that are expected to find a violation, each of one statement of the
repository the code does not keep:

| Run | Statement | What the code does |
|---|---|---|
| `errors_is` | `pkg/errors/errors.go:84`: `Is` implements comparison for `errors.Is` | `HTTPError.Unwrap` returns a nil `*SDKError` as a non-nil error for 404, 409, 422, ...; `errors.Is` against an SDK error then panics |
| `poll_terminal` | `response.go:39`: polls until a terminal state | `STATE_INVALID` is polled to the end |
| `proxy_nonce` | `pkg/errors/errors.go:137`: a missing nonce payload is an error | the proxy path submits without a nonce after an empty reply |

Seen while modelling, and not checked by a run of their own: `PollUntilState` called for
`STATE_MINED` alone, as its tests call it, misses a transaction that is mined and
confirmed between two polls and times out (`pkg/errors/errors.go:140` says that a desired state
was not reached; `Wait` and `WaitWithOptions` ask for both states and miss none,
`TimeoutIsEarned`); an empty
reply to `/deployed` reads as "not deployed", and `Deploy` submits (`pkg/errors/errors.go:127`;
`DeployNeedsNoSafe` is therefore checked and proved for relayers that answer
with a body); and `DeriveProxyAddress` on a chain without proxy wallets returns
`ErrConfigUnsupported`, not `ErrProxyWalletUnsupported` (`pkg/errors/errors.go:117`).

Six exceptions are written into properties instead, because no statement
of the repository speaks of them: a malformed `to` in a MultiSend batch or a proxy
transaction is cropped, padded or zeroed and another address is called
(`ExecutedAsAsked`, beside values beyond 256 bits), callers with identical requests share one
effect (`ImplementsOperations`), the value of a single Safe transaction is signed
but not sent (`BuiltRequestsVerify`), a recovery value the Safe path refuses is
passed on by the proxy path (`BuiltRequestsVerify`), timestamps before
2001 given in seconds are scaled twice by a remote signer (`SignersAgree`), and a method not in
upper case is signed in upper case by the service and as it is by the local signer
(`SignatureCoversRequest`).

### Fairness

Liveness is checked for the transport, for polling, for `Headers` and for the end-to-end
program, each time under weak fairness of the client's own steps (`DoStep`, `PollStep`,
`CallStep(c)`, `RunStep`). The code justifies it: the goroutine is runnable, timers of
`sleepWithContext` fire, and a request ends because the
`http.Client` of `NewHTTPClient(nil)` has a timeout (one that the application supplies
without a timeout, and a context without a deadline, would void this).
Nothing is assumed of the server, the relayer, the chain or the signer service; no
context need ever be cancelled, and nobody has to start a program again. Safety runs use no fairness.

## 4. Proofs

TLAPS has checked these for every value of the constants that satisfies the
named assumptions of the module (budgets are natural numbers, thresholds and the
unit of time positive, and so on; TLC evaluates the same assumptions in the runs).

**HTTPTransportProofs.** `TypeCorrectness`, `BudgetIsKept`, `CancelledCallsFail`,
`CancellationIsReported`, `LatestReplyDecides`, `PauseFollowsReply`, `DoIsAtLeastOnce`.
The budget is not inductive by itself:
that no attempt is sent or handled twice depends on where the call is, and
"max retries exceeded" is true only because no failed attempt leaves that link in
`lastErr`. The invariant `IInv` therefore adds `AttemptsOnWire` (which attempts are on
the wire or handled, for each place), `ErrorsOfAttempts` (which errors an attempt can leave) and
`ResultOfCall`. The refinement theorem maps each action to a step of
`AtLeastOnceCall` or to a stutter; it needs that an answer is only read from an attempt
the server has handled. `CancelledCallsFail` is
about every later state of a call that was cancelled between two attempts; no step leaves
`Doomed`, which says where such a call can be and what it fails on. `PauseFollowsReply` assumes `BackoffFits`: the largest backoff
is a Duration, as 500 ms doubled three times is.

**PollUntilStateProofs.** `TypeCorrectness`, `WaitIsTruthful`, `TimeoutComesLast`,
`PollingIsSpaced`, `CancelledWaitsSaySo`. `WaitTellsTheTruth` relates the result to the relayer's state of the
moment, which the code has never seen; the bridge is `AnswerKeeps`: a stale
answer `MINED` means mined or confirmed now, and `CONFIRMED` and `FAILED` do not
change. `LoopEntry` carries what the loop head knows from the poll before: that the
last answer was neither desired nor failing, or that a pause has been made. That a timeout of `Wait` has
missed nothing needs `ArgumentsOfWait`, the states it asks for.

**RelayClientProofs.** `TypeCorrectness`, `SafeExecutions`, `FailuresAreFinal`,
`DeploymentIsChecked` (for relayers that do not answer with an empty body) and
`OperationsAreImplemented`. The invariant has, besides the types, a part for the calls and
one for the transactions. `CallInv` says of each caller what its place implies:
what it has read (`Prepared`, `Checked`), that what is on the wire is one request with one
nonce (`Sending`) and what an answer tells about the records (`Answered`). A caller owns
no transaction; it has signed one request (`Own`), and any transaction made of an identical one
may be the one it is told about. `RecordInv` says that every transaction is made of a
request some caller has submitted (`Signed`), that a mined one has used its nonce, or the
deployment, up (`Settled`), and from these that of all transactions made of one request one
is mined at most (`OneEffect`). That is what the refinement turns on: a retry, or another
caller's identical request, may be accepted again, but all the copies carry one nonce.
`Arrived` and `NoTwins` count attempts: if a caller has sent one, and nobody else its request
(`Alone`), there is one transaction of it and nothing of it is on the wire, so its failure
is final.

About the program, in the same module: `ProgramIsClient`, `RunsKeepPromises`, `PanicsAreTruthful`, and, for a
relayer that answers with a body (`"empty" \notin Bodies`), `SafeIsThere` and `OnlyLateDeployments`. The
invariant is that of the client
with, for each run, what its place says of its two calls (`Begun`, `Concluded`, `Ready`) and of the Safe it looked
for (`Looked`, `Late`): if a run saw no Safe, no earlier deployment was reported mined, and a Safe that is there
now was deployed in between. `Fresh` is why two runs are not confirmed by one effect though they execute one
transaction: a run that reads its nonce after an earlier one was confirmed is given a later nonce, so their requests
differ, and runs do not overlap. The hypothesis on bodies is the one the run is checked under, and it is needed: an
empty reply to `/deployed` reads as "not deployed". `ProgramAssumption` says that the operations include the two
the program calls.

**BuilderAuthProofs.** `TypeCorrectness`, `ValidityHolds`, `FallbackHolds`, `OnlySlowCallsAreUnauthorized`,
`TimestampsAgree`. `SignedInCall` says that what is submitted is complete and was
signed after the call began; with it, headers older than the window imply a call older
than the window. `SignerConfigured` and `OnlyValidIsSent` tie the place of a call
to its configuration, which two lemmas (`ValidIsUsable`,
`LocalCredentialsAreValid`) connect with `IsValid`. `NormalizedOnceOrTwice` is the
idempotence of `normalizeBuilderTimestamp` above the threshold.

**TransactionBuildingProofs.** `Types`, `AddressesAreUsable`, `RequestsVerify`,
`CallsAreAsAsked`. A verdict is about a request built earlier, from a batch
and a signature it no longer shows: `BuiltFrom` keeps what it was built from and `Judged` that
it was judged as it stands. From there the proof is a comparison of what is signed with what
is sent (`SafeRequestHas`, `SafeRecovery`, `CreateRecovery`). `SignaturesAssumption`
says that a recovery value is a natural number, which the byte at the end of a signature is.
`CallsAreAsAsked` is `ExecutedAsAsked` for bytes and words of any size and batches of any length. A
proxy wallet, and a Safe with one transaction, make the calls themselves. For a packed batch the proof goes
through the bytes: a number below the limit of a word has digits `BigBytes` finds and `LeftPad32` puts at the
right end (`BigBytesHas`, `PaddedIsInWord`), and the contract adds them up to the same number
(`IntegerInWord`, an induction over the bytes of the word); each part of a packed transaction is found
where it was put, and what is left is what follows it (`PartsOfPacked`, `ReadsPacked`); and so,
by induction over the batch, the calls are those asked for (`MultiSendIsAsAsked`).
The property compares calls only if the addresses of the batch are addresses; that those of a single Safe
transaction are follows from what was built. `LengthsAssumption` says that the length of the data fits a word: it is an `int` of at most
63 bits, and a word has 256.

**SubmissionProofs.** `SubmissionIsTransported`, `SubmissionIsImplemented`,
`HeadersBoundDuplicates`, `FirstErrorSettles`. The steps of the transport are first sorted by what they mean
to the submission: an attempt failed, the call returned an error of its own, it moved on, it was
answered (`CallStepIs`, `PauseIs`, `ReceiveIs`). `SentInOrder` says that the attempts sent
are the first n, each once; this makes the number of attempts, all that `RelayClient` keeps,
the index of the next. `OnlyAttempt` says that after one attempt the relayer's records and
what the call has heard agree, and that an HTTP error leaves nothing on the wire. The submission starts
with the request signed, so the theorem is about steps; the first state is one
`RelayClient` has after `Sign`.

**RemoteSigningProofs.** `SignaturesAreOwn`, `AuthIsImplemented`, `EachCallIsOneOfBuilderAuth`. A question on its
way is the goroutine's own request (`OwnQuestion`), an answer was signed over it at a moment of
the call (`OwnAnswer`), and a goroutine has nothing before its call (`OneCall`). In
the mapping a question on its way and the service's answer are stutters of `BuilderAuth`; its step of a good answer
is `Take`, and `OwnAnswer` is why the timestamp taken is one that step allows. `ClockAssumption` and
`RequestsAssumption` type the clock and the requests.

**LoggerProofs.** `TypeCorrectness`, `CallsAreLinearizable`. That no answer is ever without an explanation is
not inductive: the invariant has to say which explanations there are. A call takes effect when the logger it took
was last the default: at the moment it uses it, if it still is, and just before it was replaced if not.
When a logger is replaced, the calls that hold it have neither all been made nor in
which order they will be, so there must be an explanation for each case. The invariant is that some set of
explanations satisfies two conditions. `Accounts`: it holds `Actual` (the loggers as they are, with every call
placed that has examined its level), every member ends in the default logger of the moment, and all of it is
among the explanations there are. `Foresees`: it is closed under letting a goroutine that holds a replaced
logger use it now, whichever does so first.
`explanations` is a recursion, `Grown`; its stages are first shown to exist
(`StagesRecursion`) and to reach, after as many steps as there are goroutines, the least set that contains the
explanations and is closed under placing a pending call (`GrownIsLeast`, `GrownIsClosed`). That is a count of
the calls not yet placed, so the goroutines are finite in number (`GoroutinesAssumption`).

**Induction.** The library's induction theorems take an operator as a parameter, which no installed prover can
instantiate. `InductionOnNat`, about a set instead of a predicate, is proved from the
well-foundedness of `<` on the natural numbers, and `PrimitiveRecursion`, about a function instead of an operator,
from it; every recursive definition of `TransactionBuilding` is an instance. Both modules that need induction hold
it for themselves. Powers are a recursive function of the model (`Power`), because the provers know
nothing of `^`.

Only model-checked: liveness (`Terminates` of a call and of a wait, `HeadersReturn`, `RunEnds`). Liveness under
fairness and `ENABLED` are beyond the prover. Every other property of a passing run is a theorem.

## 5. What is not modelled

- *CREATE2 hashes and addresses as numbers:* derivation is modelled by what it is computed from.
- *Cryptography and key parsing* (`pkg/signer`): go-ethereum behind a stateless interface.
  Its failure is `SignFails`; what it hashes and its recovery values are in
  `TransactionBuilding`.
- *Header and query construction, JSON:* abstracted to "json", "empty" and "garbled".
- *The text of the combined error of a failed fallback* (`builder_auth.go:112`): both causes
  are formatted with `%v`, so `errors.Is` finds neither. No statement of the repository
  says it should.
- *`SetHTTPClient` while other goroutines use the client* (`client.go:53`): a data race without
  a documented contract; it is taken as set-up.
- *`WithMaxRetries(math.MaxUint)`:* `MaxRetries` is a natural number that can be
  incremented. No caller of the repository sets it.
- *A logger used through a reference the application keeps:* only the package
  functions are in `Logger`. What a line looks like is left out.
- *`examples/basic` and the scripts:* the example is a straight line of calls `EndToEnd`
  contains, and the scripts are not part of the program.

## 6. Plan

Order followed: transport, polling, relay client with its abstract
operations, authentication, building; proofs of the transport, of polling and of
authentication; the compositions, the logger, the proofs of the relay client; the proofs of the
compositions, for any number of runs, goroutines and retries, and of building; the logger's
linearizability and the packed batches. Left:

1. **The first state of a submission.** That it satisfies the invariant of `RelayClientProofs`,
   so that its theorems hold of a submission as well. It needs that invariant instantiated under
   `Submission`'s mapping, apart from the program's.
