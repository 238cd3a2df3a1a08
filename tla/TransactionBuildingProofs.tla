--------------------- MODULE TransactionBuildingProofs ---------------------
(***************************************************************************)
(* Theorems about TransactionBuilding for bytes and words of any size, any *)
(* batches, and any signatures, nonces and estimates.                      *)
(*                                                                         *)
(* A verdict is about a request that was built before it, from a batch and *)
(* a signature the request no longer shows: the invariant remembers what   *)
(* the request was built from (BuiltFrom) and what the wallet saw of it    *)
(* (Judged).                                                               *)
(*                                                                         *)
(* What the wallet does with a packed batch is an induction over the batch *)
(* (MultiSendIsAsAsked), whose step is that MultiSend finds each part of a *)
(* packed transaction where it was put (ReadsPacked) and that a number     *)
(* survives being written into a word (PaddedIsInWord, IntegerInWord).     *)
(***************************************************************************)
EXTENDS TransactionBuilding, SequenceTheorems, WellFoundedInduction, TLAPS

-----------------------------------------------------------------------------
(* The inductive invariant *)

SafeBuilt ==
  /\ operation = "SAFE"
  /\ txns \in Batches
  /\ \E nonce \in Nonces, v \in SignatureVs :
       Splittable(v) /\ request = SafeRequest(Aggregated(txns), nonce, v)
  /\ Buildable(txns)

CreateBuilt ==
  /\ operation = "SAFE-CREATE"
  /\ txns = <<>>
  /\ \E v \in SignatureVs : request = CreateRequest(v)

ProxyBuilt ==
  /\ operation = "PROXY"
  /\ txns \in Batches
  /\ \E nonce \in Nonces, estimate \in Estimates, v \in SignatureVs :
       request = ProxyRequest(txns, nonce, estimate, v)

BuiltFrom == request = NoRequest \/ SafeBuilt \/ CreateBuilt \/ ProxyBuilt

\* A request is judged as it stands, and what is executed are its calls.
Judged ==
  /\ pc = "idle" => request = NoRequest
  /\ pc # "done" => verdict = "none"
  /\ pc = "submitted" \/ verdict \in {"executed", "rejected"} => request # NoRequest
  /\ verdict = "executed" => Verified /\ executed = Calls
  /\ verdict = "rejected" => ~Verified

TurnedDown ==
  /\ verdict = "not built" =>
       operation \in {"SAFE", "PROXY"} /\ txns \in Batches /\ ~WellFormed(txns)
  /\ verdict = "unsupported" =>
       IF operation = "PROXY" THEN ~IsProxyContractConfigValid ELSE ~IsSafeContractConfigValid

IInv == TypeOK /\ BuiltFrom /\ Judged /\ TurnedDown

-----------------------------------------------------------------------------
(* Operators *)

\* A batch has transactions.
LEMMA BatchType ==
  ASSUME NEW batch \in Batches
  PROVE  Len(batch) \in Nat \ {0} /\ DOMAIN batch = 1..Len(batch)
  BY BatchesAssumption

\* What a well-formed batch needs to be built.
LEMMA WellFormedIsBuilt ==
  ASSUME NEW batch \in Batches, WellFormed(batch)
  PROVE  Encodable(batch) /\ Buildable(batch)
  <1>1. Encodable(batch)
    BY DEF WellFormed, Encodable, Decodable
  <1>2. ASSUME Len(batch) = 1 PROVE SingleTypable(batch[1])
    <2>1. 1 \in DOMAIN batch
      BY <1>2, BatchType
    <2>. QED  BY <2>1 DEF WellFormed, Addressed, InRange, SingleTypable
  <1>. QED  BY <1>1, <1>2 DEF Buildable

\* The request for a Safe: the value is signed and not sent.
LEMMA SafeRequestHas ==
  ASSUME NEW txn, NEW nonce, NEW v, NEW r, r = SafeRequest(txn, nonce, v)
  PROVE  /\ r.type = "SAFE"
         /\ r.v = SplitAndPackSig(v) /\ r.parity = Parity(v)
         /\ r.fields.to = txn.to /\ r.fields.data = txn.data
         /\ r.fields.operation = txn.operation /\ r.fields.value = 0
         /\ r.signed.value = txn.value
         /\ txn.value = 0 => r.signed = r.fields
  <1>1. PICK h : h = NoHash
    OBVIOUS
  <1>2. PICK f : f = [h EXCEPT !.to = txn.to, !.data = txn.data,
                               !.operation = txn.operation, !.nonce = nonce]
    OBVIOUS
  <1>3. /\ r.type = "SAFE" /\ r.v = SplitAndPackSig(v) /\ r.parity = Parity(v)
        /\ r.fields = f /\ r.signed = [f EXCEPT !.value = txn.value]
    BY <1>1, <1>2 DEF SafeRequest, SignMessage
  <1>4. PICK empty : empty = <<>>
    OBVIOUS
  <1>5. h = [to |-> 0, value |-> 0, data |-> empty, calls |-> empty, operation |-> 0,
             gasLimit |-> 0, nonce |-> 0]
    BY <1>1, <1>4 DEF NoHash
  <1>6. f = [to |-> txn.to, value |-> 0, data |-> txn.data, calls |-> empty,
             operation |-> txn.operation, gasLimit |-> 0, nonce |-> nonce]
    BY <1>2, <1>5
  <1>7. txn.value = 0 => [f EXCEPT !.value = txn.value] = f
    BY <1>6
  <1>. QED  BY <1>3, <1>6, <1>7

LEMMA CreateRequestHas ==
  ASSUME NEW v, NEW r, r = CreateRequest(v)
  PROVE  /\ r.type = "SAFE-CREATE"
         /\ r.signed = r.fields
         /\ r.v = SignTypedData(v) /\ r.parity = Parity(v)
  BY DEF CreateRequest

LEMMA ProxyRequestHas ==
  ASSUME NEW batch, NEW nonce, NEW estimate, NEW v, NEW r,
         r = ProxyRequest(batch, nonce, estimate, v)
  PROVE  /\ r.type = "PROXY"
         /\ r.signed = r.fields
         /\ r.fields.calls = EncodeProxyTransactionData(batch)
         /\ r.fields.gasLimit = GasLimit(estimate)
         /\ r.v = v /\ r.parity = Parity(v)
  BY DEF ProxyRequest, NoHash, SignMessage

LEMMA NoRequestHas == NoRequest.type = "none"
  BY DEF NoRequest

\* The three recovery values agree with the parity they were made from.
LEMMA SafeRecovery ==
  ASSUME NEW v, Splittable(v)
  PROVE  SplitAndPackSig(v) \in {31, 32} /\ SplitAndPackSig(v) - 31 = Parity(v)
  BY DEF Splittable, SplitAndPackSig, Parity

LEMMA CreateRecovery ==
  ASSUME NEW v \in SignatureVs, SignTypedData(v) \in {27, 28}
  PROVE  SignTypedData(v) - 27 = Parity(v)
  BY SignaturesAssumption DEF SignTypedData, Parity

\* The gas limit of a proxy request is the estimate or, without one, the default.
LEMMA GasLimitType == ASSUME NEW estimate \in Estimates PROVE GasLimit(estimate) \in Nat
  BY EstimatesAssumption DEF GasLimit, NoEstimate, defaultGasLimit

-----------------------------------------------------------------------------
(* Every step keeps the invariant *)

LEMMA Initially == Init => IInv
  <1>. SUFFICES ASSUME Init PROVE IInv
    OBVIOUS
  <1>1. TypeOK
    BY NoRequestHas DEF Init, TypeOK
  <1>2. BuiltFrom /\ Judged /\ TurnedDown
    BY DEF Init, BuiltFrom, Judged, TurnedDown
  <1>. QED  BY <1>1, <1>2 DEF IInv

\* A request that is submitted is not yet judged.
LEMMA SubmitKeeps ==
  ASSUME IInv, NEW r, pc = "idle", chain' = chain, Submit(r), TypeOK',
         r # NoRequest, (SafeBuilt \/ CreateBuilt \/ ProxyBuilt)'
  PROVE  IInv'
  BY DEF IInv, Submit, BuiltFrom, Judged, TurnedDown

\* A call that is turned down is not judged.
LEMMA FailKeeps ==
  ASSUME IInv, NEW reason, pc = "idle", chain' = chain, Fail(reason), TypeOK', TurnedDown',
         reason \in {"unsupported", "not built", "bad signature"}
  PROVE  IInv'
  BY DEF IInv, Fail, BuiltFrom, Judged

LEMMA WalletExecutesKeeps == IInv /\ WalletExecutes => IInv'
  <1>. SUFFICES ASSUME IInv, WalletExecutes PROVE IInv'
    OBVIOUS
  <1>1. UNCHANGED <<chain, operation, txns, request>> /\ pc = "submitted" /\ pc' = "done"
    BY DEF WalletExecutes
  <1>2. TypeOK'
    BY <1>1 DEF IInv, TypeOK, WalletExecutes
  <1>3. BuiltFrom'
    BY <1>1 DEF IInv, BuiltFrom, SafeBuilt, CreateBuilt, ProxyBuilt
  <1>4. Verified' = Verified /\ Calls' = Calls
    BY <1>1 DEF Verified, Calls
  <1>5. Judged' /\ TurnedDown'
    BY <1>1, <1>4 DEF IInv, Judged, TurnedDown, WalletExecutes
  <1>. QED  BY <1>2, <1>3, <1>5 DEF IInv

LEMMA ExecuteSafeKeeps ==
  ASSUME IInv, NEW batch \in Batches, NEW nonce \in Nonces, NEW v \in SignatureVs,
         ExecuteSafe(batch, nonce, v)
  PROVE  IInv'
  <1>1. /\ pc = "idle" /\ operation' = "SAFE" /\ txns' = batch
        /\ UNCHANGED <<chain, executed>> /\ request = NoRequest /\ verdict = "none"
    BY DEF ExecuteSafe, Begin, IInv, Judged
  <1>2. chain \in Chains
    BY DEF IInv, TypeOK
  <1>3. ASSUME NEW reason \in {"unsupported", "not built", "bad signature"}, Fail(reason)
        PROVE  TypeOK'
    BY <1>1, <1>2, <1>3, NoRequestHas DEF Fail, TypeOK
  <1>4. CASE ~IsSafeContractConfigValid /\ Fail("unsupported")
    <2>1. TurnedDown'
      BY <1>1, <1>4 DEF Fail, TurnedDown, IsSafeContractConfigValid
    <2>. QED  BY <1>1, <1>3, <1>4, <2>1, FailKeeps
  <1>5. CASE ~Buildable(batch) /\ Fail("not built")
    <2>1. ~WellFormed(batch)
      BY <1>5, WellFormedIsBuilt
    <2>2. TurnedDown'
      BY <1>1, <1>5, <2>1 DEF Fail, TurnedDown
    <2>. QED  BY <1>1, <1>3, <1>5, <2>2, FailKeeps
  <1>6. CASE Fail("bad signature")
    <2>1. TurnedDown'
      BY <1>1, <1>6 DEF Fail, TurnedDown
    <2>. QED  BY <1>1, <1>3, <1>6, <2>1, FailKeeps
  <1>7. CASE Buildable(batch) /\ Splittable(v) /\ Submit(SafeRequest(Aggregated(batch), nonce, v))
    <2>1. PICK r : r = SafeRequest(Aggregated(batch), nonce, v)
      OBVIOUS
    <2>2. r.type = "SAFE" /\ r.v \in {31, 32}
      <3>1. r.type = "SAFE" /\ r.v = SplitAndPackSig(v)
        BY <2>1, SafeRequestHas
      <3>. QED  BY <1>7, <3>1, SafeRecovery
    <2>3. request' = r /\ r # NoRequest /\ pc' = "submitted" /\ verdict' = verdict
      BY <1>7, <2>1, <2>2, NoRequestHas DEF Submit
    <2>4. TypeOK'
      BY <1>1, <1>2, <2>2, <2>3 DEF TypeOK
    <2>5. SafeBuilt'
      BY <1>1, <1>7, <2>1, <2>3 DEF SafeBuilt
    <2>. QED  BY <1>1, <1>7, <2>1, <2>3, <2>4, <2>5, SubmitKeeps
  <1>. QED  BY <1>4, <1>5, <1>6, <1>7 DEF ExecuteSafe

LEMMA DeployKeeps ==
  ASSUME IInv, NEW v \in SignatureVs, Deploy(v)
  PROVE  IInv'
  <1>1. /\ pc = "idle" /\ operation' = "SAFE-CREATE" /\ txns' = <<>>
        /\ UNCHANGED <<chain, executed>> /\ request = NoRequest /\ verdict = "none"
    BY DEF Deploy, Begin, IInv, Judged
  <1>2. chain \in Chains
    BY DEF IInv, TypeOK
  <1>3. CASE ~IsSafeContractConfigValid /\ Fail("unsupported")
    <2>1. TypeOK'
      BY <1>1, <1>2, <1>3, NoRequestHas DEF Fail, TypeOK
    <2>2. TurnedDown'
      BY <1>1, <1>3 DEF Fail, TurnedDown, IsSafeContractConfigValid
    <2>. QED  BY <1>1, <1>3, <2>1, <2>2, FailKeeps
  <1>4. CASE Submit(CreateRequest(v))
    <2>1. PICK r : r = CreateRequest(v)
      OBVIOUS
    <2>2. r.type = "SAFE-CREATE"
      BY <2>1, CreateRequestHas
    <2>3. request' = r /\ r # NoRequest /\ pc' = "submitted" /\ verdict' = verdict
      BY <1>4, <2>1, <2>2, NoRequestHas DEF Submit
    <2>4. TypeOK'
      BY <1>1, <1>2, <2>2, <2>3 DEF TypeOK
    <2>5. CreateBuilt'
      BY <1>1, <2>1, <2>3 DEF CreateBuilt
    <2>. QED  BY <1>1, <1>4, <2>1, <2>3, <2>4, <2>5, SubmitKeeps
  <1>. QED  BY <1>3, <1>4 DEF Deploy

LEMMA ExecuteProxyKeeps ==
  ASSUME IInv, NEW batch \in Batches, NEW nonce \in Nonces, NEW estimate \in Estimates,
         NEW v \in SignatureVs, ExecuteProxy(batch, nonce, estimate, v)
  PROVE  IInv'
  <1>1. /\ pc = "idle" /\ operation' = "PROXY" /\ txns' = batch
        /\ UNCHANGED <<chain, executed>> /\ request = NoRequest /\ verdict = "none"
    BY DEF ExecuteProxy, Begin, IInv, Judged
  <1>2. chain \in Chains
    BY DEF IInv, TypeOK
  <1>3. ASSUME NEW reason \in {"unsupported", "not built"}, Fail(reason)
        PROVE  TypeOK'
    BY <1>1, <1>2, <1>3, NoRequestHas DEF Fail, TypeOK
  <1>4. CASE ~IsProxyContractConfigValid /\ Fail("unsupported")
    <2>1. TurnedDown'
      BY <1>1, <1>4 DEF Fail, TurnedDown, IsProxyContractConfigValid
    <2>. QED  BY <1>1, <1>3, <1>4, <2>1, FailKeeps
  <1>5. CASE ~Encodable(batch) /\ Fail("not built")
    <2>1. ~WellFormed(batch)
      BY <1>5, WellFormedIsBuilt
    <2>2. TurnedDown'
      BY <1>1, <1>5, <2>1 DEF Fail, TurnedDown
    <2>. QED  BY <1>1, <1>3, <1>5, <2>2, FailKeeps
  <1>6. CASE Submit(ProxyRequest(batch, nonce, estimate, v))
    <2>1. PICK r : r = ProxyRequest(batch, nonce, estimate, v)
      OBVIOUS
    <2>2. r.type = "PROXY" /\ r.fields.gasLimit \in Nat
      BY <2>1, ProxyRequestHas, GasLimitType
    <2>3. request' = r /\ r # NoRequest /\ pc' = "submitted" /\ verdict' = verdict
      BY <1>6, <2>1, <2>2, NoRequestHas DEF Submit
    <2>4. TypeOK'
      BY <1>1, <1>2, <2>2, <2>3 DEF TypeOK
    <2>5. ProxyBuilt'
      BY <1>1, <2>1, <2>3 DEF ProxyBuilt
    <2>. QED  BY <1>1, <1>6, <2>1, <2>3, <2>4, <2>5, SubmitKeeps
  <1>. QED  BY <1>4, <1>5, <1>6 DEF ExecuteProxy

LEMMA UnchangedKeeps == IInv /\ UNCHANGED vars => IInv'
  <1>. SUFFICES ASSUME IInv, UNCHANGED vars PROVE IInv'
    OBVIOUS
  <1>. USE DEF vars
  <1>1. TypeOK' /\ BuiltFrom'
    <2>1. TypeOK'
      BY DEF IInv, TypeOK
    <2>2. BuiltFrom'
      BY DEF IInv, BuiltFrom, SafeBuilt, CreateBuilt, ProxyBuilt
    <2>. QED  BY <2>1, <2>2
  <1>2. Verified' = Verified /\ Calls' = Calls
    BY DEF Verified, Calls
  <1>3. Judged'
    BY <1>2 DEF IInv, Judged
  <1>4. TurnedDown'
    BY DEF IInv, TurnedDown, IsProxyContractConfigValid, IsSafeContractConfigValid
  <1>. QED  BY <1>1, <1>3, <1>4 DEF IInv

LEMMA StepInvariant == IInv /\ [Next]_vars => IInv'
  BY ExecuteSafeKeeps, ExecuteProxyKeeps, DeployKeeps, WalletExecutesKeeps, UnchangedKeeps
     DEF Next, Execute

LEMMA Invariant == Spec => []IInv
  BY Initially, StepInvariant, PTL DEF Spec

-----------------------------------------------------------------------------
(* What an application may rely on *)

\* The variables have their types; in particular a Safe's recovery value is one
\* the contract knows, and the gas limit of a proxy request is never the -1 a failed
\* estimate stands for.
THEOREM Types == Spec => []TypeOK
  BY Invariant, PTL DEF IInv

(***************************************************************************)
(* Every wallet whose address the client derives is one it can act for:    *)
(* the tables of no chain have a proxy factory without a hub, or a Safe    *)
(* factory without a multisend contract.                                   *)
(***************************************************************************)
THEOREM AddressesAreUsable == Spec => []DerivedWalletsAreUsable
  <1>1. IInv => DerivedWalletsAreUsable
    BY DEF IInv, TurnedDown, DerivedWalletsAreUsable, DeriveProxyAddress, DeriveSafeAddress,
           Derive, IsProxyContractConfigValid, IsSafeContractConfigValid, GetContractConfig,
           Contracts
  <1>. QED  BY <1>1, Invariant, PTL

\* The three kinds of request, and when their verification fails.
LEMMA SafeVerified ==
  ASSUME IInv, SafeBuilt
  PROVE  /\ request.type = "SAFE"
         /\ request.fields.operation = Aggregated(txns).operation
         /\ request.fields.to = Aggregated(txns).to /\ request.fields.data = Aggregated(txns).data
         /\ request.fields.value = 0
         /\ Verified <=> Aggregated(txns).value = 0
  <1>1. PICK nonce \in Nonces, v \in SignatureVs :
          Splittable(v) /\ request = SafeRequest(Aggregated(txns), nonce, v)
    BY DEF SafeBuilt
  <1>2. PICK txn : txn = Aggregated(txns)
    OBVIOUS
  <1>3. /\ request.type = "SAFE"
        /\ request.v = SplitAndPackSig(v) /\ request.parity = Parity(v)
        /\ request.fields.to = txn.to /\ request.fields.data = txn.data
        /\ request.fields.operation = txn.operation /\ request.fields.value = 0
        /\ request.signed.value = txn.value
        /\ txn.value = 0 => request.signed = request.fields
    BY <1>1, <1>2, SafeRequestHas
  <1>4. request.v - 31 = request.parity
    BY <1>1, <1>3, SafeRecovery
  <1>5. Verified <=> request.signed = request.fields
    BY <1>3, <1>4 DEF Verified
  <1>6. request.signed = request.fields <=> txn.value = 0
    BY <1>3
  <1>. QED  BY <1>2, <1>3, <1>5, <1>6

LEMMA CreateVerified ==
  ASSUME IInv, CreateBuilt
  PROVE  /\ request.type = "SAFE-CREATE"
         /\ request.v \in {27, 28} => Verified
  <1>1. PICK v \in SignatureVs : request = CreateRequest(v)
    BY DEF CreateBuilt
  <1>2. /\ request.type = "SAFE-CREATE" /\ request.signed = request.fields
        /\ request.v = SignTypedData(v) /\ request.parity = Parity(v)
    BY <1>1, CreateRequestHas
  <1>3. request.v \in {27, 28} => request.v - 27 = request.parity
    BY <1>2, CreateRecovery
  <1>. QED  BY <1>2, <1>3 DEF Verified

LEMMA ProxyVerified ==
  ASSUME IInv, ProxyBuilt
  PROVE  /\ request.type = "PROXY"
         /\ request.fields.calls = EncodeProxyTransactionData(txns)
         /\ Splittable(request.v) => Verified
  <1>1. PICK nonce \in Nonces, estimate \in Estimates, v \in SignatureVs :
          request = ProxyRequest(txns, nonce, estimate, v)
    BY DEF ProxyBuilt
  <1>2. /\ request.type = "PROXY" /\ request.signed = request.fields
        /\ request.fields.calls = EncodeProxyTransactionData(txns)
        /\ request.v = v /\ request.parity = Parity(v)
    BY <1>1, ProxyRequestHas
  <1>3. Splittable(request.v) => request.v \in {0, 1, 27, 28} /\ Parity(request.v) = request.parity
    BY <1>2 DEF Splittable
  <1>. QED  BY <1>2, <1>3 DEF Verified

\* What aggregation makes of one transaction and of several.
LEMMA AggregatedHas ==
  ASSUME NEW batch
  PROVE  /\ Len(batch) = 1 =>
              /\ Aggregated(batch).to = HexToAddress(batch[1].to)
              /\ Aggregated(batch).value = Number(batch[1].value)
              /\ Aggregated(batch).data = DecodeHex(batch[1].data)
              /\ Aggregated(batch).operation = Call
         /\ Len(batch) # 1 =>
              /\ Aggregated(batch).value = 0
              /\ Aggregated(batch).data = encodePackedMultisend(batch)
              /\ Aggregated(batch).operation = DelegateCall
  BY DEF Aggregated

(***************************************************************************)
(* A well-formed batch is built, and a request that is built is one the    *)
(* wallet or the factory accepts as its owner's, but for a single Safe     *)
(* transaction with a value and recovery values no signature has.          *)
(***************************************************************************)
THEOREM RequestsVerify == Spec => []BuiltRequestsVerify
  <1>1. IInv => BuiltRequestsVerify
    <2>. SUFFICES ASSUME IInv PROVE BuiltRequestsVerify
      OBVIOUS
    <2>1. verdict = "not built" => ~WellFormed(txns)
      BY DEF IInv, TurnedDown
    <2>2. ASSUME verdict = "rejected"
          PROVE  \/ request.type = "SAFE" /\ Len(txns) = 1 /\ Number(txns[1].value) # 0
                 \/ request.type = "PROXY" /\ ~Splittable(request.v)
                 \/ request.type = "SAFE-CREATE" /\ request.v \notin {27, 28}
      <3>1. ~Verified /\ request # NoRequest
        BY <2>2 DEF IInv, Judged
      <3>2. CASE SafeBuilt
        BY <3>1, <3>2, SafeVerified, AggregatedHas
      <3>3. CASE CreateBuilt
        BY <3>1, <3>3, CreateVerified
      <3>4. CASE ProxyBuilt
        BY <3>1, <3>4, ProxyVerified
      <3>. QED  BY <3>1, <3>2, <3>3, <3>4 DEF IInv, BuiltFrom
    <2>. QED  BY <2>1, <2>2 DEF BuiltRequestsVerify
  <1>. QED  BY <1>1, Invariant, PTL

-----------------------------------------------------------------------------
(* Induction and recursion over the natural numbers *)

LEMMA LeastNatural ==
  ASSUME NEW T \in SUBSET Nat, T # {}
  PROVE  \E n \in T : \A m \in T : n <= m
  <1>1. PICK R : R = OpToRel(<, Nat)
    OBVIOUS
  <1>2. IsWellFoundedOn(R, Nat)
    BY <1>1, NatLessThanWellFounded
  <1>3. PICK n \in T : \A m \in T : <<m, n>> \notin R
    BY <1>2, WFMin, Zenon
  <1>4. ASSUME NEW m \in T PROVE n <= m
    <2>1. ~ (m < n)
      BY <1>1, <1>3 DEF OpToRel
    <2>. QED  BY <2>1
  <1>. QED  BY <1>3, <1>4

LEMMA InductionOnNat ==
  ASSUME NEW S, 0 \in S, \A n \in Nat : n \in S => n + 1 \in S
  PROVE  Nat \subseteq S
  <1>. SUFFICES ASSUME Nat \ S # {} PROVE FALSE
    OBVIOUS
  <1>1. PICK n \in Nat \ S : \A m \in Nat \ S : n <= m
    BY LeastNatural
  <1>2. n # 0 /\ n - 1 \in Nat
    BY <1>1
  <1>3. n - 1 \in S
    BY <1>1, <1>2
  <1>. QED  BY <1>1, <1>2, <1>3

\* f is the recursion from a by H up to n.
Recurs(f, a, H, n) == f[0] = a /\ \A i \in 1..n : f[i] = H[i][f[i - 1]]

\* f is the recursion from a by H.
IsRecursion(f, S, a, H) ==
  f \in [Nat -> S] /\ f[0] = a /\ \A n \in Nat : f[n + 1] = H[n + 1][f[n]]

(***************************************************************************)
(* A function may be defined from its value at 0 and from each value the   *)
(* next: what every recursive definition of the model rests on.            *)
(***************************************************************************)
LEMMA PrimitiveRecursion ==
  ASSUME NEW S, NEW a \in S, NEW H \in [Nat -> [S -> S]]
  PROVE  \E f : IsRecursion(f, S, a, H)
  <1>1. \A n \in Nat : \E f \in [Nat -> S] : Recurs(f, a, H, n)
    <2>. DEFINE T == {n \in Nat : \E f \in [Nat -> S] : Recurs(f, a, H, n)}
    <2>1. 0 \in T
      <3>1. Recurs([i \in Nat |-> a], a, H, 0)
        BY DEF Recurs
      <3>. QED  BY <3>1
    <2>2. ASSUME NEW n \in Nat, n \in T PROVE n + 1 \in T
      <3>1. PICK f \in [Nat -> S] : Recurs(f, a, H, n)
        BY <2>2
      <3>2. PICK g : g = [i \in Nat |-> IF i = n + 1 THEN H[n + 1][f[n]] ELSE f[i]]
        OBVIOUS
      <3>3. g \in [Nat -> S]
        BY <3>2
      <3>4. ASSUME NEW i \in 1..(n + 1) PROVE g[i] = H[i][g[i - 1]]
        <4>1. CASE i = n + 1
          BY <3>2, <4>1
        <4>2. CASE i # n + 1
          <5>1. i \in 1..n /\ i - 1 \in Nat /\ i - 1 # n + 1
            BY <4>2
          <5>2. f[i] = H[i][f[i - 1]]
            BY <3>1, <5>1 DEF Recurs
          <5>3. g[i] = f[i] /\ g[i - 1] = f[i - 1]
            BY <3>2, <4>2, <5>1
          <5>. QED  BY <5>2, <5>3
        <4>. QED  BY <4>1, <4>2
      <3>5. g[0] = a
        BY <3>1, <3>2 DEF Recurs
      <3>. QED  BY <3>3, <3>4, <3>5 DEF Recurs
    <2>. HIDE DEF T
    <2>3. Nat \subseteq T
      BY <2>1, <2>2, InductionOnNat
    <2>. QED  BY <2>3 DEF T
  <1>2. ASSUME NEW m \in Nat, NEW n \in Nat, NEW f, NEW g, Recurs(f, a, H, m), Recurs(g, a, H, n)
        PROVE  \A i \in Nat : i <= m /\ i <= n => f[i] = g[i]
    <2>. DEFINE T == {i \in Nat : i <= m /\ i <= n => f[i] = g[i]}
    <2>1. 0 \in T
      BY <1>2 DEF Recurs
    <2>2. ASSUME NEW i \in Nat, i \in T PROVE i + 1 \in T
      <3>. SUFFICES ASSUME i + 1 <= m, i + 1 <= n PROVE f[i + 1] = g[i + 1]
        OBVIOUS
      <3>1. f[i] = g[i] /\ i + 1 \in 1..m /\ i + 1 \in 1..n /\ (i + 1) - 1 = i
        BY <2>2
      <3>. QED  BY <1>2, <3>1 DEF Recurs
    <2>. HIDE DEF T
    <2>3. Nat \subseteq T
      BY <2>1, <2>2, InductionOnNat
    <2>. QED  BY <2>3 DEF T
  <1>3. PICK u : u = [n \in Nat |-> CHOOSE f \in [Nat -> S] : Recurs(f, a, H, n)]
    OBVIOUS
  <1>4. ASSUME NEW n \in Nat PROVE u[n] \in [Nat -> S] /\ Recurs(u[n], a, H, n)
    BY <1>1, <1>3
  <1>5. PICK h : h = [n \in Nat |-> u[n][n]]
    OBVIOUS
  <1>6. h \in [Nat -> S]
    BY <1>4, <1>5
  <1>7. h[0] = a
    BY <1>4, <1>5 DEF Recurs
  <1>8. ASSUME NEW n \in Nat PROVE h[n + 1] = H[n + 1][h[n]]
    <2>1. u[n + 1][n] = u[n][n]
      BY <1>2, <1>4
    <2>2. u[n + 1][n + 1] = H[n + 1][u[n + 1][n]]
      <3>1. n + 1 \in 1..(n + 1) /\ (n + 1) - 1 = n
        OBVIOUS
      <3>. QED  BY <1>4, <3>1 DEF Recurs
    <2>. QED  BY <1>5, <2>1, <2>2
  <1>. QED  BY <1>6, <1>7, <1>8 DEF IsRecursion

-----------------------------------------------------------------------------
(* Powers *)

LEMMA PowerRecursion ==
  Power[0] = 1 /\ \A n \in Nat : Power[n] \in Nat \ {0} /\ Power[n + 1] = Base * Power[n]
  <1>. USE SizesAssumption
  <1>1. PICK P : P = Nat \ {0}
    OBVIOUS
  <1>2. PICK H : H = [n \in Nat |-> [x \in P |-> Base * x]]
    OBVIOUS
  <1>3. PICK f \in [Nat -> P] : f[0] = 1 /\ \A n \in Nat : f[n + 1] = H[n + 1][f[n]]
    <2>1. PICK a : a = 1
      OBVIOUS
    <2>2. a \in P /\ H \in [Nat -> [P -> P]]
      BY <1>1, <1>2, <2>1
    <2>3. PICK f : IsRecursion(f, P, a, H)
      BY <2>2, PrimitiveRecursion
    <2>. QED  BY <2>1, <2>3 DEF IsRecursion
  <1>4. ASSUME NEW n \in Nat PROVE f[n + 1] = Base * f[n] /\ f[n] \in Nat \ {0}
    <2>1. f[n] \in P /\ n + 1 \in Nat
      BY <1>3
    <2>2. H[n + 1][f[n]] = Base * f[n]
      BY <1>2, <2>1
    <2>. QED  BY <1>1, <1>3, <2>1, <2>2
  <1>5. ASSUME NEW n \in Nat PROVE f[n] = IF n = 0 THEN 1 ELSE Base * f[n - 1]
    <2>1. CASE n # 0
      <3>1. n - 1 \in Nat /\ (n - 1) + 1 = n
        BY <2>1
      <3>. QED  BY <1>4, <2>1, <3>1
    <2>. QED  BY <1>3, <2>1
  <1>6. f = [n \in Nat |-> IF n = 0 THEN 1 ELSE Base * f[n - 1]]
    BY <1>5
  <1>7. PICK p : p = Power
    OBVIOUS
  <1>8. p = [n \in Nat |-> IF n = 0 THEN 1 ELSE Base * p[n - 1]]
    BY <1>6, <1>7, Zenon DEF Power
  <1>9. \A n \in Nat : p[n] = f[n]
    <2>. DEFINE T == {n \in Nat : p[n] = f[n]}
    <2>1. 0 \in T
      BY <1>3, <1>8
    <2>2. ASSUME NEW n \in Nat, n \in T PROVE n + 1 \in T
      <3>1. p[n + 1] = Base * p[n]
        BY <1>8
      <3>. QED  BY <1>4, <2>2, <3>1
    <2>. HIDE DEF T
    <2>3. Nat \subseteq T
      BY <2>1, <2>2, InductionOnNat
    <2>. QED  BY <2>3 DEF T
  <1>. QED  BY <1>3, <1>4, <1>7, <1>9

LEMMA LimitType == Limit \in Nat \ {0}
  BY PowerRecursion, SizesAssumption DEF Limit

\* Two's complement leaves an integer of 256 bits as it is.
LEMMA AbiWordInRange == ASSUME NEW n \in 0..(Limit - 1) PROVE AbiWord(n) = n
  BY LimitType DEF AbiWord

\* Every number is below a power, and powers grow.
LEMMA PowerExceeds == \A n \in Nat : n < Power[n]
  <1>. DEFINE T == {n \in Nat : n < Power[n]}
  <1>1. 0 \in T
    BY PowerRecursion
  <1>2. ASSUME NEW n \in Nat, n \in T PROVE n + 1 \in T
    <2>1. PICK p \in Nat : p = Power[n] /\ n < p
      BY <1>2, PowerRecursion
    <2>2. Base * p >= 2 * p
      BY SizesAssumption
    <2>3. Power[n + 1] = Base * p /\ Base * p \in Nat
      BY <2>1, PowerRecursion, SizesAssumption
    <2>. QED  BY <2>1, <2>2, <2>3
  <1>. HIDE DEF T
  <1>3. Nat \subseteq T
    BY <1>1, <1>2, InductionOnNat
  <1>. QED  BY <1>3 DEF T

LEMMA PowersGrow == \A k \in Nat, j \in Nat : Power[j] <= Power[j + k]
  <1>. SUFFICES ASSUME NEW j \in Nat PROVE \A k \in Nat : Power[j] <= Power[j + k]
    OBVIOUS
  <1>. DEFINE T == {k \in Nat : Power[j] <= Power[j + k]}
  <1>1. 0 \in T
    BY PowerRecursion
  <1>2. ASSUME NEW k \in Nat, k \in T PROVE k + 1 \in T
    <2>1. PICK p \in Nat : p = Power[j + k] /\ Power[j] <= p
      BY <1>2, PowerRecursion
    <2>2. Base * p >= p
      BY SizesAssumption
    <2>3. Power[j + (k + 1)] = Base * p /\ Power[j] \in Nat /\ Base * p \in Nat
      <3>1. j + (k + 1) = (j + k) + 1 /\ j + k \in Nat
        OBVIOUS
      <3>. QED  BY <2>1, <3>1, PowerRecursion, SizesAssumption
    <2>. QED  BY <2>1, <2>2, <2>3
  <1>. HIDE DEF T
  <1>3. Nat \subseteq T
    BY <1>1, <1>2, InductionOnNat
  <1>. QED  BY <1>3 DEF T

-----------------------------------------------------------------------------
(* Integers as words *)

\* The digits of a number in a word, most significant first.
InWord(n) == [i \in 1..Word |-> (n \div Power[Word - i]) % Base]

LEMMA DivMod ==
  ASSUME NEW n \in Nat, NEW b \in Nat \ {0}
  PROVE  /\ n \div b \in Nat /\ n % b \in 0..(b - 1)
         /\ n = (n \div b) * b + (n % b)
         /\ n < b => n \div b = 0
  OBVIOUS

LEMMA DivDiv ==
  ASSUME NEW n \in Nat, NEW b \in Nat \ {0}, NEW p \in Nat \ {0}
  PROVE  n \div (b * p) = (n \div p) \div b
  OBVIOUS

LEMMA InWordType ==
  ASSUME NEW n \in Nat
  PROVE  InWord(n) \in Seq(Bytes) /\ Len(InWord(n)) = Word /\ DOMAIN InWord(n) = 1..Word
  <1>1. ASSUME NEW i \in 1..Word PROVE (n \div Power[Word - i]) % Base \in Bytes
    <2>1. Word - i \in Nat
      BY SizesAssumption
    <2>2. PICK p \in Nat \ {0} : p = Power[Word - i]
      BY <2>1, PowerRecursion
    <2>3. PICK q \in Nat : q = n \div p
      BY <2>2, DivMod
    <2>. QED  BY <2>2, <2>3, DivMod, SizesAssumption DEF Bytes
  <1>2. PICK w : w = InWord(n)
    OBVIOUS
  <1>3. w \in [1..Word -> Bytes]
    BY <1>1, <1>2 DEF InWord
  <1>. QED  BY <1>2, <1>3, SizesAssumption

\* BigBytes has no more bytes than a word, and no leading zeros.
LEMMA BigBytesHas ==
  ASSUME NEW n \in 0..(Limit - 1)
  PROVE  \E size \in 0..Word :
           /\ n < Power[size]
           /\ BigBytes(n) = [i \in 1..size |-> (n \div Power[size - i]) % Base]
  <1>. DEFINE T == {k \in Nat : n < Power[k]}
  <1>1. n \in T
    BY PowerExceeds, LimitType
  <1>2. PICK k \in T : \A m \in T : k <= m
    <2>. HIDE DEF T
    <2>1. T \in SUBSET Nat /\ T # {}
      BY <1>1 DEF T
    <2>. QED  BY <2>1, LeastNatural
  <1>3. k \in 0..n /\ n < Power[k] /\ \A j \in 0..(k - 1) : n >= Power[j]
    <2>1. k \in Nat /\ k <= n /\ n \in Nat
      BY <1>1, <1>2, LimitType
    <2>2. ASSUME NEW j \in 0..(k - 1) PROVE n >= Power[j]
      <3>1. j \in Nat /\ j < k /\ Power[j] \in Nat
        BY <2>1, PowerRecursion
      <3>2. j \notin T
        BY <1>2, <2>1, <3>1
      <3>. QED  BY <2>1, <3>1, <3>2
    <2>. QED  BY <1>2, <2>1, <2>2
  <1>4. PICK size : size = CHOOSE x \in 0..n : n < Power[x] /\ \A j \in 0..(x - 1) : n >= Power[j]
    OBVIOUS
  <1>5. size \in 0..n /\ n < Power[size] /\ \A j \in 0..(size - 1) : n >= Power[j]
    BY <1>3, <1>4, Zenon
  <1>6. size <= Word
    <2>. SUFFICES ASSUME size > Word PROVE FALSE
      BY <1>5, SizesAssumption, LimitType
    <2>1. Word \in 0..(size - 1)
      BY <1>5, SizesAssumption, LimitType
    <2>2. n >= Limit
      BY <1>5, <2>1 DEF Limit
    <2>. QED  BY <2>2, LimitType
  <1>7. BigBytes(n) = [i \in 1..size |-> (n \div Power[size - i]) % Base]
    <2>1. ~ (n < 0)
      BY LimitType
    <2>. QED  BY <1>4, <2>1 DEF BigBytes
  <1>. QED  BY <1>5, <1>6, <1>7, SizesAssumption, LimitType

\* A value of 256 bits is padded to its digits in a word.
LEMMA PaddedIsInWord ==
  ASSUME NEW n \in 0..(Limit - 1)
  PROVE  LeftPad32(BigBytes(n)) = InWord(n)
  <1>1. PICK size \in 0..Word :
          /\ n < Power[size]
          /\ BigBytes(n) = [i \in 1..size |-> (n \div Power[size - i]) % Base]
    BY BigBytesHas
  <1>2. n \in Nat /\ size \in Nat /\ Word \in Nat /\ size <= Word
    BY LimitType, SizesAssumption
  <1>3. PICK b : b = BigBytes(n)
    OBVIOUS
  <1>4. b \in Seq(Bytes) /\ Len(b) = size
    <2>1. ASSUME NEW i \in 1..size PROVE (n \div Power[size - i]) % Base \in Bytes
      <3>1. size - i \in Nat
        BY <1>2
      <3>2. PICK p \in Nat \ {0} : p = Power[size - i]
        BY <3>1, PowerRecursion
      <3>3. PICK q \in Nat : q = n \div p
        BY <1>2, <3>2, DivMod
      <3>. QED  BY <3>2, <3>3, DivMod, SizesAssumption DEF Bytes
    <2>2. b \in [1..size -> Bytes]
      BY <1>1, <1>3, <2>1
    <2>. QED  BY <1>2, <2>2
  <1>5. PICK w : w = InWord(n)
    OBVIOUS
  <1>6. w \in Seq(Bytes) /\ Len(w) = Word
    BY <1>2, <1>5, InWordType
  <1>7. PICK z : z = Zeros(Word - size)
    OBVIOUS
  <1>8. z \in Seq(Bytes) /\ Len(z) = Word - size /\ \A i \in 1..(Word - size) : z[i] = 0
    <2>1. z = [i \in 1..(Word - size) |-> 0]
      BY <1>7 DEF Zeros
    <2>2. 0 \in Bytes /\ Word - size \in Nat
      BY <1>2, SizesAssumption DEF Bytes
    <2>3. z \in [1..(Word - size) -> Bytes]
      BY <2>1, <2>2
    <2>. QED  BY <2>1, <2>2, <2>3
  <1>9. PICK c : c = z \o b
    OBVIOUS
  <1>10. /\ c \in Seq(Bytes) /\ Len(c) = Word
         /\ \A i \in 1..Word : c[i] = IF i <= Word - size THEN 0 ELSE b[i - (Word - size)]
    <2>1. /\ c \in Seq(Bytes) /\ Len(c) = Len(z) + Len(b)
          /\ \A i \in 1..(Len(z) + Len(b)) : c[i] = IF i <= Len(z) THEN z[i] ELSE b[i - Len(z)]
      BY <1>4, <1>8, <1>9, ConcatProperties
    <2>2. Len(z) + Len(b) = Word /\ Len(z) = Word - size
      BY <1>2, <1>4, <1>8
    <2>. QED  BY <1>2, <1>8, <2>1, <2>2
  <1>11. ASSUME NEW i \in 1..Word PROVE c[i] = w[i]
    <2>1. PICK p \in Nat \ {0} : p = Power[Word - i]
      <3>1. Word - i \in Nat
        BY <1>2
      <3>. QED  BY <3>1, PowerRecursion
    <2>2. w[i] = (n \div p) % Base
      BY <1>5, <2>1 DEF InWord
    <2>3. CASE i <= Word - size
      <3>1. PICK k \in Nat : k = (Word - i) - size
        BY <1>2, <2>3
      <3>2. Power[size] <= p
        <4>1. size + k = Word - i
          BY <1>2, <3>1
        <4>. QED  BY <1>2, <2>1, <4>1, PowersGrow
      <3>3. n < p
        <4>1. PICK m \in Nat : m = Power[size]
          BY <1>2, PowerRecursion
        <4>. QED  BY <1>1, <1>2, <2>1, <3>2, <4>1
      <3>4. n \div p = 0
        BY <1>2, <2>1, <3>3, DivMod
      <3>5. 0 % Base = 0
        BY SizesAssumption
      <3>. QED  BY <1>10, <2>2, <2>3, <3>4, <3>5
    <2>4. CASE i > Word - size
      <3>1. i - (Word - size) \in 1..size /\ size - (i - (Word - size)) = Word - i
        BY <1>2, <2>4
      <3>2. b[i - (Word - size)] = (n \div p) % Base
        BY <1>1, <1>3, <2>1, <3>1
      <3>3. c[i] = b[i - (Word - size)]
        BY <1>2, <1>10, <2>4
      <3>. QED  BY <2>2, <3>2, <3>3
    <2>. QED  BY <1>2, <2>3, <2>4
  <1>12. c = w
    BY <1>6, <1>10, <1>11, SeqEqual
  <1>13. LeftPad32(b) = c
    <2>1. CASE Len(b) >= Word
      <3>1. size = Word /\ z = <<>>
        <4>1. size = Word
          BY <1>2, <1>4, <2>1
        <4>. QED  BY <1>2, <1>8, <4>1, EmptySeq
      <3>2. c = b
        BY <1>4, <1>9, <3>1, ConcatEmptySeq
      <3>3. LeftPad32(b) = SubSeq(b, 1, Len(b))
        <4>1. Len(b) - Word + 1 = 1
          BY <1>2, <1>4, <3>1
        <4>. QED  BY <2>1, <4>1 DEF LeftPad32
      <3>. QED  BY <1>4, <3>2, <3>3, SubSeqFull
    <2>2. CASE ~(Len(b) >= Word)
      BY <1>4, <1>7, <1>9, <2>2 DEF LeftPad32
    <2>. QED  BY <2>1, <2>2
  <1>. QED  BY <1>3, <1>5, <1>12, <1>13

-----------------------------------------------------------------------------
(* Words as integers *)

\* The integer of the first i bytes.
Prefix(bytes) ==
  CHOOSE value : value = [i \in 0..Len(bytes) |->
                            IF i = 0 THEN 0 ELSE value[i - 1] * Base + bytes[i]]

LEMMA PrefixRecursion ==
  ASSUME NEW bytes \in Seq(Bytes), NEW value, value = Prefix(bytes)
  PROVE  /\ Integer(bytes) = value[Len(bytes)]
         /\ value[0] = 0
         /\ \A i \in 1..Len(bytes) : value[i] = value[i - 1] * Base + bytes[i]
         /\ \A i \in 0..Len(bytes) : value[i] \in Nat
  <1>1. PICK len \in Nat : len = Len(bytes)
    BY LenProperties
  <1>2. \A i \in 1..len : bytes[i] \in Nat
    BY <1>1, ElementOfSeq, SizesAssumption DEF Bytes
  <1>3. PICK H : H = [i \in Nat |-> [x \in Nat |-> IF i \in 1..len THEN x * Base + bytes[i] ELSE 0]]
    OBVIOUS
  <1>4. H \in [Nat -> [Nat -> Nat]]
    <2>1. ASSUME NEW i \in Nat, NEW x \in Nat
          PROVE  (IF i \in 1..len THEN x * Base + bytes[i] ELSE 0) \in Nat
      <3>1. x * Base \in Nat
        BY SizesAssumption
      <3>. QED  BY <1>2, <3>1
    <2>. QED  BY <1>3, <2>1
  <1>5. PICK a : a = 0
    OBVIOUS
  <1>6. PICK f : IsRecursion(f, Nat, a, H)
    <2>1. a \in Nat
      BY <1>5
    <2>. QED  BY <1>4, <2>1, PrimitiveRecursion
  <1>7. f \in [Nat -> Nat] /\ f[0] = 0
    BY <1>5, <1>6 DEF IsRecursion
  <1>8. ASSUME NEW i \in 1..len PROVE f[i] = f[i - 1] * Base + bytes[i]
    <2>1. i - 1 \in Nat /\ (i - 1) + 1 = i /\ i \in Nat
      BY <1>1
    <2>2. f[(i - 1) + 1] = H[(i - 1) + 1][f[i - 1]] /\ f[i - 1] \in Nat
      BY <1>6, <2>1 DEF IsRecursion
    <2>3. H[i][f[i - 1]] = f[i - 1] * Base + bytes[i]
      BY <1>3, <2>1, <2>2
    <2>. QED  BY <2>1, <2>2, <2>3
  <1>9. PICK g : g = [i \in 0..len |-> f[i]]
    OBVIOUS
  <1>10. g = [i \in 0..len |-> IF i = 0 THEN 0 ELSE g[i - 1] * Base + bytes[i]]
    <2>1. ASSUME NEW i \in 0..len
          PROVE  g[i] = IF i = 0 THEN 0 ELSE g[i - 1] * Base + bytes[i]
      <3>1. CASE i # 0
        <4>1. i \in 1..len /\ i - 1 \in 0..len
          BY <1>1, <3>1
        <4>. QED  BY <1>8, <1>9, <3>1, <4>1
      <3>. QED  BY <1>7, <1>9, <3>1
    <2>. QED  BY <1>9, <2>1
  <1>11. value = [i \in 0..len |-> IF i = 0 THEN 0 ELSE value[i - 1] * Base + bytes[i]]
    BY <1>1, <1>10, Zenon DEF Prefix
  <1>12. Integer(bytes) = value[len]
    BY <1>1 DEF Integer, Prefix
  <1>13. value[0] = 0 /\ \A i \in 1..len : value[i] = value[i - 1] * Base + bytes[i]
    BY <1>1, <1>11
  <1>14. \A i \in Nat : i <= len => value[i] \in Nat
    <2>. DEFINE T == {i \in Nat : i <= len => value[i] \in Nat}
    <2>1. 0 \in T
      BY <1>13
    <2>2. ASSUME NEW i \in Nat, i \in T PROVE i + 1 \in T
      <3>. SUFFICES ASSUME i + 1 <= len PROVE value[i + 1] \in Nat
        OBVIOUS
      <3>1. i + 1 \in 1..len /\ (i + 1) - 1 = i /\ value[i] \in Nat
        BY <1>1, <2>2
      <3>2. value[i + 1] = value[i] * Base + bytes[i + 1]
        BY <1>13, <3>1
      <3>3. value[i] * Base \in Nat /\ bytes[i + 1] \in Nat
        BY <1>2, <3>1, SizesAssumption
      <3>. QED  BY <3>2, <3>3
    <2>. HIDE DEF T
    <2>3. Nat \subseteq T
      BY <2>1, <2>2, InductionOnNat
    <2>. QED  BY <2>3 DEF T
  <1>. QED  BY <1>1, <1>12, <1>13, <1>14

LEMMA IntegerType == \A bytes \in Seq(Bytes) : Integer(bytes) \in Nat
  <1>. SUFFICES ASSUME NEW bytes \in Seq(Bytes) PROVE Integer(bytes) \in Nat
    OBVIOUS
  <1>1. Len(bytes) \in 0..Len(bytes)
    BY LenProperties
  <1>2. PICK value : value = Prefix(bytes)
    OBVIOUS
  <1>. QED  BY <1>1, <1>2, PrefixRecursion

\* The contract reads the number that was written.
LEMMA IntegerInWord ==
  ASSUME NEW n \in 0..(Limit - 1)
  PROVE  Integer(InWord(n)) = n
  <1>1. n \in Nat /\ Word \in Nat /\ Base \in Nat \ {0}
    BY LimitType, SizesAssumption
  <1>2. PICK w : w = InWord(n)
    OBVIOUS
  <1>3. w \in Seq(Bytes) /\ Len(w) = Word
    BY <1>1, <1>2, InWordType
  <1>4. PICK value : value = Prefix(w)
    OBVIOUS
  <1>5. /\ Integer(w) = value[Word] /\ value[0] = 0
        /\ \A i \in 1..Word : value[i] = value[i - 1] * Base + w[i]
    BY <1>3, <1>4, PrefixRecursion
  <1>6. \A i \in Nat : i <= Word => value[i] = n \div Power[Word - i]
    <2>. DEFINE T == {i \in Nat : i <= Word => value[i] = n \div Power[Word - i]}
    <2>1. 0 \in T
      <3>1. n \div Limit = 0
        BY <1>1, LimitType, DivMod
      <3>2. Word - 0 = Word
        BY <1>1
      <3>. QED  BY <1>5, <3>1, <3>2 DEF Limit
    <2>2. ASSUME NEW i \in Nat, i \in T PROVE i + 1 \in T
      <3>. SUFFICES ASSUME i + 1 <= Word PROVE value[i + 1] = n \div Power[Word - (i + 1)]
        OBVIOUS
      <3>1. i + 1 \in 1..Word /\ (i + 1) - 1 = i /\ i <= Word
        BY <1>1
      <3>2. PICK k \in Nat : k = Word - (i + 1) /\ k + 1 = Word - i
        BY <1>1, <3>1
      <3>3. PICK p \in Nat \ {0} : p = Power[k] /\ Power[k + 1] = Base * p
        BY <3>2, PowerRecursion
      <3>4. PICK q \in Nat : q = n \div p
        BY <1>1, <3>3, DivMod
      <3>5. value[i] = q \div Base
        <4>1. value[i] = n \div (Base * p)
          BY <2>2, <3>1, <3>2, <3>3
        <4>. QED  BY <1>1, <3>3, <3>4, <4>1, DivDiv
      <3>6. w[i + 1] = q % Base
        BY <1>2, <3>1, <3>2, <3>3, <3>4 DEF InWord
      <3>7. value[i + 1] = (q \div Base) * Base + (q % Base)
        BY <1>5, <3>1, <3>5, <3>6
      <3>. QED  BY <1>1, <3>2, <3>3, <3>4, <3>7, DivMod
    <2>. HIDE DEF T
    <2>3. Nat \subseteq T
      BY <2>1, <2>2, InductionOnNat
    <2>. QED  BY <2>3 DEF T
  <1>7. value[Word] = n \div Power[0]
    <2>1. Word - Word = 0
      BY <1>1
    <2>. QED  BY <1>1, <1>6, <2>1
  <1>8. n \div 1 = n
    BY <1>1
  <1>. QED  BY <1>2, <1>5, <1>7, <1>8, PowerRecursion

-----------------------------------------------------------------------------
(* What MultiSend reads *)

\* The length of a packed transaction without its data.
HeadLength == 2 + 2 * Word
\* Where the first packed transaction ends, what is after it, and the call it asks for.
EndOf(p) == HeadLength + Integer(Read(p, 3 + Word, HeadLength))
RestOf(p) == SubSeq(p, EndOf(p) + 1, Len(p))
CallOf(p) ==
  [to |-> Read(p, 2, 2)[1], value |-> Integer(Read(p, 3, 2 + Word)),
   data |-> Read(p, HeadLength + 1, EndOf(p))]
CallSet == [to : Bytes, value : Nat, data : Seq(Bytes)]

LEMMA ReadHas ==
  ASSUME NEW bytes \in Seq(Bytes), NEW from \in Nat \ {0}, NEW to \in Nat, from <= to + 1
  PROVE  /\ Read(bytes, from, to) \in Seq(Bytes)
         /\ Len(Read(bytes, from, to)) = to - from + 1
         /\ \A i \in 1..(to - from + 1) :
              Read(bytes, from, to)[i] = IF from + i - 1 \in 1..Len(bytes)
                                         THEN bytes[from + i - 1] ELSE 0
  <1>1. PICK len \in Nat : len = Len(bytes) /\ DOMAIN bytes = 1..len
    BY LenProperties
  <1>2. PICK size \in Nat : size = to - from + 1
    OBVIOUS
  <1>3. PICK r : r = Read(bytes, from, to)
    OBVIOUS
  <1>4. r = [i \in 1..size |-> IF from + i - 1 \in 1..len THEN bytes[from + i - 1] ELSE 0]
    BY <1>1, <1>2, <1>3 DEF Read
  <1>5. r \in [1..size -> Bytes]
    <2>1. 0 \in Bytes
      BY SizesAssumption DEF Bytes
    <2>2. \A j \in 1..len : bytes[j] \in Bytes
      BY <1>1, ElementOfSeq
    <2>. QED  BY <1>4, <2>1, <2>2
  <1>6. r \in Seq(Bytes) /\ Len(r) = size
    BY <1>5
  <1>. QED  BY <1>1, <1>2, <1>3, <1>4, <1>6

LEMMA EndOfType ==
  ASSUME NEW p \in Seq(Bytes)
  PROVE  EndOf(p) \in Nat /\ EndOf(p) >= HeadLength /\ HeadLength \in Nat /\ HeadLength >= 4
  <1>1. /\ HeadLength \in Nat /\ HeadLength >= 4
        /\ 3 + Word \in Nat \ {0} /\ 3 + Word <= HeadLength + 1
    BY SizesAssumption DEF HeadLength
  <1>2. Read(p, 3 + Word, HeadLength) \in Seq(Bytes)
    BY <1>1, ReadHas
  <1>3. PICK n \in Nat : n = Integer(Read(p, 3 + Word, HeadLength))
    BY <1>2, IntegerType
  <1>. QED  BY <1>1, <1>3 DEF EndOf

LEMMA RestOfType ==
  ASSUME NEW p \in Seq(Bytes), p # <<>>
  PROVE  RestOf(p) \in Seq(Bytes) /\ Len(RestOf(p)) < Len(p) /\ Len(RestOf(p)) \in Nat
  <1>1. PICK len \in Nat \ {0} : len = Len(p)
    BY EmptySeq
  <1>2. PICK e \in Nat : e = EndOf(p) /\ e >= 4
    BY EndOfType
  <1>3. \A i \in (e + 1)..len : p[i] \in Bytes
    BY <1>1, <1>2, ElementOfSeq
  <1>4. PICK s : s = SubSeq(p, e + 1, len)
    OBVIOUS
  <1>5. s \in Seq(Bytes) /\ Len(s) = IF e + 1 <= len THEN len - (e + 1) + 1 ELSE 0
    BY <1>3, <1>4, SubSeqProperties
  <1>. QED  BY <1>1, <1>2, <1>4, <1>5 DEF RestOf

LEMMA CallOfType ==
  ASSUME NEW p \in Seq(Bytes)
  PROVE  CallOf(p) \in CallSet
  <1>1. PICK e \in Nat : e = EndOf(p) /\ e >= HeadLength /\ HeadLength \in Nat /\ HeadLength >= 4
    BY EndOfType
  <1>2. Read(p, 2, 2)[1] \in Bytes
    <2>1. Read(p, 2, 2) \in Seq(Bytes) /\ Len(Read(p, 2, 2)) = 1
      <3>1. PICK k : k = 2
        OBVIOUS
      <3>2. k \in Nat \ {0} /\ k \in Nat /\ k <= k + 1
        BY <3>1
      <3>3. Read(p, k, k) \in Seq(Bytes) /\ Len(Read(p, k, k)) = k - k + 1
        BY <3>2, ReadHas
      <3>. QED  BY <3>1, <3>3
    <2>. QED  BY <2>1, ElementOfSeq
  <1>3. Integer(Read(p, 3, 2 + Word)) \in Nat
    <2>1. Read(p, 3, 2 + Word) \in Seq(Bytes)
      BY ReadHas, SizesAssumption
    <2>. QED  BY <2>1, IntegerType
  <1>4. Read(p, HeadLength + 1, EndOf(p)) \in Seq(Bytes)
    BY <1>1, ReadHas
  <1>. QED  BY <1>2, <1>3, <1>4 DEF CallOf, CallSet

\* What MultiSend makes of p if g is what it makes of the rest.
Reads(g, p) == IF p = <<>> THEN <<>> ELSE <<CallOf(p)>> \o g[RestOf(p)]

LEMMA ReadsType ==
  ASSUME NEW g \in [Seq(Bytes) -> Seq(CallSet)], NEW p \in Seq(Bytes)
  PROVE  Reads(g, p) \in Seq(CallSet)
  <1>1. CASE p = <<>>
    BY <1>1, EmptySeq DEF Reads
  <1>2. CASE p # <<>>
    <2>1. PICK c \in CallSet : c = CallOf(p)
      BY CallOfType
    <2>2. PICK s \in Seq(CallSet) : s = g[RestOf(p)]
      BY <1>2, RestOfType
    <2>3. <<c>> \in Seq(CallSet)
      OBVIOUS
    <2>4. <<c>> \o s \in Seq(CallSet)
      BY <2>3, ConcatProperties
    <2>. QED  BY <1>2, <2>1, <2>2, <2>4 DEF Reads
  <1>. QED  BY <1>1, <1>2

\* A packed batch has an end: what MultiSend reads is well-defined.
LEMMA MultiSendRecursion ==
  /\ MultiSend[<<>>] = <<>>
  /\ \A p \in Seq(Bytes) : p # <<>> => MultiSend[p] = <<CallOf(p)>> \o MultiSend[RestOf(p)]
  /\ \A p \in Seq(Bytes) : MultiSend[p] \in Seq(CallSet)
  <1>1. PICK S : S = [Seq(Bytes) -> Seq(CallSet)]
    OBVIOUS
  <1>2. PICK a : a = [p \in Seq(Bytes) |-> <<>>]
    OBVIOUS
  <1>3. PICK H : H = [n \in Nat |-> [g \in S |-> [p \in Seq(Bytes) |-> Reads(g, p)]]]
    OBVIOUS
  <1>4. a \in S
    BY <1>1, <1>2, EmptySeq
  <1>5. H \in [Nat -> [S -> S]]
    <2>1. ASSUME NEW g \in S PROVE [p \in Seq(Bytes) |-> Reads(g, p)] \in S
      BY <1>1, <2>1, ReadsType
    <2>. QED  BY <1>3, <2>1
  <1>6. PICK f : IsRecursion(f, S, a, H)
    BY <1>4, <1>5, PrimitiveRecursion
  <1>7. ASSUME NEW n \in Nat
        PROVE  f[n] \in S /\ f[n + 1] = [p \in Seq(Bytes) |-> Reads(f[n], p)]
    <2>1. f[n] \in S /\ f[n + 1] = H[n + 1][f[n]] /\ n + 1 \in Nat
      BY <1>6 DEF IsRecursion
    <2>. QED  BY <1>3, <2>1
  <1>8. \A n \in Nat : \A p \in Seq(Bytes) : Len(p) <= n => f[n + 1][p] = f[n][p]
    <2>. DEFINE T == {n \in Nat : \A p \in Seq(Bytes) : Len(p) <= n => f[n + 1][p] = f[n][p]}
    <2>1. 0 \in T
      <3>. SUFFICES ASSUME NEW p \in Seq(Bytes), Len(p) <= 0 PROVE f[0 + 1][p] = f[0][p]
        OBVIOUS
      <3>1. p = <<>>
        BY EmptySeq
      <3>2. f[0][p] = <<>>
        BY <1>2, <1>6 DEF IsRecursion
      <3>3. f[0 + 1][p] = Reads(f[0], p)
        BY <1>7
      <3>. QED  BY <3>1, <3>2, <3>3 DEF Reads
    <2>2. ASSUME NEW n \in Nat, n \in T PROVE n + 1 \in T
      <3>. SUFFICES ASSUME NEW p \in Seq(Bytes), Len(p) <= n + 1
                    PROVE  f[(n + 1) + 1][p] = f[n + 1][p]
        OBVIOUS
      <3>1. f[(n + 1) + 1][p] = Reads(f[n + 1], p)
        <4>1. PICK k \in Nat : k = n + 1
          OBVIOUS
        <4>2. f[k + 1] = [q \in Seq(Bytes) |-> Reads(f[k], q)]
          BY <1>7
        <4>. QED  BY <4>1, <4>2
      <3>2. f[n + 1][p] = Reads(f[n], p)
        BY <1>7
      <3>3. p # <<>> => f[n + 1][RestOf(p)] = f[n][RestOf(p)]
        <4>. SUFFICES ASSUME p # <<>> PROVE f[n + 1][RestOf(p)] = f[n][RestOf(p)]
          OBVIOUS
        <4>1. RestOf(p) \in Seq(Bytes) /\ Len(RestOf(p)) <= n
          <5>1. Len(p) \in Nat
            BY LenProperties
          <5>. QED  BY <5>1, RestOfType
        <4>. QED  BY <2>2, <4>1
      <3>. QED  BY <3>1, <3>2, <3>3 DEF Reads
    <2>. HIDE DEF T
    <2>3. Nat \subseteq T
      BY <2>1, <2>2, InductionOnNat
    <2>. QED  BY <2>3 DEF T
  <1>9. ASSUME NEW p \in Seq(Bytes) PROVE \A k \in Nat : f[Len(p) + k][p] = f[Len(p)][p]
    <2>. DEFINE T == {k \in Nat : f[Len(p) + k][p] = f[Len(p)][p]}
    <2>1. PICK len \in Nat : len = Len(p)
      BY LenProperties
    <2>2. 0 \in T
      BY <2>1
    <2>3. ASSUME NEW k \in Nat, k \in T PROVE k + 1 \in T
      <3>1. f[(len + k) + 1][p] = f[len + k][p]
        BY <1>8, <2>1
      <3>2. (len + k) + 1 = len + (k + 1)
        OBVIOUS
      <3>. QED  BY <2>1, <2>3, <3>1, <3>2
    <2>. HIDE DEF T
    <2>4. Nat \subseteq T
      BY <2>2, <2>3, InductionOnNat
    <2>. QED  BY <2>4 DEF T
  <1>10. PICK h : h = [p \in Seq(Bytes) |-> f[Len(p)][p]]
    OBVIOUS
  <1>11. ASSUME NEW p \in Seq(Bytes) PROVE h[p] = Reads(h, p)
    <2>1. PICK len \in Nat : len = Len(p)
      BY LenProperties
    <2>2. h[p] = f[len + 1][p]
      BY <1>9, <1>10, <2>1
    <2>3. f[len + 1][p] = Reads(f[len], p)
      BY <1>7
    <2>4. p # <<>> => f[len][RestOf(p)] = h[RestOf(p)]
      <3>. SUFFICES ASSUME p # <<>> PROVE f[len][RestOf(p)] = h[RestOf(p)]
        OBVIOUS
      <3>1. PICK r \in Seq(Bytes) : r = RestOf(p)
        BY RestOfType
      <3>2. PICK short \in Nat : short = Len(r) /\ short < len
        BY <2>1, <3>1, RestOfType
      <3>3. PICK k \in Nat : len = short + k
        <4>1. len = short + (len - short) /\ len - short \in Nat
          BY <3>2
        <4>. QED  BY <4>1
      <3>4. f[short + k][r] = f[short][r]
        BY <1>9, <3>2
      <3>. QED  BY <1>10, <3>1, <3>2, <3>3, <3>4
    <2>. QED  BY <2>2, <2>3, <2>4 DEF Reads
  <1>12. h = [p \in Seq(Bytes) |-> IF p = <<>> THEN <<>> ELSE <<CallOf(p)>> \o h[RestOf(p)]]
    <2>1. h = [p \in Seq(Bytes) |-> Reads(h, p)]
      BY <1>10, <1>11
    <2>. QED  BY <2>1 DEF Reads
  <1>13. PICK m : m = MultiSend
    OBVIOUS
  <1>14. m = CHOOSE g : g = [p \in Seq(Bytes) |->
                               IF p = <<>> THEN <<>> ELSE <<CallOf(p)>> \o g[RestOf(p)]]
    BY <1>13, Zenon DEF MultiSend, CallOf, RestOf, EndOf, HeadLength
  <1>15. m = [p \in Seq(Bytes) |-> IF p = <<>> THEN <<>> ELSE <<CallOf(p)>> \o m[RestOf(p)]]
    BY <1>12, <1>14, Zenon
  <1>16. m[<<>>] = <<>>
    BY <1>15, EmptySeq
  <1>17. ASSUME NEW p \in Seq(Bytes), p # <<>> PROVE m[p] = <<CallOf(p)>> \o m[RestOf(p)]
    BY <1>15, <1>17
  <1>18. \A n \in Nat : \A p \in Seq(Bytes) : Len(p) <= n => m[p] \in Seq(CallSet)
    <2>. DEFINE T == {n \in Nat : \A p \in Seq(Bytes) : Len(p) <= n => m[p] \in Seq(CallSet)}
    <2>1. 0 \in T
      <3>. SUFFICES ASSUME NEW p \in Seq(Bytes), Len(p) <= 0 PROVE m[p] \in Seq(CallSet)
        OBVIOUS
      <3>1. p = <<>>
        BY EmptySeq
      <3>. QED  BY <1>16, <3>1, EmptySeq
    <2>2. ASSUME NEW n \in Nat, n \in T PROVE n + 1 \in T
      <3>. SUFFICES ASSUME NEW p \in Seq(Bytes), Len(p) <= n + 1, p # <<>>
                    PROVE  m[p] \in Seq(CallSet)
        BY <1>16, EmptySeq
      <3>1. PICK s : s = m[RestOf(p)]
        OBVIOUS
      <3>2. s \in Seq(CallSet)
        <4>1. RestOf(p) \in Seq(Bytes) /\ Len(RestOf(p)) <= n
          <5>1. Len(p) \in Nat
            BY LenProperties
          <5>. QED  BY <5>1, RestOfType
        <4>. QED  BY <2>2, <3>1, <4>1
      <3>3. PICK c \in CallSet : c = CallOf(p)
        BY CallOfType
      <3>4. <<c>> \in Seq(CallSet)
        OBVIOUS
      <3>5. <<c>> \o s \in Seq(CallSet)
        BY <3>2, <3>4, ConcatProperties
      <3>. QED  BY <1>17, <3>1, <3>3, <3>5
    <2>. HIDE DEF T
    <2>3. Nat \subseteq T
      BY <2>1, <2>2, InductionOnNat
    <2>. QED  BY <2>3 DEF T
  <1>19. ASSUME NEW p \in Seq(Bytes) PROVE m[p] \in Seq(CallSet)
    <2>1. Len(p) \in Nat /\ Len(p) <= Len(p)
      BY LenProperties
    <2>. QED  BY <1>18, <2>1
  <1>. QED  BY <1>13, <1>16, <1>17, <1>19

-----------------------------------------------------------------------------
(* What encodePackedMultisend writes *)

\* A part of a byte string is read as it was written.
LEMMA ReadPart ==
  ASSUME NEW s \in Seq(Bytes), NEW t \in Seq(Bytes), NEW k \in Nat, k + Len(t) <= Len(s),
         \A i \in 1..Len(t) : s[k + i] = t[i]
  PROVE  Read(s, k + 1, k + Len(t)) = t
  <1>1. PICK len \in Nat, size \in Nat : len = Len(s) /\ size = Len(t)
    BY LenProperties
  <1>2. PICK from \in Nat \ {0}, to \in Nat : from = k + 1 /\ to = k + size
    <2>1. k + 1 \in Nat \ {0} /\ k + size \in Nat
      BY <1>1
    <2>. QED  BY <2>1
  <1>3. from <= to + 1 /\ to - from + 1 = size
    BY <1>1, <1>2
  <1>4. PICK r : r = Read(s, from, to)
    OBVIOUS
  <1>5. /\ r \in Seq(Bytes) /\ Len(r) = size
        /\ \A i \in 1..size : r[i] = IF from + i - 1 \in 1..len THEN s[from + i - 1] ELSE 0
    <2>1. /\ Read(s, from, to) \in Seq(Bytes) /\ Len(Read(s, from, to)) = to - from + 1
          /\ \A i \in 1..(to - from + 1) :
               Read(s, from, to)[i] = IF from + i - 1 \in 1..Len(s) THEN s[from + i - 1] ELSE 0
      BY ZenonT(60), <1>3, ReadHas
    <2>. QED  BY <1>1, <1>3, <1>4, <2>1
  <1>6. ASSUME NEW i \in 1..size PROVE r[i] = t[i]
    <2>1. from + i - 1 = k + i /\ k + i \in 1..len
      BY <1>1, <1>2
    <2>. QED  BY <1>1, <1>5, <2>1
  <1>7. r = t
    BY <1>1, <1>5, <1>6, SeqEqual
  <1>. QED  BY <1>1, <1>2, <1>4, <1>7

\* Where the parts of a packed transaction begin.
Consists(s, to, v, l, d, rest) ==
  /\ s \in Seq(Bytes)
  /\ Len(s) = HeadLength + Len(d) + Len(rest)
  /\ s[2] = to
  /\ \A i \in 1..Word : s[2 + i] = v[i] /\ s[2 + Word + i] = l[i]
  /\ \A i \in 1..Len(d) : s[HeadLength + i] = d[i]
  /\ \A i \in 1..Len(rest) : s[HeadLength + Len(d) + i] = rest[i]

LEMMA PartsOfPacked ==
  ASSUME NEW op \in Bytes, NEW to \in Bytes, NEW v \in Seq(Bytes), NEW l \in Seq(Bytes),
         NEW d \in Seq(Bytes), NEW rest \in Seq(Bytes), Len(v) = Word, Len(l) = Word,
         NEW s, s = (((<<op, to>> \o v) \o l) \o d) \o rest
  PROVE  Consists(s, to, v, l, d, rest)
  <1>1. PICK size \in Nat, left \in Nat : size = Len(d) /\ left = Len(rest)
    BY LenProperties
  <1>2. Word \in Nat \ {0} /\ HeadLength = 2 + Word + Word /\ HeadLength \in Nat
    BY SizesAssumption DEF HeadLength
  <1>3. PICK a : a = <<op, to>>
    OBVIOUS
  <1>4. a \in Seq(Bytes) /\ Len(a) = 2 /\ a[1] = op /\ a[2] = to
    BY <1>3
  <1>5. PICK b : b = a \o v
    OBVIOUS
  <1>6. /\ b \in Seq(Bytes) /\ Len(b) = 2 + Word
        /\ \A i \in 1..(2 + Word) : b[i] = IF i <= 2 THEN a[i] ELSE v[i - 2]
    <2>1. /\ b \in Seq(Bytes) /\ Len(b) = Len(a) + Len(v)
          /\ \A i \in 1..(Len(a) + Len(v)) : b[i] = IF i <= Len(a) THEN a[i] ELSE v[i - Len(a)]
      BY <1>4, <1>5, ConcatProperties
    <2>. QED  BY <1>4, <2>1
  <1>7. PICK c : c = b \o l
    OBVIOUS
  <1>8. /\ c \in Seq(Bytes) /\ Len(c) = HeadLength
        /\ \A i \in 1..HeadLength : c[i] = IF i <= 2 + Word THEN b[i] ELSE l[i - (2 + Word)]
    <2>1. /\ c \in Seq(Bytes) /\ Len(c) = Len(b) + Len(l)
          /\ \A i \in 1..(Len(b) + Len(l)) : c[i] = IF i <= Len(b) THEN b[i] ELSE l[i - Len(b)]
      BY <1>6, <1>7, ConcatProperties
    <2>. QED  BY <1>2, <1>6, <2>1
  <1>9. PICK e : e = c \o d
    OBVIOUS
  <1>10. /\ e \in Seq(Bytes) /\ Len(e) = HeadLength + size
         /\ \A i \in 1..(HeadLength + size) :
              e[i] = IF i <= HeadLength THEN c[i] ELSE d[i - HeadLength]
    <2>1. /\ e \in Seq(Bytes) /\ Len(e) = Len(c) + Len(d)
          /\ \A i \in 1..(Len(c) + Len(d)) : e[i] = IF i <= Len(c) THEN c[i] ELSE d[i - Len(c)]
      BY <1>8, <1>9, ConcatProperties
    <2>. QED  BY <1>1, <1>8, <2>1
  <1>11. /\ s \in Seq(Bytes) /\ Len(s) = HeadLength + size + left
         /\ \A i \in 1..(HeadLength + size + left) :
              s[i] = IF i <= HeadLength + size THEN e[i] ELSE rest[i - (HeadLength + size)]
    <2>1. s = e \o rest
      BY <1>3, <1>5, <1>7, <1>9
    <2>2. /\ e \o rest \in Seq(Bytes) /\ Len(e \o rest) = Len(e) + Len(rest)
          /\ \A i \in 1..(Len(e) + Len(rest)) :
               (e \o rest)[i] = IF i <= Len(e) THEN e[i] ELSE rest[i - Len(e)]
      BY <1>10, ConcatProperties
    <2>. QED  BY <1>1, <1>10, <2>1, <2>2
  <1>12. ASSUME NEW i \in 1..HeadLength PROVE s[i] = c[i]
    <2>1. /\ i \in 1..(HeadLength + size) /\ i \in 1..(HeadLength + size + left)
          /\ i <= HeadLength + size /\ i <= HeadLength
      BY <1>1, <1>2
    <2>. QED  BY <1>10, <1>11, <2>1
  <1>13. s[2] = to
    BY <1>2, <1>4, <1>6, <1>8, <1>12
  <1>14. ASSUME NEW i \in 1..Word PROVE s[2 + i] = v[i] /\ s[2 + Word + i] = l[i]
    <2>1. PICK j \in 1..(2 + Word), k \in 1..HeadLength : j = 2 + i /\ k = 2 + Word + i
      BY <1>2
    <2>2. s[j] = v[i]
      <3>1. j \in 1..HeadLength /\ j <= 2 + Word /\ ~ (j <= 2) /\ j - 2 = i
        BY <1>2, <2>1
      <3>. QED  BY <1>6, <1>8, <1>12, <3>1
    <2>3. s[k] = l[i]
      <3>1. ~ (k <= 2 + Word) /\ k - (2 + Word) = i
        BY <1>2, <2>1
      <3>. QED  BY <1>8, <1>12, <3>1
    <2>. QED  BY <2>1, <2>2, <2>3
  <1>15. ASSUME NEW i \in 1..size PROVE s[HeadLength + i] = d[i]
    <2>1. PICK j \in 1..(HeadLength + size) : j = HeadLength + i
      BY <1>1, <1>2
    <2>2. /\ j \in 1..(HeadLength + size + left)
          /\ j <= HeadLength + size /\ ~ (j <= HeadLength) /\ j - HeadLength = i
      BY <1>1, <1>2, <2>1
    <2>. QED  BY <1>10, <1>11, <2>1, <2>2
  <1>16. ASSUME NEW i \in 1..left PROVE s[HeadLength + size + i] = rest[i]
    <2>1. PICK j \in 1..(HeadLength + size + left) : j = HeadLength + size + i
      <3>1. HeadLength + size + i \in 1..(HeadLength + size + left)
        BY <1>1, <1>2
      <3>. QED  BY <3>1
    <2>2. ~ (j <= HeadLength + size) /\ j - (HeadLength + size) = i
      BY <1>1, <1>2, <2>1
    <2>. QED  BY <1>11, <2>1, <2>2
  <1>. QED  BY <1>1, <1>11, <1>13, <1>14, <1>15, <1>16 DEF Consists

\* The call that is made of a transaction.
AsCalled(txn) ==
  [to |-> HexToAddress(txn.to), value |-> Number(txn.value), data |-> DecodeHex(txn.data)]

\* A transaction of a batch, and what it is packed from.
Packable(txn) ==
  /\ HexToAddress(txn.to) \in Bytes
  /\ Number(txn.value) \in 0..(Limit - 1)
  /\ DecodeHex(txn.data) \in Seq(Bytes) /\ Len(DecodeHex(txn.data)) < Limit

LEMMA PackedType ==
  ASSUME NEW txn, Packable(txn)
  PROVE  Packed(txn) \in Seq(Bytes)
  <1>1. PICK n \in 0..(Limit - 1) : n = Number(txn.value)
    BY DEF Packable
  <1>2. PICK d \in Seq(Bytes) : d = DecodeHex(txn.data)
    BY DEF Packable
  <1>3. PICK size \in 0..(Limit - 1) : size = Len(d)
    BY <1>2, LenProperties, LimitType DEF Packable
  <1>4. PICK v \in Seq(Bytes) : v = LeftPad32(BigBytes(n))
    BY PaddedIsInWord, InWordType, LimitType
  <1>5. PICK l \in Seq(Bytes) : l = LeftPad32(BigBytes(size))
    BY PaddedIsInWord, InWordType, LimitType
  <1>6. <<Call, HexToAddress(txn.to)>> \in Seq(Bytes)
    <2>1. Call \in Bytes /\ HexToAddress(txn.to) \in Bytes
      BY SizesAssumption DEF Call, Bytes, Packable
    <2>. QED  BY <2>1
  <1>7. ((<<Call, HexToAddress(txn.to)>> \o v) \o l) \o d \in Seq(Bytes)
    <2>1. <<Call, HexToAddress(txn.to)>> \o v \in Seq(Bytes)
      BY <1>6, ConcatProperties
    <2>2. (<<Call, HexToAddress(txn.to)>> \o v) \o l \in Seq(Bytes)
      BY <2>1, ConcatProperties
    <2>. QED  BY <2>2, ConcatProperties
  <1>. QED  BY <1>1, <1>2, <1>3, <1>4, <1>5, <1>7 DEF Packed

(***************************************************************************)
(* MultiSend reads the first packed transaction as it was asked for, and   *)
(* goes on with what follows it.                                           *)
(***************************************************************************)
LEMMA ReadsPacked ==
  ASSUME NEW txn, Packable(txn), NEW rest \in Seq(Bytes)
  PROVE  MultiSend[Packed(txn) \o rest] = <<AsCalled(txn)>> \o MultiSend[rest]
  <1>1. PICK n \in 0..(Limit - 1) : n = Number(txn.value)
    BY DEF Packable
  <1>2. PICK d \in Seq(Bytes) : d = DecodeHex(txn.data)
    BY DEF Packable
  <1>3. PICK size \in 0..(Limit - 1) : size = Len(d)
    BY <1>2, LenProperties, LimitType DEF Packable
  <1>4. PICK v \in Seq(Bytes) : v = LeftPad32(BigBytes(n)) /\ Len(v) = Word /\ Integer(v) = n
    BY PaddedIsInWord, InWordType, IntegerInWord, LimitType
  <1>5. PICK l \in Seq(Bytes) : l = LeftPad32(BigBytes(size)) /\ Len(l) = Word /\ Integer(l) = size
    BY PaddedIsInWord, InWordType, IntegerInWord, LimitType
  <1>6. PICK left \in Nat : left = Len(rest)
    BY LenProperties
  <1>7. Word \in Nat \ {0} /\ HeadLength = 2 + Word + Word /\ HeadLength \in Nat /\ size \in Nat
    BY LimitType, SizesAssumption DEF HeadLength
  <1>8. PICK to \in Bytes : to = HexToAddress(txn.to)
    BY DEF Packable
  <1>9. PICK s : s = Packed(txn) \o rest
    OBVIOUS
  <1>10. /\ s \in Seq(Bytes)
         /\ Len(s) = HeadLength + size + left
         /\ s[2] = to
         /\ \A i \in 1..Word : s[2 + i] = v[i] /\ s[2 + Word + i] = l[i]
         /\ \A i \in 1..size : s[HeadLength + i] = d[i]
         /\ \A i \in 1..left : s[HeadLength + size + i] = rest[i]
    <2>1. PICK op \in Bytes : op = Call
      BY SizesAssumption DEF Call, Bytes
    <2>2. s = (((<<op, to>> \o v) \o l) \o d) \o rest
      BY <1>1, <1>2, <1>3, <1>4, <1>5, <1>8, <1>9, <2>1 DEF Packed
    <2>3. Consists(s, to, v, l, d, rest)
      BY <1>4, <1>5, <2>2, PartsOfPacked
    <2>. QED  BY <1>3, <1>6, <2>3 DEF Consists
  <1>11. Read(s, 3, 2 + Word) = v
    <2>1. PICK k \in Nat : k = 2
      OBVIOUS
    <2>2. k + Len(v) <= Len(s) /\ \A i \in 1..Len(v) : s[k + i] = v[i]
      BY <1>4, <1>6, <1>7, <1>10, <2>1
    <2>3. Read(s, k + 1, k + Len(v)) = v
      BY <1>10, <2>2, ReadPart
    <2>4. k + 1 = 3 /\ k + Len(v) = 2 + Word
      BY <1>4, <2>1
    <2>. QED  BY <2>3, <2>4
  <1>12. Read(s, 3 + Word, HeadLength) = l
    <2>1. PICK k \in Nat : k = 2 + Word
      BY <1>7
    <2>2. k + Len(l) <= Len(s) /\ \A i \in 1..Len(l) : s[k + i] = l[i]
      BY <1>5, <1>6, <1>7, <1>10, <2>1
    <2>3. Read(s, k + 1, k + Len(l)) = l
      BY <1>10, <2>2, ReadPart
    <2>4. k + 1 = 3 + Word /\ k + Len(l) = HeadLength
      BY <1>5, <1>7, <2>1
    <2>. QED  BY <2>3, <2>4
  <1>13. EndOf(s) = HeadLength + size
    BY <1>5, <1>12 DEF EndOf
  <1>14. Read(s, HeadLength + 1, EndOf(s)) = d
    <2>1. HeadLength + Len(d) <= Len(s) /\ \A i \in 1..Len(d) : s[HeadLength + i] = d[i]
      <3>1. HeadLength + size <= HeadLength + size + left
        BY <1>6, <1>7
      <3>. QED  BY <1>3, <1>10, <3>1
    <2>2. Read(s, HeadLength + 1, HeadLength + Len(d)) = d
      BY <1>7, <1>10, <2>1, ReadPart
    <2>. QED  BY <1>3, <1>13, <2>2
  <1>15. Read(s, 2, 2)[1] = to
    <2>1. PICK k : k = 2
      OBVIOUS
    <2>2. k \in Nat \ {0} /\ k \in Nat /\ k <= k + 1 /\ k - k + 1 = 1 /\ k + 1 - 1 = k
      BY <2>1
    <2>3. Read(s, k, k)[1] = IF k + 1 - 1 \in 1..Len(s) THEN s[k + 1 - 1] ELSE 0
      <3>1. \A i \in 1..(k - k + 1) :
              Read(s, k, k)[i] = IF k + i - 1 \in 1..Len(s) THEN s[k + i - 1] ELSE 0
        BY ZenonT(60), <1>10, <2>2, ReadHas
      <3>2. 1 \in 1..(k - k + 1)
        BY <2>2
      <3>. QED  BY <3>1, <3>2
    <2>4. k \in 1..Len(s)
      BY <1>6, <1>7, <1>10, <2>1
    <2>. QED  BY <1>10, <2>1, <2>2, <2>3, <2>4
  <1>16. CallOf(s) = AsCalled(txn)
    BY <1>1, <1>2, <1>4, <1>8, <1>11, <1>14, <1>15 DEF CallOf, AsCalled
  <1>17. RestOf(s) = rest
    <2>1. PICK k \in Nat : k = HeadLength + size
      BY <1>7
    <2>2. PICK r : r = SubSeq(s, k + 1, k + left)
      OBVIOUS
    <2>3. \A i \in (k + 1)..(k + left) : s[i] \in Bytes
      <3>1. \A i \in (k + 1)..(k + left) : i \in 1..Len(s)
        BY <1>6, <1>7, <1>10, <2>1
      <3>. QED  BY <1>10, <3>1, ElementOfSeq
    <2>4. /\ r \in Seq(Bytes)
          /\ Len(r) = IF k + 1 <= k + left THEN (k + left) - (k + 1) + 1 ELSE 0
          /\ \A i \in 1..((k + left) - (k + 1) + 1) : r[i] = s[(k + 1) + i - 1]
      <3>1. PICK m \in Int, o \in Int : m = k + 1 /\ o = k + left
        BY <1>6, <2>1
      <3>2. \A i \in m..o : s[i] \in Bytes
        BY <2>3, <3>1
      <3>3. /\ SubSeq(s, m, o) \in Seq(Bytes)
            /\ Len(SubSeq(s, m, o)) = IF m <= o THEN o - m + 1 ELSE 0
            /\ \A i \in 1..(o - m + 1) : SubSeq(s, m, o)[i] = s[m + i - 1]
        BY <3>2, SubSeqProperties
      <3>. QED  BY <2>2, <3>1, <3>3
    <2>5. Len(r) = left /\ (k + left) - (k + 1) + 1 = left
      BY <1>6, <2>1, <2>4
    <2>6. ASSUME NEW i \in 1..left PROVE r[i] = rest[i]
      <3>1. (k + 1) + i - 1 = k + i
        BY <2>1
      <3>. QED  BY <1>10, <2>1, <2>4, <2>5, <3>1
    <2>7. r = rest
      BY <1>6, <2>4, <2>5, <2>6, SeqEqual
    <2>. QED  BY <1>10, <1>13, <2>1, <2>2, <2>7 DEF RestOf
  <1>18. s # <<>>
    BY <1>6, <1>7, <1>10, EmptySeq
  <1>. QED  BY <1>9, <1>10, <1>16, <1>17, <1>18, MultiSendRecursion

\* The first i parts, one after the other.
Joined(parts) ==
  CHOOSE flat : flat = [i \in 1..Len(parts) |->
                          IF i = 1 THEN parts[i] ELSE flat[i - 1] \o parts[i]]

IsJoined(flat, parts, n) ==
  /\ FlattenSeq(parts) = flat[n]
  /\ flat[1] = parts[1]
  /\ \A i \in Nat \ {0} : i < n => flat[i + 1] = flat[i] \o parts[i + 1]
  /\ \A i \in 1..n : flat[i] \in Seq(Bytes)

LEMMA JoinedRecursion ==
  ASSUME NEW n \in Nat \ {0}, NEW parts \in [1..n -> Seq(Bytes)], NEW flat, flat = Joined(parts)
  PROVE  IsJoined(flat, parts, n)
  <1>1. PICK S : S = Seq(Bytes)
    OBVIOUS
  <1>2. parts \in Seq(S) /\ Len(parts) = n
    BY <1>1
  <1>3. PICK H : H = [i \in Nat |-> [x \in S |->
                        IF i \in 1..(n - 1) THEN x \o parts[i + 1] ELSE <<>>]]
    OBVIOUS
  <1>4. H \in [Nat -> [S -> S]]
    <2>1. ASSUME NEW i \in 1..(n - 1), NEW x \in S PROVE x \o parts[i + 1] \in S
      <3>1. parts[i + 1] \in Seq(Bytes)
        OBVIOUS
      <3>. QED  BY <1>1, <3>1, ConcatProperties
    <2>2. <<>> \in S
      BY <1>1, EmptySeq
    <2>. QED  BY <1>3, <2>1, <2>2
  <1>5. PICK a \in S : a = parts[1]
    BY <1>1
  <1>6. PICK f : IsRecursion(f, S, a, H)
    BY <1>4, PrimitiveRecursion
  <1>7. f \in [Nat -> S] /\ f[0] = parts[1]
    BY <1>5, <1>6 DEF IsRecursion
  <1>8. ASSUME NEW i \in 1..(n - 1) PROVE f[i] = f[i - 1] \o parts[i + 1]
    <2>1. i - 1 \in Nat /\ (i - 1) + 1 = i /\ i \in Nat
      OBVIOUS
    <2>2. f[(i - 1) + 1] = H[(i - 1) + 1][f[i - 1]] /\ f[i - 1] \in S
      BY <1>6, <2>1 DEF IsRecursion
    <2>3. H[i][f[i - 1]] = f[i - 1] \o parts[i + 1]
      BY <1>3, <2>1, <2>2
    <2>. QED  BY <2>1, <2>2, <2>3
  <1>9. PICK g : g = [i \in 1..n |-> f[i - 1]]
    OBVIOUS
  <1>10. g = [i \in 1..n |-> IF i = 1 THEN parts[i] ELSE g[i - 1] \o parts[i]]
    <2>1. ASSUME NEW i \in 1..n PROVE g[i] = IF i = 1 THEN parts[i] ELSE g[i - 1] \o parts[i]
      <3>1. CASE i # 1
        <4>1. i - 1 \in 1..(n - 1) /\ (i - 1) + 1 = i /\ i - 1 \in 1..n
          BY <3>1
        <4>2. f[i - 1] = f[(i - 1) - 1] \o parts[(i - 1) + 1]
          BY <1>8, <4>1
        <4>3. g[i] = f[i - 1] /\ g[i - 1] = f[(i - 1) - 1]
          BY <1>9, <4>1
        <4>. QED  BY <3>1, <4>1, <4>2, <4>3
      <3>. QED  BY <1>7, <1>9, <3>1
    <2>. QED  BY <1>9, <2>1
  <1>11. flat = [i \in 1..n |-> IF i = 1 THEN parts[i] ELSE flat[i - 1] \o parts[i]]
    <2>1. flat = CHOOSE x : x = [i \in 1..n |-> IF i = 1 THEN parts[i] ELSE x[i - 1] \o parts[i]]
      BY <1>2 DEF Joined
    <2>. QED  BY <1>10, <2>1, Zenon
  <1>12. flat[1] = parts[1]
    BY <1>11
  <1>13. ASSUME NEW i \in Nat \ {0}, i < n PROVE flat[i + 1] = flat[i] \o parts[i + 1]
    <2>1. i + 1 \in 1..n /\ i + 1 # 1 /\ (i + 1) - 1 = i
      BY <1>13
    <2>. QED  BY <1>11, <2>1
  <1>14. \A i \in Nat : i < n => flat[i + 1] \in Seq(Bytes)
    <2>. DEFINE T == {i \in Nat : i < n => flat[i + 1] \in Seq(Bytes)}
    <2>1. 0 \in T
      BY <1>12
    <2>2. ASSUME NEW i \in Nat, i \in T PROVE i + 1 \in T
      <3>. SUFFICES ASSUME i + 1 < n PROVE flat[(i + 1) + 1] \in Seq(Bytes)
        OBVIOUS
      <3>1. PICK x \in Seq(Bytes) : x = flat[i + 1]
        BY <2>2
      <3>2. PICK y \in Seq(Bytes) : y = parts[(i + 1) + 1]
        OBVIOUS
      <3>3. flat[(i + 1) + 1] = x \o y
        <4>1. i + 1 \in Nat \ {0} /\ i + 1 < n
          OBVIOUS
        <4>. QED  BY <1>13, <3>1, <3>2, <4>1
      <3>. QED  BY <3>3, ConcatProperties
    <2>. HIDE DEF T
    <2>3. Nat \subseteq T
      BY <2>1, <2>2, InductionOnNat
    <2>. QED  BY <2>3 DEF T
  <1>15. ASSUME NEW i \in 1..n PROVE flat[i] \in Seq(Bytes)
    <2>1. i - 1 \in Nat /\ i - 1 < n /\ (i - 1) + 1 = i
      OBVIOUS
    <2>. QED  BY <1>14, <2>1
  <1>16. FlattenSeq(parts) = flat[n]
    BY <1>2 DEF FlattenSeq, Joined
  <1>. QED  BY <1>12, <1>13, <1>15, <1>16 DEF IsJoined

\* After these bytes MultiSend has read these calls, whatever follows.
Continues(bytes, calls) ==
  \A rest \in Seq(Bytes) : MultiSend[bytes \o rest] = calls \o MultiSend[rest]

\* One more between two sequences ends the first or begins the second.
LEMMA OneMoreBetween ==
  ASSUME NEW S, NEW c \in S, NEW s \in Seq(S), NEW r \in Seq(S)
  PROVE  s \o (<<c>> \o r) = (s \o <<c>>) \o r
  <1>1. <<c>> \in Seq(S)
    OBVIOUS
  <1>2. PICK t : t = <<c>>
    OBVIOUS
  <1>3. t \in Seq(S)
    BY <1>1, <1>2
  <1>4. s \o (t \o r) = (s \o t) \o r
    BY <1>3, ConcatAssociative
  <1>. QED  BY <1>2, <1>4

(***************************************************************************)
(* MultiSend makes the calls of the batch that was packed, in its order.   *)
(***************************************************************************)
LEMMA MultiSendIsAsAsked ==
  ASSUME NEW batch, NEW n \in Nat \ {0}, DOMAIN batch = 1..n, \A i \in 1..n : Packable(batch[i])
  PROVE  MultiSend[encodePackedMultisend(batch)] = [i \in DOMAIN batch |-> AsCalled(batch[i])]
  <1>1. PICK parts : parts = [i \in 1..n |-> Packed(batch[i])]
    OBVIOUS
  <1>2. parts \in [1..n -> Seq(Bytes)]
    BY <1>1, PackedType
  <1>3. PICK flat : flat = Joined(parts)
    OBVIOUS
  <1>4. /\ FlattenSeq(parts) = flat[n]
        /\ flat[1] = parts[1]
        /\ \A i \in Nat \ {0} : i < n => flat[i + 1] = flat[i] \o parts[i + 1]
        /\ \A i \in 1..n : flat[i] \in Seq(Bytes)
    <2>1. IsJoined(flat, parts, n)
      BY <1>2, <1>3, JoinedRecursion
    <2>. QED  BY <2>1 DEF IsJoined
  <1>5. PICK calls : calls = [k \in Nat |-> [i \in 1..k |-> AsCalled(batch[i])]]
    OBVIOUS
  <1>6. ASSUME NEW i \in 1..n PROVE AsCalled(batch[i]) \in CallSet
    BY LimitType DEF AsCalled, Packable, CallSet
  <1>7. ASSUME NEW k \in Nat, k <= n PROVE calls[k] \in Seq(CallSet) /\ Len(calls[k]) = k
    <2>1. calls[k] = [i \in 1..k |-> AsCalled(batch[i])]
      BY <1>5
    <2>2. calls[k] \in [1..k -> CallSet]
      BY <1>6, <1>7, <2>1
    <2>. QED  BY <2>2
  <1>8. ASSUME NEW k \in Nat \ {0}, k < n
        PROVE  calls[k + 1] = calls[k] \o <<AsCalled(batch[k + 1])>>
    <2>1. PICK c \in CallSet : c = AsCalled(batch[k + 1])
      BY <1>6, <1>8
    <2>2. PICK s \in Seq(CallSet) : s = calls[k] /\ Len(s) = k
      BY <1>7, <1>8
    <2>3. PICK t \in Seq(CallSet) : t = calls[k + 1] /\ Len(t) = k + 1
      <3>1. k + 1 \in Nat /\ k + 1 <= n
        BY <1>8
      <3>. QED  BY <1>7, <3>1
    <2>4. PICK one : one = <<c>>
      OBVIOUS
    <2>5. one \in Seq(CallSet) /\ Len(one) = 1 /\ one[1] = c
      BY <2>4
    <2>6. /\ s \o one \in Seq(CallSet) /\ Len(s \o one) = Len(s) + Len(one)
          /\ \A i \in 1..(Len(s) + Len(one)) :
               (s \o one)[i] = IF i <= Len(s) THEN s[i] ELSE one[i - Len(s)]
      BY <2>5, ConcatProperties
    <2>7. ASSUME NEW i \in 1..(k + 1) PROVE t[i] = (s \o one)[i]
      <3>1. t[i] = AsCalled(batch[i])
        BY <1>5, <2>3
      <3>2. (s \o one)[i] = IF i <= k THEN s[i] ELSE one[i - k]
        BY <2>2, <2>5, <2>6
      <3>3. CASE i <= k
        <4>1. s[i] = AsCalled(batch[i])
          BY <1>5, <2>2, <3>3
        <4>. QED  BY <3>1, <3>2, <3>3, <4>1
      <3>4. CASE ~ (i <= k)
        <4>1. i = k + 1 /\ i - k = 1
          BY <3>4
        <4>. QED  BY <2>1, <2>5, <3>1, <3>2, <3>4, <4>1
      <3>. QED  BY <3>3, <3>4
    <2>8. t = s \o one
      BY <2>2, <2>3, <2>5, <2>6, <2>7, SeqEqual
    <2>. QED  BY <2>1, <2>2, <2>3, <2>4, <2>8
  <1>9. ASSUME NEW rest \in Seq(Bytes), NEW k \in 1..n
        PROVE  MultiSend[parts[k] \o rest] = <<AsCalled(batch[k])>> \o MultiSend[rest]
    BY <1>1, ReadsPacked
  <1>10. \A k \in Nat : k < n => Continues(flat[k + 1], calls[k + 1])
    <2>. DEFINE T == {k \in Nat : k < n => Continues(flat[k + 1], calls[k + 1])}
    <2>1. 0 \in T
      <3>1. calls[1] = <<AsCalled(batch[1])>> /\ 1 \in 1..n /\ 0 + 1 = 1
        BY <1>5
      <3>2. Continues(flat[1], calls[1])
        BY <1>4, <1>9, <3>1 DEF Continues
      <3>. QED  BY <3>1, <3>2
    <2>2. ASSUME NEW k \in Nat, k \in T PROVE k + 1 \in T
      <3>. SUFFICES ASSUME k + 1 < n PROVE Continues(flat[(k + 1) + 1], calls[(k + 1) + 1])
        OBVIOUS
      <3>1. PICK j \in Nat \ {0} : j = k + 1 /\ j \in 1..n /\ j + 1 \in 1..n /\ j < n
        <4>1. k + 1 \in Nat \ {0} /\ k + 1 \in 1..n /\ (k + 1) + 1 \in 1..n
          OBVIOUS
        <4>. QED  BY <4>1
      <3>2. Continues(flat[j], calls[j])
        BY <2>2, <3>1
      <3>3. PICK x \in Seq(Bytes), y \in Seq(Bytes) : x = flat[j] /\ y = parts[j + 1]
        BY <1>2, <1>4, <3>1
      <3>4. PICK c \in CallSet, s \in Seq(CallSet) : c = AsCalled(batch[j + 1]) /\ s = calls[j]
        BY <1>6, <1>7, <3>1
      <3>5. flat[j + 1] = x \o y /\ calls[j + 1] = s \o <<c>>
        BY <1>4, <1>8, <3>1, <3>3, <3>4
      <3>6. ASSUME NEW rest \in Seq(Bytes)
            PROVE  MultiSend[(x \o y) \o rest] = (s \o <<c>>) \o MultiSend[rest]
        <4>1. PICK r \in Seq(CallSet) : r = MultiSend[rest]
          BY MultiSendRecursion
        <4>2. (x \o y) \o rest = x \o (y \o rest) /\ y \o rest \in Seq(Bytes)
          <5>1. (x \o y) \o rest = x \o (y \o rest)
            BY SMTT(40), ConcatAssociative
          <5>2. y \o rest \in Seq(Bytes)
            BY ConcatProperties
          <5>. QED  BY <5>1, <5>2
        <4>3. MultiSend[y \o rest] = <<c>> \o r
          BY <1>9, <3>1, <3>3, <3>4, <4>1
        <4>4. MultiSend[x \o (y \o rest)] = s \o (<<c>> \o r)
          BY <3>2, <3>3, <3>4, <4>2, <4>3 DEF Continues
        <4>5. s \o (<<c>> \o r) = (s \o <<c>>) \o r
          BY SMTT(40), OneMoreBetween
        <4>. QED  BY <4>1, <4>2, <4>4, <4>5
      <3>7. Continues(flat[j + 1], calls[j + 1])
        BY <3>5, <3>6 DEF Continues
      <3>. QED  BY <3>1, <3>7
    <2>. HIDE DEF T
    <2>3. Nat \subseteq T
      BY <2>1, <2>2, InductionOnNat
    <2>. QED  BY <2>3 DEF T
  <1>11. MultiSend[flat[n]] = calls[n]
    <2>1. n - 1 \in Nat /\ n - 1 < n /\ (n - 1) + 1 = n /\ n \in 1..n
      OBVIOUS
    <2>2. PICK x \in Seq(Bytes) : x = flat[n]
      BY <1>4, <2>1
    <2>3. PICK s \in Seq(CallSet) : s = calls[n]
      BY <1>7, <2>1
    <2>4. x \o <<>> = x /\ s \o <<>> = s /\ <<>> \in Seq(Bytes)
      BY ConcatEmptySeq, EmptySeq
    <2>5. Continues(x, s)
      BY <1>10, <2>1, <2>2, <2>3
    <2>6. MultiSend[x \o <<>>] = s \o MultiSend[<<>>]
      BY <2>4, <2>5 DEF Continues
    <2>. QED  BY <2>2, <2>3, <2>4, <2>6, MultiSendRecursion
  <1>12. encodePackedMultisend(batch) = flat[n]
    BY <1>1, <1>4 DEF encodePackedMultisend
  <1>. QED  BY <1>5, <1>11, <1>12

-----------------------------------------------------------------------------
(* What the wallet executes *)

\* Whatever the text, HexToAddress makes an address of it.
LEMMA AddressInBytes ==
  ASSUME NEW to, to.bytes \in Seq(Bytes)
  PROVE  HexToAddress(to) \in Bytes
  <1>1. PICK bytes \in Seq(Bytes) : bytes = to.bytes
    OBVIOUS
  <1>2. CASE bytes = <<>>
    BY <1>1, <1>2, SizesAssumption DEF HexToAddress, Bytes
  <1>3. CASE bytes # <<>>
    <2>1. Len(bytes) \in 1..Len(bytes)
      BY <1>3, LenProperties, EmptySeq
    <2>2. bytes[Len(bytes)] \in Bytes
      BY <2>1, ElementOfSeq
    <2>. QED  BY <1>1, <1>3, <2>2 DEF HexToAddress
  <1>. QED  BY <1>2, <1>3

\* The transactions of a batch whose values fit 256 bits can be packed.
LEMMA BatchIsPackable ==
  ASSUME NEW batch \in Batches, InRange(batch), NEW i \in DOMAIN batch
  PROVE  Packable(batch[i])
  <1>1. PICK txn : txn = batch[i]
    OBVIOUS
  <1>2. /\ txn.to \in [form : {"address", "hex", "garbage"}, bytes : Seq(Bytes)]
        /\ txn.data.bytes \in Seq(Bytes)
    <2>1. PICK R : R = [to : [form : {"address", "hex", "garbage"}, bytes : Seq(Bytes)],
                        value : [form : {"empty", "integer", "garbage"}, number : Int],
                        data : [form : {"empty", "0x", "bare", "garbage"}, bytes : Seq(Bytes)]]
      OBVIOUS
    <2>2. batch \in Seq(R)
      BY <2>1, BatchesAssumption
    <2>3. txn \in R
      BY <1>1, <2>2
    <2>. QED  BY <2>1, <2>3
  <1>3. Len(txn.data.bytes) < Limit
    BY <1>1, LengthsAssumption
  <1>4. DecodeHex(txn.data) \in Seq(Bytes) /\ Len(DecodeHex(txn.data)) < Limit
    BY <1>2, <1>3, LimitType, EmptySeq DEF DecodeHex
  <1>5. Number(txn.value) \in 0..(Limit - 1)
    BY <1>1 DEF InRange
  <1>6. HexToAddress(txn.to) \in Bytes
    BY <1>2, AddressInBytes
  <1>. QED  BY <1>1, <1>4, <1>5, <1>6 DEF Packable

\* Of an address HexToAddress makes that address.
LEMMA AddressIsKept ==
  ASSUME NEW batch \in Batches, Addressed(batch), NEW i \in DOMAIN batch
  PROVE  AsCalled(batch[i]) = Asked(batch[i])
  <1>1. Len(batch[i].to.bytes) = 1
    BY AddressesAssumption DEF Addressed
  <1>2. batch[i].to.bytes # <<>>
    BY <1>1
  <1>3. HexToAddress(batch[i].to) = batch[i].to.bytes[1]
    BY <1>1, <1>2 DEF HexToAddress
  <1>. QED  BY <1>3 DEF AsCalled, Asked

(***************************************************************************)
(* What the wallet executes is the batch Execute was given: the same calls *)
(* in the same order, with their values and data, whether the wallet makes *)
(* them itself or through MultiSend, if the addresses of the batch are     *)
(* addresses.  Those of a single Safe transaction are.                     *)
(***************************************************************************)
THEOREM CallsAreAsAsked == Spec => []ExecutedAsAsked
  <1>1. ASSUME IInv, verdict = "executed", InRange(txns), Addressed(txns)
        PROVE  executed = [i \in DOMAIN txns |-> Asked(txns[i])]
    <2>1. Verified /\ executed = Calls /\ request # NoRequest
      BY <1>1 DEF IInv, Judged
    <2>2. CASE SafeBuilt /\ Len(txns) = 1
      <3>1. DOMAIN txns = 1..1 /\ txns \in Batches
        BY <2>2, BatchType DEF SafeBuilt
      <3>2. /\ request.type = "SAFE" /\ request.fields.operation = Call
            /\ request.fields.to = HexToAddress(txns[1].to)
            /\ request.fields.data = DecodeHex(txns[1].data)
            /\ request.fields.value = 0 /\ Number(txns[1].value) = 0
        BY <1>1, <2>1, <2>2, SafeVerified, AggregatedHas
      <3>3. Calls = <<AsCalled(txns[1])>>
        BY <3>2 DEF Calls, Call, DelegateCall, AsCalled
      <3>4. AsCalled(txns[1]) = Asked(txns[1])
        BY <1>1, <3>1, AddressIsKept
      <3>. QED  BY <2>1, <3>1, <3>3, <3>4
    <2>3. CASE SafeBuilt /\ Len(txns) # 1
      <3>1. PICK n \in Nat \ {0} : DOMAIN txns = 1..n
        BY <2>3, BatchType DEF SafeBuilt
      <3>2. /\ request.type = "SAFE" /\ request.fields.operation = DelegateCall
            /\ request.fields.data = encodePackedMultisend(txns)
        BY <1>1, <2>3, SafeVerified, AggregatedHas
      <3>3. Calls = MultiSend[encodePackedMultisend(txns)]
        BY <3>2 DEF Calls
      <3>4. \A i \in 1..n : Packable(txns[i])
        BY <1>1, <2>3, <3>1, BatchIsPackable DEF SafeBuilt
      <3>5. executed = [i \in DOMAIN txns |-> AsCalled(txns[i])]
        BY <2>1, <3>1, <3>3, <3>4, MultiSendIsAsAsked
      <3>6. \A i \in DOMAIN txns : AsCalled(txns[i]) = Asked(txns[i])
        BY <1>1, <2>3, AddressIsKept DEF SafeBuilt
      <3>. QED  BY <3>5, <3>6
    <2>4. CASE CreateBuilt
      <3>1. Calls = <<>> /\ txns = <<>>
        BY <1>1, <2>4, CreateVerified DEF Calls, CreateBuilt
      <3>. QED  BY <2>1, <3>1
    <2>5. CASE ProxyBuilt
      <3>1. Calls = EncodeProxyTransactionData(txns)
        BY <1>1, <2>5, ProxyVerified DEF Calls
      <3>2. ASSUME NEW i \in DOMAIN txns
            PROVE  AbiWord(Number(txns[i].value)) = Number(txns[i].value)
        BY <1>1, AbiWordInRange DEF InRange
      <3>3. executed = [i \in DOMAIN txns |-> AsCalled(txns[i])]
        BY <2>1, <3>1, <3>2 DEF EncodeProxyTransactionData, AsCalled
      <3>4. \A i \in DOMAIN txns : AsCalled(txns[i]) = Asked(txns[i])
        BY <1>1, <2>5, AddressIsKept DEF ProxyBuilt
      <3>. QED  BY <3>3, <3>4
    <2>. QED  BY <1>1, <2>1, <2>2, <2>3, <2>4, <2>5 DEF IInv, BuiltFrom
  <1>2. ASSUME IInv, verdict = "executed", operation = "SAFE", Len(txns) = 1
        PROVE  Addressed(txns)
    <2>1. SafeBuilt
      BY <1>2 DEF IInv, Judged, BuiltFrom, CreateBuilt, ProxyBuilt
    <2>2. txns[1].to.form = "address" /\ DOMAIN txns = 1..1
      BY <1>2, <2>1, BatchType DEF SafeBuilt, Buildable, SingleTypable
    <2>. QED  BY <2>2 DEF Addressed
  <1>3. IInv => ExecutedAsAsked
    BY <1>1, <1>2 DEF ExecutedAsAsked
  <1>. QED  BY <1>3, Invariant, PTL

=============================================================================
