------------------------- MODULE TransactionBuilding -------------------------
(***************************************************************************)
(* How Execute turns a batch of transactions into one signed request, and  *)
(* what the wallet contract makes of it: the integers and byte strings of  *)
(* internal/utils, the packing of internal/encoder, the signed fields and  *)
(* the request of internal/builder.  Deploy's request for the factory, and *)
(* the addresses the chain's contracts give an owner's wallets, are here   *)
(* too.                                                                    *)
(*                                                                         *)
(* A byte is a number below Base and a word has Word bytes (256 and 32 in  *)
(* the code); an address is one byte.  A hash is the tuple of what is      *)
(* hashed, an ABI encoding the tuple of what is encoded.  The contracts    *)
(* (MultiSend, Safe, the factories) are the environment.                   *)
(***************************************************************************)
EXTENDS Integers, Sequences, SequencesExt

CONSTANTS
  Chains,       \* chains a client may be made for
  Base,         \* values of a byte
  Word,         \* bytes of a word
  Batches,      \* batches Execute is called with
  SignatureVs,  \* recovery values a signing key may put at the end of a signature
  Nonces,       \* nonces of the relayer
  Estimates     \* what the estimator says; NoEstimate when it fails

Bytes == 0..(Base - 1)
Power[n \in Nat] == IF n = 0 THEN 1 ELSE Base * Power[n - 1]
Limit == Power[Word]
NoEstimate == -1
defaultGasLimit == 10

ASSUME SizesAssumption == Base \in Nat \ {0, 1} /\ Word \in Nat \ {0}
ASSUME EstimatesAssumption == Estimates \subseteq Nat \cup {NoEstimate}
ASSUME SignaturesAssumption == SignatureVs \subseteq Nat
ASSUME NoncesAssumption == Nonces \subseteq 0..(Limit - 1)
\* The text of an address is an address, hexadecimal of another length or neither, and
\* has the bytes that can be read of it; the text of a value is empty, an integer or
\* neither; the text of the data is empty, hexadecimal with or without 0x, or neither.
ASSUME BatchesAssumption ==
  Batches \subseteq Seq([to : [form : {"address", "hex", "garbage"}, bytes : Seq(Bytes)],
                         value : [form : {"empty", "integer", "garbage"}, number : Int],
                         data : [form : {"empty", "0x", "bare", "garbage"}, bytes : Seq(Bytes)]])
                    \ {<<>>}
\* An address is one byte.
ASSUME AddressesAssumption ==
  \A batch \in Batches : \A i \in DOMAIN batch :
    batch[i].to.form = "address" => Len(batch[i].to.bytes) = 1
\* The length of the data is written into a word.
ASSUME LengthsAssumption ==
  \A batch \in Batches : \A i \in DOMAIN batch : Len(batch[i].data.bytes) < Limit

VARIABLES
  chain,    \* the chain
  pc,       \* "idle", "submitted" or "done"
  operation,\* the wallet or transaction type asked for
  txns,     \* the batch
  request,  \* the TransactionRequest
  verdict,  \* what became of it
  executed  \* the calls the wallet made

vars == <<chain, pc, operation, txns, request, verdict, executed>>

NoHash == [to |-> 0, value |-> 0, data |-> <<>>, calls |-> <<>>, operation |-> 0,
           gasLimit |-> 0, nonce |-> 0]
NoRequest == [type |-> "none", fields |-> NoHash, signed |-> NoHash, parity |-> 0, v |-> 0]

Init ==
  /\ chain \in Chains
  /\ pc = "idle"
  /\ operation = "none"
  /\ txns = <<>>
  /\ request = NoRequest
  /\ verdict = "none"
  /\ executed = <<>>

-----------------------------------------------------------------------------
(* The chain's contracts *)

Contracts == {"RelayHub", "ProxyFactory", "SafeFactory", "SafeMultisend"}

\* Mutant of GetContractConfig: Amoy is given a proxy factory, but no hub.
HalfConfigured(c) ==
  IF c = "amoy" THEN {"ProxyFactory", "SafeFactory", "SafeMultisend"}
  ELSE IF c = "polygon" THEN Contracts ELSE {}

\* The contracts whose addresses the tables hold; an unknown chain has none.
GetContractConfig(c) ==
  IF c = "amoy" THEN {"SafeFactory", "SafeMultisend"}
  ELSE IF c = "polygon" THEN Contracts ELSE {}

IsProxyContractConfigValid == {"RelayHub", "ProxyFactory"} \subseteq GetContractConfig(chain)
IsSafeContractConfigValid == {"SafeFactory", "SafeMultisend"} \subseteq GetContractConfig(chain)

\* What an application is told that asks for its wallet's address.
Derive(factory) ==
  IF factory \in GetContractConfig(chain) THEN "address" ELSE "ErrConfigUnsupported"

DeriveSafeAddress == Derive("SafeFactory")
DeriveProxyAddress == Derive("ProxyFactory")

-----------------------------------------------------------------------------
(* Integers and byte strings *)

\* ParseBigInt, after Execute has replaced an empty value by "0".
Readable(value) == value.form # "garbage"
Number(value) == IF value.form = "empty" THEN 0 ELSE value.number

Decodable(data) == data.form # "garbage"
DecodeHex(data) == IF data.form = "empty" THEN <<>> ELSE data.bytes

\* common.HexToAddress never fails: of the bytes it can read it keeps the last, and it
\* pads with zeros when there are too few.
HexToAddress(to) == IF to.bytes = <<>> THEN 0 ELSE to.bytes[Len(to.bytes)]

\* big.Int.Bytes: the magnitude, most significant byte first.
BigBytes(n) ==
  LET m == IF n < 0 THEN -n ELSE n
      size == CHOOSE k \in 0..m : m < Power[k] /\ \A j \in 0..(k - 1) : m >= Power[j]
  IN  [i \in 1..size |-> (m \div Power[size - i]) % Base]

Zeros(n) == [i \in 1..n |-> 0]

\* Mutant of LeftPad32: the zeros go to the wrong side.
RightPad32(b) ==
  IF Len(b) >= Word THEN SubSeq(b, Len(b) - Word + 1, Len(b)) ELSE b \o Zeros(Word - Len(b))

LeftPad32(b) ==
  IF Len(b) >= Word THEN SubSeq(b, Len(b) - Word + 1, Len(b)) ELSE Zeros(Word - Len(b)) \o b

\* Mutant of SplitAndPackSig: recovery values are taken to be 27 and 28.
SplitAndPackNormalised(v) == v + 4

\* The signer's recovery value as the Safe expects it for a message hash.
SplitAndPackSig(v) == IF v \in {0, 1} THEN v + 31 ELSE v + 4

Splittable(v) == v \in {0, 1, 27, 28}

\* PrivateKeySigner leaves the recovery value of a message's signature as the key
\* made it, and raises that of typed data to 27 or 28.
SignMessage(v) == v
SignTypedData(v) == IF v < 27 THEN v + 27 ELSE v

-----------------------------------------------------------------------------
(* Encoding *)

Call == 0
DelegateCall == 1
MultiSendAddress == 0

Packed(txn) ==
  LET data == DecodeHex(txn.data)
  IN  <<Call, HexToAddress(txn.to)>> \o LeftPad32(BigBytes(Number(txn.value)))
        \o LeftPad32(BigBytes(Len(data))) \o data

encodePackedMultisend(batch) == FlattenSeq([i \in DOMAIN batch |-> Packed(batch[i])])

Encodable(batch) == \A i \in DOMAIN batch : Readable(batch[i].value) /\ Decodable(batch[i].data)

\* uint256 of an ABI encoding: two's complement.
AbiWord(n) == n % Limit

EncodeProxyTransactionData(batch) ==
  [i \in DOMAIN batch |->
     [to |-> HexToAddress(batch[i].to), value |-> AbiWord(Number(batch[i].value)),
      data |-> DecodeHex(batch[i].data)]]

-----------------------------------------------------------------------------
(* Building a request *)

Begin(op, batch) ==
  /\ pc = "idle"
  /\ operation' = op
  /\ txns' = batch
  /\ UNCHANGED <<chain, executed>>

Submit(r) ==
  /\ pc' = "submitted"
  /\ request' = r
  /\ UNCHANGED verdict

Fail(reason) ==
  /\ pc' = "done"
  /\ verdict' = reason
  /\ UNCHANGED request

\* A single transaction is signed as it is; the typed data take an address, a value of
\* 256 bits and data with 0x, and turn down any other text.
SingleTypable(txn) ==
  /\ txn.to.form = "address"
  /\ Readable(txn.value) /\ Number(txn.value) \in 0..(Limit - 1)
  /\ txn.data.form = "0x"

Aggregated(batch) ==
  IF Len(batch) = 1
  THEN [to |-> HexToAddress(batch[1].to), value |-> Number(batch[1].value),
        data |-> DecodeHex(batch[1].data), operation |-> Call]
  ELSE [to |-> MultiSendAddress, value |-> 0,
        data |-> encodePackedMultisend(batch), operation |-> DelegateCall]

Buildable(batch) == IF Len(batch) = 1 THEN SingleTypable(batch[1]) ELSE Encodable(batch)

Parity(v) == IF v \in {0, 27} THEN 0 ELSE 1

\* The value is signed, but the request has no field for it.
SafeRequest(txn, nonce, v) ==
  LET fields == [NoHash EXCEPT !.to = txn.to, !.data = txn.data,
                               !.operation = txn.operation, !.nonce = nonce]
  IN  [type |-> "SAFE", fields |-> fields, signed |-> [fields EXCEPT !.value = txn.value],
       parity |-> Parity(v), v |-> SplitAndPackSig(SignMessage(v))]

ExecuteSafe(batch, nonce, v) ==
  /\ Begin("SAFE", batch)
  /\ IF ~IsSafeContractConfigValid THEN Fail("unsupported")
     ELSE IF ~Buildable(batch) THEN Fail("not built")
     ELSE IF ~Splittable(v) THEN Fail("bad signature")
     ELSE Submit(SafeRequest(Aggregated(batch), nonce, v))

\* No payment is asked for; the typed data are the payment's token, amount and receiver.
CreateRequest(v) ==
  [type |-> "SAFE-CREATE", fields |-> NoHash, signed |-> NoHash,
   parity |-> Parity(v), v |-> SignTypedData(v)]

Deploy(v) ==
  /\ Begin("SAFE-CREATE", <<>>)
  /\ IF IsSafeContractConfigValid THEN Submit(CreateRequest(v)) ELSE Fail("unsupported")

\* Mutant of GasLimit: what a failed estimate left behind is taken for one.
GasLimitAsGiven(estimate) == estimate

\* The estimator's value is passed on as it is, 0 included.
GasLimit(estimate) == IF estimate = NoEstimate THEN defaultGasLimit ELSE estimate

\* The signature of a message is sent as the signer made it.
ProxyRequest(batch, nonce, estimate, v) ==
  LET fields == [NoHash EXCEPT !.calls = EncodeProxyTransactionData(batch),
                               !.gasLimit = GasLimit(estimate), !.nonce = nonce]
  IN  [type |-> "PROXY", fields |-> fields, signed |-> fields,
       parity |-> Parity(v), v |-> SignMessage(v)]

ExecuteProxy(batch, nonce, estimate, v) ==
  /\ Begin("PROXY", batch)
  /\ IF ~IsProxyContractConfigValid THEN Fail("unsupported")
     ELSE IF ~Encodable(batch) THEN Fail("not built")
     ELSE Submit(ProxyRequest(batch, nonce, estimate, v))

-----------------------------------------------------------------------------
(* The contracts *)

Integer(bytes) ==
  LET value[i \in 0..Len(bytes)] == IF i = 0 THEN 0 ELSE value[i - 1] * Base + bytes[i]
  IN  value[Len(bytes)]

\* Memory beyond the end reads as zero.
Read(bytes, from, to) ==
  [i \in 1..(to - from + 1) |-> IF from + i - 1 \in DOMAIN bytes THEN bytes[from + i - 1] ELSE 0]

\* MultiSend reads operation, address, value, length and data, one after the other.
MultiSend[packed \in Seq(Bytes)] ==
  IF packed = <<>> THEN <<>>
  ELSE LET head == 2 + 2 * Word
           end == head + Integer(Read(packed, 3 + Word, head))
       IN  <<[to |-> Read(packed, 2, 2)[1], value |-> Integer(Read(packed, 3, 2 + Word)),
              data |-> Read(packed, head + 1, end)]>>
           \o MultiSend[SubSeq(packed, end + 1, Len(packed))]

\* The wallet recovers the owner from the hash of the fields it is given, and so
\* does the Safe factory, which takes 27 and 28 only.
Verified ==
  /\ request.signed = request.fields
  /\ CASE request.type = "SAFE"        -> request.v - 31 = request.parity
       [] request.type = "SAFE-CREATE" -> request.v - 27 = request.parity
       [] request.type = "PROXY"       -> /\ request.v \in {0, 1, 27, 28}
                                          /\ Parity(request.v) = request.parity

Calls ==
  LET f == request.fields
  IN  IF request.type = "PROXY" THEN f.calls
      ELSE IF request.type = "SAFE-CREATE" THEN <<>>
      ELSE IF f.operation = DelegateCall THEN MultiSend[f.data]
      ELSE <<[to |-> f.to, value |-> f.value, data |-> f.data]>>

WalletExecutes ==
  /\ pc = "submitted"
  /\ pc' = "done"
  /\ IF Verified
     THEN verdict' = "executed" /\ executed' = Calls
     ELSE verdict' = "rejected" /\ UNCHANGED executed
  /\ UNCHANGED <<chain, operation, txns, request>>

Execute ==
  \E batch \in Batches, nonce \in Nonces, v \in SignatureVs :
    \/ ExecuteSafe(batch, nonce, v)
    \/ \E estimate \in Estimates : ExecuteProxy(batch, nonce, estimate, v)

Next ==
  \/ Execute \/ (\E v \in SignatureVs : Deploy(v))
  \/ WalletExecutes

Spec == Init /\ [][Next]_vars

-----------------------------------------------------------------------------
(* Properties *)

\* The variables have their types.
TypeOK ==
  /\ chain \in Chains
  /\ pc \in {"idle", "submitted", "done"}
  /\ operation \in {"none", "SAFE", "PROXY", "SAFE-CREATE"}
  /\ txns \in Batches \cup {<<>>}
  /\ request.type \in {"none", "SAFE", "PROXY", "SAFE-CREATE"}
  /\ request.type = "PROXY" => request.fields.gasLimit \in Nat
  /\ request.type = "SAFE" => request.v \in {31, 32}
  /\ verdict \in {"none", "unsupported", "not built", "bad signature", "rejected", "executed"}

\* The transaction as its texts say it, of one whose address is an address.
Asked(txn) == [to |-> txn.to.bytes[1], value |-> Number(txn.value), data |-> DecodeHex(txn.data)]

Addressed(batch) == \A i \in DOMAIN batch : batch[i].to.form = "address"

InRange(batch) == \A i \in DOMAIN batch : Number(batch[i].value) \in 0..(Limit - 1)

(***************************************************************************)
(* What the wallet executes is the batch Execute was given: the same calls *)
(* in the same order, with their values and data, whatever mixture of      *)
(* lengths and paddings packs them.  Values are taken to fit 256 bits, and *)
(* the addresses to be addresses: of one that is not, a batch and a proxy  *)
(* transaction silently call what HexToAddress leaves of it.  A single     *)
(* Safe transaction is never executed with one.                            *)
(***************************************************************************)
ExecutedAsAsked ==
  verdict = "executed" =>
    /\ InRange(txns) /\ Addressed(txns) => executed = [i \in DOMAIN txns |-> Asked(txns[i])]
    /\ operation = "SAFE" /\ Len(txns) = 1 => Addressed(txns)

(***************************************************************************)
(* A well-formed batch is built, and a request that is built verifies      *)
(* against the fields it carries.  Excepted are a single Safe transaction  *)
(* with a value, which is signed and not sent, and a proxy request or a    *)
(* deployment with a recovery value no signature has, which only a Safe's  *)
(* Execute turns down.                                                     *)
(***************************************************************************)
WellFormed(batch) ==
  /\ Addressed(batch) /\ InRange(batch)
  /\ \A i \in DOMAIN batch : Readable(batch[i].value) /\ batch[i].data.form = "0x"

BuiltRequestsVerify ==
  /\ verdict = "not built" => ~WellFormed(txns)
  /\ verdict = "rejected" =>
       \/ request.type = "SAFE" /\ Len(txns) = 1 /\ Number(txns[1].value) # 0
       \/ request.type = "PROXY" /\ ~Splittable(request.v)
       \/ request.type = "SAFE-CREATE" /\ request.v \notin {27, 28}

(***************************************************************************)
(* The client can act for every wallet whose address it derives: no        *)
(* application is told an address, and sends funds to it, that Execute or  *)
(* Deploy then calls unsupported on the same chain.                        *)
(***************************************************************************)
DerivedWalletsAreUsable ==
  verdict = "unsupported" =>
    (IF operation = "PROXY" THEN DeriveProxyAddress ELSE DeriveSafeAddress) # "address"

=============================================================================
