------------------------ MODULE MCTransactionBuilding ------------------------
(***************************************************************************)
(* Four values of a byte and words of two bytes: values below, at and      *)
(* above a byte's and a word's limit, negative ones, and data of every     *)
(* length up to three.  Batches of one and two transactions of any value   *)
(* and data, or of any address, and of three of some kinds.  An address is *)
(* one byte; a text that is none has more, fewer, or one before it fails.  *)
(***************************************************************************)
EXTENDS TransactionBuilding

MCValues ==
  [form : {"integer"}, number : {-1, 0, 4, 15, 16}]
    \cup [form : {"empty", "garbage"}, number : {0}]

MCData ==
  [form : {"0x"}, bytes : {<<>>, <<1>>, <<1, 0, 2>>}]
    \cup [form : {"bare"}, bytes : {<<2>>}]
    \cup [form : {"empty", "garbage"}, bytes : {<<>>}]

Address(byte) == [form |-> "address", bytes |-> <<byte>>]

MCAddresses ==
  {Address(1), Address(3), [form |-> "hex", bytes |-> <<1, 2>>],
   [form |-> "garbage", bytes |-> <<>>], [form |-> "garbage", bytes |-> <<3>>]}

MCTransactions == [to : {Address(1)}, value : MCValues, data : MCData]

AnyAddress ==
  [to : MCAddresses, value : [form : {"integer"}, number : {0, 6}],
   data : [form : {"0x"}, bytes : {<<>>, <<0, 3>>}]]

Few ==
  [to : {Address(1), Address(3)}, value : [form : {"integer"}, number : {0, 6}],
   data : [form : {"0x"}, bytes : {<<>>, <<0, 3>>}]]

MCEstimates == {NoEstimate, 0, 7}

MCBatches ==
  TupleOf(MCTransactions \cup AnyAddress, 1)
    \cup TupleOf(MCTransactions, 2) \cup TupleOf(AnyAddress, 2) \cup TupleOf(Few, 3)

=============================================================================
