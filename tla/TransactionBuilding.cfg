CONSTANTS
  Chains = {"polygon", "amoy", "other"}
  Base = 4
  Word = 2
  Batches <- MCBatches
  SignatureVs = {0, 5, 28}
  Nonces = {5}
  Estimates <- MCEstimates
SPECIFICATION Spec
INVARIANTS
  TypeOK
  ExecutedAsAsked
  BuiltRequestsVerify
  DerivedWalletsAreUsable
CHECK_DEADLOCK FALSE
