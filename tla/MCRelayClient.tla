--------------------------- MODULE MCRelayClient ---------------------------
(***************************************************************************)
(* Two goroutines of one signer, one retry: enough for a duplicate         *)
(* submission that arrives late and races with the other goroutine's       *)
(* operation.  Two batches: the goroutines ask for the same or for         *)
(* different ones, so that with equal nonces their requests are identical  *)
(* or not.                                                                 *)
(***************************************************************************)
EXTENDS RelayClient, TLC

CONSTANTS g1, g2, b1, b2

MCCallers == {g1, g2}
MCBatches == {b1, b2}

MCSymmetry == Permutations(MCCallers) \cup Permutations(MCBatches)

=============================================================================
