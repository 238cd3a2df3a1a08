------------------------------ MODULE MCLogger ------------------------------
(***************************************************************************)
(* Three goroutines, two standard loggers and a NoOpLogger: enough for a   *)
(* goroutine that has taken one logger while the others change its level,  *)
(* replace it and put it back.                                             *)
(***************************************************************************)
EXTENDS Logger, TLC

CONSTANTS g1, g2, g3, l1, l2, noop

MCGoroutines == {g1, g2, g3}
MCLoggers == {l1, l2}

MCSymmetry == Permutations(MCGoroutines) \cup Permutations(MCLoggers)

=============================================================================
