--------------------------- MODULE MCBuilderAuth ---------------------------
(***************************************************************************)
(* A second is 10 milliseconds and milliseconds begin at 100, so that 5    *)
(* and 0 stand for seconds before 2001 and 10, 99, 100 and 103 for the     *)
(* bounds of seconds and milliseconds.                                     *)
(***************************************************************************)
EXTENDS BuilderAuth

MCTimestamps == {-2, 0, 5, 9, 10, 99, 100, 103}

=============================================================================
