----------------------------- MODULE MCEndToEnd -----------------------------
(***************************************************************************)
(* Two runs of the program: the second meets whatever the first has left   *)
(* on the wire and at the relayer.                                         *)
(***************************************************************************)
EXTENDS EndToEnd

MCCallers == (1..2) \X {"deploy", "execute"}

=============================================================================
