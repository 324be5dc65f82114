--------------------------- MODULE MCFastSession ---------------------------
(* Instances of the fast write path for TLC. *)
EXTENDS FastSession

CONSTANTS b0, b1
=============================================================================
