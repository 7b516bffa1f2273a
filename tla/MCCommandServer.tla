--------------------------- MODULE MCCommandServer ---------------------------
(* Bounds: one known request, one unknown text and the empty line; four lines  *)
(* let stdio buffer several of them while others still wait in the pipe.       *)
EXTENDS CommandServer
=============================================================================
