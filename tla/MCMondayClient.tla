--------------------------- MODULE MCMondayClient ---------------------------
(***************************************************************************)
(* MondayClient with one call, since calls share nothing, as many retries   *)
(* as can be configured, and a server that asks for nothing, for a second,  *)
(* for more than the cap, and for so much that the duration wraps to a      *)
(* negative number and to zero.                                             *)
(***************************************************************************)
EXTENDS MondayClient

CONSTANT c1

MCHints == {0, 1, 60, 200, 256}
=============================================================================
