--------------------------- MODULE MCEventHandler ---------------------------
(***************************************************************************)
(* EventHandler for TLC.                                                   *)
(***************************************************************************)
EXTENDS EventHandler, TLC

HandlerSymmetry == Permutations(Handlers)
=============================================================================
