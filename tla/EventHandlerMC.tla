--------------------------- MODULE EventHandlerMC ----------------------------
(***************************************************************************)
(* EventHandler with a few descriptors and points in time.                 *)
(***************************************************************************)
EXTENDS EventHandler

FdSymmetry == Permutations(Fds)
==============================================================================
