------------------------------ MODULE SorterMC -------------------------------
(***************************************************************************)
(* PacketSorter on a small instance: eight sequence numbers and three      *)
(* buffers, every call in every order.                                     *)
(***************************************************************************)
EXTENDS PacketSorter

BufferSymmetry == Permutations(Buffers)
==============================================================================
