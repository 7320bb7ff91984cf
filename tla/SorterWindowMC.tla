--------------------------- MODULE SorterWindowMC ----------------------------
(***************************************************************************)
(* SorterWindow with eight numbers on the wire and packets 0 .. MaxNumber, *)
(* so that the wire wraps within a run.                                    *)
(***************************************************************************)
EXTENDS SorterWindow

\* now_sn_ and increase_ are set by Init before any packet: one value of
\* the memory they start from is enough here.
MCInit == WInit /\ increase_ = 0 /\ now_sn_ = 0

BufferSymmetry == Permutations(Buffers)

MCSpec == MCInit /\ [][WNext]_windowVars
==============================================================================
