------------------------------ MODULE SessionMC -------------------------------
(***************************************************************************)
(* Session with two stations that send in opposite directions and a third  *)
(* of the second's identity, numbers that wrap around within a run, and a  *)
(* sorter that starts with an increase_ and a position of the memory.      *)
(***************************************************************************)
EXTENDS Session, TLC

MCStations == {[ueid |-> 1, forward |-> "To4G"], [ueid |-> 2, forward |-> "From4G"],
               [ueid |-> 2, forward |-> "To4G"]}

BufferSymmetry == Permutations(Buffers)

\* Of the memory's values: 0, a number on the wire, one between two of them.
MCInit == Init /\ increase_ \in {0, 1} /\ now_sn_ \in {0, 2, 5}

MCSpec == MCInit /\ [][Next]_vars
===============================================================================
