---------------------------- MODULE IdealSorter ------------------------------
(***************************************************************************)
(* What PacketSorter promises, in terms of packets numbered 0, 1, 2, ...   *)
(* without end: the first packet fixes the position; afterwards the packet *)
(* at the position is handed over, earlier ones are refused and later ones *)
(* wait until the position reaches them or skips them.  A number that      *)
(* waits is never handed over out of its turn, whatever the width of the   *)
(* sequence numbers on the wire.                                           *)
(***************************************************************************)
EXTENDS Integers

CONSTANTS Numbers,   \* packet numbers
          Skips      \* how many packets may be skipped at once

VARIABLES started,    \* the first packet has fixed the position
          position,   \* the number whose turn it is
          waiting,    \* the numbers that wait
          handed      \* the number handed over last, -1 when none was

vars == <<started, position, waiting, handed>>

Init == /\ started = FALSE
        /\ position = 0
        /\ waiting = {}
        /\ handed = -1

Reset == /\ started' = FALSE
         /\ position' = 0
         /\ waiting' = {}
         /\ handed' = -1

First(n) == /\ ~started
            /\ started' = TRUE
            /\ position' = n + 1
            /\ handed' = n
            /\ UNCHANGED waiting

\* The packet whose turn it is arrives; a copy of it may still wait.
Arrive(n) == /\ started
             /\ n = position
             /\ position' = n + 1
             /\ handed' = n
             /\ UNCHANGED <<started, waiting>>

Wait(n) == /\ started
           /\ n > position
           /\ waiting' = waiting \cup {n}
           /\ UNCHANGED <<started, position, handed>>

\* The waiting packet whose turn it is is taken; the position stays.
Take == /\ position \in waiting
        /\ waiting' = waiting \ {position}
        /\ handed' = position
        /\ UNCHANGED <<started, position>>

Advance(k) == /\ started
              /\ position' = position + k
              /\ waiting' = {n \in waiting : n >= position'}
              /\ UNCHANGED <<started, handed>>

Next == \/ Reset
        \/ \E n \in Numbers : First(n) \/ Arrive(n) \/ Wait(n)
        \/ Take
        \/ \E k \in Skips : Advance(k)

Spec == Init /\ [][Next]_vars
==============================================================================
