---------------------------- MODULE SorterWindow -----------------------------
(***************************************************************************)
(* PacketSorter in use: a sender numbers its packets 0, 1, 2, ... and the  *)
(* wire carries n * increase modulo the width (HandleSocket passes sc<<8,  *)
(* session.cpp:224); packets arrive in any order, some twice, some never.  *)
(* The numbers on the wire wrap around many times in a long call.          *)
(*                                                                         *)
(* Every call of the sorter is the action of PacketSorter.  The variables  *)
(* added here are history: they say which packet each number on the wire   *)
(* stood for.  The assumptions on the caller are guards, each one named:   *)
(*   InWindow     the packets alive are less than half the space apart;    *)
(*   NotZeroFirst the first packet after Init does not carry now_sn_, for  *)
(*                then Insert leaves is_first_ set (utils.cpp:55-58);      *)
(*   owesSkip     a packet got by Get is followed by Skip(), because Get   *)
(*                does not advance now_sn_ (utils.cpp:74-83).              *)
(***************************************************************************)
EXTENDS PacketSorter

CONSTANTS MaxNumber,   \* bound: packets of a call
          MaxResets    \* bound: calls of Init

ASSUME WindowAssumption == MaxNumber \in Nat /\ MaxResets \in Nat

VARIABLES position,   \* the packet whose turn it is
          number,     \* the packet each stored buffer holds
          handed,     \* the packet handed over last since the last Init
          owesSkip,   \* Get returned a packet and Skip has not followed
          resets      \* calls of Init so far

history == <<position, number, handed, owesSkip, resets>>
windowVars == <<vars, history>>

Number == 0 .. MaxNumber
None == -1
Wire(n) == (n * increase_) % Space
Waiting == {number[b] : b \in Stored}
Abs(d) == IF d < 0 THEN -d ELSE d

InWindow(n) ==
  \A m, l \in Waiting \cup {position, position + 1, n} :
     Abs(m - l) * increase_ < Half

NotZeroFirst(n) == is_first_ => Wire(n) # now_sn_

WInit ==
  /\ Init
  /\ position = 0
  /\ number = [b \in Buffers |-> None]
  /\ handed = None
  /\ owesSkip = FALSE
  /\ resets = 0

\* PacketSorter::Init comes first and may come again.
WReset ==
  /\ resets < MaxResets
  /\ \E increase \in Increases : SorterInit(increase)
  /\ position' = 0
  /\ number' = [b \in Buffers |-> None]
  /\ handed' = None
  /\ owesSkip' = FALSE
  /\ resets' = resets + 1

\* Insert answers kPacketNow: the caller has packet n.
WInsertNow(n) ==
  /\ \E buf \in Buffers : InsertNow(Wire(n), buf)
  /\ position' = IF is_first_ THEN n + 1 ELSE position + 1
  /\ handed' = n
  /\ UNCHANGED <<number, owesSkip, resets>>

\* Insert answers kPacketNext: buf, which holds n, waits (or is lost).
WInsertNext(n) ==
  /\ \E buf \in Buffers :
       /\ InsertNext(Wire(n), buf)
       /\ number' = [number EXCEPT ![buf] = n]
  /\ UNCHANGED <<position, handed, owesSkip, resets>>

WInsertBehind(n) ==
  /\ \E buf \in Buffers : InsertBehind(Wire(n), buf)
  /\ UNCHANGED history

WInsert(n) ==
  /\ resets > 0
  /\ ~owesSkip
  /\ is_first_ \/ InWindow(n)
  /\ NotZeroFirst(n)
  /\ WInsertNow(n) \/ WInsertNext(n) \/ WInsertBehind(n)

WGet ==
  /\ ~owesSkip
  /\ Get
  /\ handed' = number[Head(data_).buf]
  /\ owesSkip' = TRUE
  /\ UNCHANGED <<position, number, resets>>

\* Skip() after Get, or to give a missing packet up.
WSkip ==
  /\ ~is_first_
  /\ \E num \in Skips :
       /\ owesSkip => num = 1
       /\ \A m \in Waiting \cup {position} :
            Abs(position + num - m) * increase_ < Half
       /\ position + num <= MaxNumber
       /\ Skip(num)
       /\ position' = position + num
  /\ owesSkip' = FALSE
  /\ UNCHANGED <<number, handed, resets>>

WBuffers ==
  /\ \E buf \in Buffers : NewBuffer(buf) \/ DeleteBuffer(buf)
  /\ UNCHANGED history

WNext == \/ WReset
         \/ \E n \in Number : WInsert(n)
         \/ WGet
         \/ WSkip
         \/ WBuffers

WSpec == WInit /\ [][WNext]_windowVars

----------------------------------------------------------------------------
Ideal == INSTANCE IdealSorter
           WITH Numbers <- Number, started <- ~is_first_, waiting <- Waiting

\* With the subtraction of Less wrapping, the sorter implements the ideal
\* one across every wrap-around of the numbers, for a caller that keeps to
\* the window: packets are handed over in their turn, those that wait come
\* later, and a skip drops exactly the waiting ones it passes.
ImplementsIdeal == Ideal!Spec

\* Insert's answer about any packet in the window is right although it only
\* sees the number modulo the width: kPacketBehind says its turn is past,
\* kPacketNext that it is to come (utils.cpp:64-70).
AnswersTruly ==
  \A n \in Number :
    ~is_first_ /\ InWindow(n) =>
       /\ IsBehind(Wire(n)) <=> n < position
       /\ IsNext(Wire(n)) <=> n > position

\* Every packet is handed over at most once and in the sender's order, with
\* duplicates, losses and reordering on the way.
HandedInOrder ==
  [][(\E n \in Number : WInsert(n) /\ WInsertNow(n)) \/ WGet =>
       handed' > handed]_windowVars
==============================================================================
