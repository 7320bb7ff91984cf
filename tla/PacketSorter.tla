---------------------------- MODULE PacketSorter -----------------------------
(***************************************************************************)
(* PacketSorter (utils.h:43-94, utils.cpp:44-96): hands packets to its     *)
(* caller in the order of their sequence numbers and keeps the early ones. *)
(*                                                                         *)
(* The std::map data_ is the sequence of its nodes in tree order, because  *)
(* CmpLess is a strict order only where the subtraction of Less does not   *)
(* wrap.  A new key enters at a place where the comparisons its descent    *)
(* ends with agree; when Less is an order there is exactly one.            *)
(*                                                                         *)
(* The sorter does not copy packets, it keeps pointers and deletes some of *)
(* them.  heap and caller record who must free what: heap holds the        *)
(* buffers that are allocated, caller those the caller of the sorter still *)
(* owns.  The caller follows UploadSession::HandleSocket (session.cpp:     *)
(* 210-243): it allocates a buffer, offers it to Insert, keeps it when the *)
(* answer is kPacketNow or kPacketBehind and forgets it (line 237) when    *)
(* the answer is kPacketNext.                                              *)
(***************************************************************************)
EXTENDS SerialOrder, SequencesExt

CONSTANTS Buffers,     \* addresses of packet buffers
          Increases,   \* arguments of Init
          Skips        \* arguments of Skip

ASSUME SorterAssumption == /\ Increases \subseteq SN
                           /\ Skips \subseteq Nat

VARIABLES is_first_, increase_, now_sn_, data_, heap, caller

sorter == <<is_first_, increase_, now_sn_, data_>>
vars == <<is_first_, increase_, now_sn_, data_, heap, caller>>

Entry == [sn : SN, buf : Buffers]
Stored == {data_[i].buf : i \in DOMAIN data_}
Lost == heap \ (caller \cup Stored)

(***************************************************************************)
(* increase_ and now_sn_ have no initialiser: until Init is called they    *)
(* hold whatever the memory held.  UploadSession never calls Init.         *)
(***************************************************************************)
Init ==
  /\ is_first_ = TRUE
  /\ increase_ \in SN
  /\ now_sn_ \in SN
  /\ data_ = <<>>
  /\ heap = {}
  /\ caller = {}

----------------------------------------------------------------------------
\* A wrong Init: the map is not cleared.
SorterInitKeeps(increase) ==
  /\ is_first_' = TRUE
  /\ increase_' = increase
  /\ now_sn_' = 0
  /\ UNCHANGED <<data_, heap, caller>>

\* PacketSorter::Init
SorterInit(increase) ==
  /\ is_first_' = TRUE
  /\ increase_' = increase
  /\ now_sn_' = 0
  /\ data_' = <<>>
  /\ heap' = heap \ Stored
  /\ UNCHANGED caller

----------------------------------------------------------------------------
(***************************************************************************)
(* PacketSorter::Insert.  Its first two branches both leave now_sn_ at     *)
(* sn + increase_; only the second one clears is_first_.  The return after *)
(* the fourth test is unreachable (PacketSorterProofs!LessConnected).      *)
(***************************************************************************)
IsNow(sn) == sn = now_sn_ \/ is_first_
IsBehind(sn) == ~IsNow(sn) /\ Less(sn, now_sn_)
IsNext(sn) == ~IsNow(sn) /\ ~IsBehind(sn) /\ Less(now_sn_, sn)

\* A wrong first branch: is_first_ is never cleared.
InsertNowStaysFirst(sn, buf) ==
  /\ buf \in caller
  /\ IsNow(sn)
  /\ now_sn_' = Add(sn, increase_)
  /\ UNCHANGED <<is_first_, increase_, data_, heap, caller>>

\* returns kPacketNow
InsertNow(sn, buf) ==
  /\ buf \in caller
  /\ IsNow(sn)
  /\ now_sn_' = Add(sn, increase_)
  /\ is_first_' = (is_first_ /\ sn = now_sn_)
  /\ UNCHANGED <<increase_, data_, heap, caller>>

\* returns kPacketBehind
InsertBehind(sn, buf) ==
  /\ buf \in caller
  /\ IsBehind(sn)
  /\ UNCHANGED vars

\* A descent of the tree with key sn ends before the node at place i (after
\* the last node when i = Len(data_) + 1).
Place(sn, i) ==
  /\ i > 1 => ~Less(sn, data_[i - 1].sn)
  /\ i <= Len(data_) => Less(sn, data_[i].sn)

\* Wrong containers: a multimap takes a number twice; emplace refuses
\* every number that comes after one already there.
NeverTaken(sn, i) == FALSE

TakenTooEasily(sn, i) == i > 1

\* The key before that place is equivalent to sn: emplace inserts nothing.
Taken(sn, i) == i > 1 /\ ~Less(data_[i - 1].sn, sn)

\* returns kPacketNext; the caller gives the buffer up either way
InsertNext(sn, buf) ==
  /\ buf \in caller
  /\ IsNext(sn)
  /\ \E i \in 1 .. Len(data_) + 1 :
       /\ Place(sn, i)
       /\ data_' = IF Taken(sn, i) THEN data_
                   ELSE InsertAt(data_, i, [sn |-> sn, buf |-> buf])
  /\ caller' = caller \ {buf}
  /\ UNCHANGED <<is_first_, increase_, now_sn_, heap>>

----------------------------------------------------------------------------
\* PacketSorter::Get, when it returns a packet; a null answer changes nothing
Get ==
  /\ data_ # <<>>
  /\ Head(data_).sn = now_sn_
  /\ data_' = Tail(data_)
  /\ caller' = caller \cup {Head(data_).buf}
  /\ UNCHANGED <<is_first_, increase_, now_sn_, heap>>

----------------------------------------------------------------------------
\* Wrong loops of Skip: `if` instead of `while`; the packet at now_sn_ goes
\* too.
PurgesOnce(n, now) ==
  n = IF data_ # <<>> /\ Less(Head(data_).sn, now) THEN 1 ELSE 0

PurgesThrough(n, now) ==
  /\ \A i \in 1 .. n : ~Less(now, data_[i].sn)
  /\ n < Len(data_) => Less(now, data_[n + 1].sn)

\* The loop of Skip deletes exactly the first n nodes.
Purges(n, now) ==
  /\ \A i \in 1 .. n : Less(data_[i].sn, now)
  /\ n < Len(data_) => ~Less(data_[n + 1].sn, now)

\* A wrong Skip: the packets are deleted, their nodes stay.
SkipKeepsNodes(num) ==
  /\ now_sn_' = Add(now_sn_, num * increase_)
  /\ \E n \in 0 .. Len(data_) :
       /\ Purges(n, now_sn_')
       /\ heap' = heap \ {data_[i].buf : i \in 1 .. n}
  /\ UNCHANGED <<is_first_, increase_, data_, caller>>

\* PacketSorter::Skip
Skip(num) ==
  /\ now_sn_' = Add(now_sn_, num * increase_)
  /\ \E n \in 0 .. Len(data_) :
       /\ Purges(n, now_sn_')
       /\ data_' = SubSeq(data_, n + 1, Len(data_))
       /\ heap' = heap \ {data_[i].buf : i \in 1 .. n}
  /\ UNCHANGED <<is_first_, increase_, caller>>

----------------------------------------------------------------------------
\* new uint8_t[kBuffSize] (session.cpp:211) and delete (session.cpp:242)
NewBuffer(buf) ==
  /\ buf \notin heap
  /\ heap' = heap \cup {buf}
  /\ caller' = caller \cup {buf}
  /\ UNCHANGED sorter

DeleteBuffer(buf) ==
  /\ buf \in caller
  /\ heap' = heap \ {buf}
  /\ caller' = caller \ {buf}
  /\ UNCHANGED sorter

Next ==
  \/ \E increase \in Increases : SorterInit(increase)
  \/ \E sn \in SN, buf \in Buffers :
       \/ InsertNow(sn, buf)
       \/ InsertBehind(sn, buf)
       \/ InsertNext(sn, buf)
  \/ Get
  \/ \E num \in Skips : Skip(num)
  \/ \E buf \in Buffers : NewBuffer(buf) \/ DeleteBuffer(buf)

Spec == Init /\ [][Next]_vars

----------------------------------------------------------------------------
\* Every member has its type: the sorter keeps numbers of the right width.
TypeOK ==
  /\ is_first_ \in BOOLEAN
  /\ increase_ \in SN
  /\ now_sn_ \in SN
  /\ data_ \in Seq(Entry)
  /\ heap \subseteq Buffers
  /\ caller \subseteq Buffers

\* No use after free and no double delete: each waiting packet's buffer is
\* allocated, is held by one node only, and its caller no longer owns it.
Ownership ==
  /\ Stored \subseteq heap
  /\ caller \subseteq heap
  /\ Stored \cap caller = {}
  /\ \A i, j \in DOMAIN data_ : data_[i].buf = data_[j].buf => i = j

\* Before the first packet fixes the position nothing waits: no packet is
\* kept under numbers that the first packet would make meaningless.
FirstMeansEmpty == is_first_ => data_ = <<>>

\* The nodes are in strictly increasing order, so begin() is the earliest
\* packet and no number waits twice.  (Holds where Less is an order.)
Sorted ==
  \A i, j \in DOMAIN data_ : i < j => Less(data_[i].sn, data_[j].sn)

\* A buffer is abandoned by everyone only by an Insert, and only when a packet
\* of the inserted number waits already: emplace then drops the new node, the
\* caller has been told kPacketNext, and nobody keeps the pointer.
LostOnlyToDuplicate ==
  [][/\ Lost' # Lost => \E sn \in SN, buf \in Buffers : InsertNext(sn, buf)
     /\ \A sn \in SN, buf \in Buffers :
          InsertNext(sn, buf) /\ Lost' # Lost =>
            \E i \in DOMAIN data_ : data_[i].sn = sn]_vars

\* Skip leaves no packet behind now_sn_ in the map, so the packet Get looks
\* at is never an old one after a Skip.  (Holds where Less is an order.)
SkipPurges ==
  [][\A num \in Skips : Skip(num) =>
       \A i \in DOMAIN data_' : ~Less(data_'[i].sn, now_sn_')]_vars

\* Get's comment: it returns "Data or null if no packet aviliable"
\* (utils.h:65): when the packet numbered now_sn_ waits, Get finds it.
GetFindsWaiting ==
  (\E i \in DOMAIN data_ : data_[i].sn = now_sn_) =>
     Head(data_).sn = now_sn_
==============================================================================
