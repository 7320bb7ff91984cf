------------------------------- MODULE Session --------------------------------
(***************************************************************************)
(* An UploadSession driven by events: UploadSession::HandleSocket          *)
(* (session.cpp:210-243) with what it calls.  Stations number their        *)
(* packets with SC::Send; UnPak (session.cpp:84-100) reads them with       *)
(* sc_recv_ and, on the first datagram, sets sc_send_ up to speak for the  *)
(* same UE; the number that comes out of UnPak is offered to the           *)
(* PacketSorter; what the sorter hands back is coded and sent on, numbered *)
(* by sc_send_.  Every call of the sorter is the action of PacketSorter,   *)
(* every use of an SC object the operator of SC.                           *)
(*                                                                         *)
(* The network between is UDP: datagrams are lost, repeated and reordered, *)
(* and others than SC packets may arrive at the port.                      *)
(***************************************************************************)
EXTENDS SC, FiniteSets, Sequences

CONSTANTS Half, OverflowWraps,   \* the sorter's numbers: SerialOrder
          Buffers,     \* addresses of packet buffers
          Stations,    \* senders: records of a UE identity and a direction
          MaxSends,    \* bound: packets of one station
          MaxMade,     \* bound: headers sc_send_ makes
          MaxHanded    \* bound: handed counts up to here

VARIABLES
  station,      \* [Stations -> SC object]
  net,          \* headers on the wire; they stay, so may arrive again
  sends,        \* [Stations -> packets sent]
  first_pack_, sc_recv_, sc_send_,                          \* UploadSession
  is_first_, increase_, now_sn_, data_, heap, caller,       \* its sorter_
  pc,           \* the step of HandleSocket that comes next
  sc,           \* HandleSocket's local: the number UnPak gave
  first,        \* history: the first datagram, or NoPacket
  accepted,     \* history: directions of the packets accepted so far
  refused,      \* history: UnPak refused a datagram
  handed,       \* history: packets Insert said to be the next, up to MaxHanded
  made,         \* history: headers sc_send_ has made
  relayed       \* history: those in packets given to Send, and which they were

Sorter == INSTANCE PacketSorter WITH Increases <- {}, Skips <- {1}

ASSUME SessionAssumption ==
  /\ Stations \subseteq [ueid : Ueids, forward : Forward]
  /\ Half \in Nat \ {0} /\ (2 * Half) % SnSpace = 0
  /\ OverflowWraps \in BOOLEAN
  /\ {MaxSends, MaxMade, MaxHanded} \subseteq Nat

wire == <<station, net, sends>>
position == <<is_first_, increase_, now_sn_, data_>>
sorter == <<position, heap, caller>>
session == <<first_pack_, sc_recv_, sc_send_>>
history == <<first, accepted, refused, handed, made, relayed>>
vars == <<wire, session, sorter, pc, sc, history>>

NoPacket == [shape |-> "none", header |-> ZeroHeader]

\* sc << 8 in 32 bits: the number's 24 bits fill the upper part of the space.
Wire(n) == n * ((2 * Half) \div SnSpace)

(***************************************************************************)
(* UploadSession::Init runs sc_recv_.Init(ueid).  sc_send_ is not set up;  *)
(* what the memory holds is not looked at before the first UnPak.  Nor is  *)
(* sorter_: its increase_ and now_sn_ stay whatever the memory held.       *)
(***************************************************************************)
Init ==
  /\ station = [s \in Stations |-> Fresh(s.ueid, s.forward, 0)]
  /\ net = {}
  /\ sends = [s \in Stations |-> 0]
  /\ first_pack_ = TRUE
  /\ sc_recv_ = Fresh(0, "To4G", 0)
  /\ sc_send_ = Fresh(0, "To4G", 0)
  /\ Sorter!Init
  /\ pc = "receive"
  /\ sc = 0
  /\ first = NoPacket
  /\ accepted = {}
  /\ refused = FALSE
  /\ handed = 0
  /\ made = 0
  /\ relayed = <<>>

StationSends(s) ==
  /\ sends[s] < MaxSends
  /\ station' = [station EXCEPT ![s] = AfterSend(station[s])]
  /\ net' = net \cup {station'[s].send_header_}
  /\ sends' = [sends EXCEPT ![s] = @ + 1]
  /\ UNCHANGED <<session, sorter, pc, sc, history>>

----------------------------------------------------------------------------
(***************************************************************************)
(* HandleSocket.                                                           *)
(***************************************************************************)
\* A wrong UnPak: sc_send_ is set up again by every datagram.
UnPakRestarts(d) ==
  /\ sc_recv_' = AfterRecv(sc_recv_, d)
  /\ sc' = RecvOutput(sc_recv_, d, 0)
  /\ sc_send_' = Fresh(GetUEID(sc_recv_'), "To4G", GetSn(sc_recv_'))
  /\ first_pack_' = FALSE

\* UnPak.  The caller passes a fresh sc = 0 (line 218).  The first datagram
\* sets sc_send_ up whether or not Recv accepted it.
UnPak(d) ==
  /\ sc_recv_' = AfterRecv(sc_recv_, d)
  /\ sc' = RecvOutput(sc_recv_, d, 0)
  /\ sc_send_' = IF first_pack_
                 THEN Fresh(GetUEID(sc_recv_'), "To4G", GetSn(sc_recv_'))
                 ELSE sc_send_
  /\ first_pack_' = FALSE

\* A fresh buffer, a datagram in it, and its headers taken off.
Receive(buf, d) ==
  /\ pc = "receive"
  /\ Sorter!NewBuffer(buf)
  /\ UnPak(d)
  /\ first' = IF first_pack_ THEN d ELSE first
  /\ IF Rejects(sc_recv_, d)
     THEN pc' = "skip" /\ refused' = TRUE /\ UNCHANGED accepted
     ELSE pc' = "insert" /\ accepted' = accepted \cup {d.header.forward}
                         /\ UNCHANGED refused
  /\ UNCHANGED <<wire, handed, made, relayed>>

\* An SC packet, or a datagram that is none or was cut short.
Datagrams == [shape : {"whole"}, header : net]
               \cup [shape : Shapes \ {"whole"}, header : {ZeroHeader}]

\* RecvFrom fails: the buffer is allocated, and line 216 forgets it.
ReceiveFails(buf) ==
  /\ pc = "receive"
  /\ buf \notin heap
  /\ heap' = heap \cup {buf}
  /\ UNCHANGED <<wire, session, position, caller, pc, sc, history>>

(***************************************************************************)
(* CodecAndPak and SendWhitePak are declared and never defined.  What Send *)
(* (session.cpp:104-164) does is taken for each: its packet begins with    *)
(* the next header of sc_send_, made when nothing can fail any more; or it *)
(* fails, or if_send_sc is off, and sc_send_ is not used.                  *)
(***************************************************************************)
MakeHeader ==
  /\ made < MaxMade
  /\ sc_send_' = AfterSend(sc_send_)
  /\ made' = made + 1

MakeNone == UNCHANGED <<sc_send_, made>>

\* SendWhitePak, whose answer is not looked at and whose packet is not sent.
SkipOne ==
  /\ pc = "skip"
  /\ MakeHeader \/ MakeNone
  /\ Sorter!Skip(1)
  /\ pc' = "delete"
  /\ UNCHANGED <<wire, first_pack_, sc_recv_, sc, first, accepted, refused,
                 handed, relayed>>

\* kPacketNow: CodecAndPak, or SendWhitePak when that fails, makes the packet
\* that is sent; or both fail, and Send refuses the negative length.
HandOn ==
  \/ /\ MakeHeader
     /\ relayed' = Append(relayed, [header |-> sc_send_'.send_header_, nth |-> made'])
  \/ MakeNone /\ UNCHANGED relayed

InsertNow(buf) ==
  /\ pc = "insert"
  /\ Sorter!InsertNow(Wire(sc), buf)
  /\ HandOn
  /\ handed' = IF handed < MaxHanded THEN handed + 1 ELSE handed
  /\ pc' = "delete"
  /\ UNCHANGED <<wire, first_pack_, sc_recv_, sc, first, accepted, refused>>

InsertBehind(buf) ==
  /\ pc = "insert"
  /\ Sorter!InsertBehind(Wire(sc), buf)
  /\ pc' = "delete"
  /\ UNCHANGED <<wire, session, sc, history>>

\* kPacketNext: input_data = nullptr, and there is nothing left to delete.
InsertNext(buf) ==
  /\ pc = "insert"
  /\ Sorter!InsertNext(Wire(sc), buf)
  /\ pc' = "receive"
  /\ UNCHANGED <<wire, session, sc, history>>

\* A wrong end: the buffer is forgotten.
DeleteForgets(buf) ==
  /\ pc = "delete"
  /\ buf \in caller
  /\ caller' = caller \ {buf}
  /\ pc' = "receive"
  /\ UNCHANGED <<wire, session, position, heap, sc, history>>

Delete(buf) ==
  /\ pc = "delete"
  /\ Sorter!DeleteBuffer(buf)
  /\ pc' = "receive"
  /\ UNCHANGED <<wire, session, sc, history>>

HandleSocket ==
  \/ \E buf \in Buffers :
       \/ \E d \in Datagrams : Receive(buf, d)
       \/ ReceiveFails(buf)
       \/ InsertNow(buf) \/ InsertBehind(buf) \/ InsertNext(buf)
       \/ Delete(buf)
  \/ SkipOne

Next == HandleSocket \/ \E s \in Stations : StationSends(s)

Spec == Init /\ [][Next]_vars

----------------------------------------------------------------------------
\* Every variable has its type; sequence numbers stay within 24 bits.
TypeOK ==
  /\ \A s \in Stations : station[s].send_header_ \in Header
  /\ net \subseteq Header
  /\ first_pack_ \in BOOLEAN
  /\ sc_recv_.recv_header_ \in Header /\ sc_recv_.first_pack_ \in BOOLEAN
  /\ sc_send_.send_header_ \in Header
  /\ Sorter!TypeOK
  /\ pc \in {"receive", "skip", "insert", "delete"}
  /\ sc \in 0 .. SnSpace - 1
  /\ made \in 0 .. MaxMade
  /\ \A i \in 1 .. Len(relayed) : relayed[i] \in [header : Header, nth : Nat]

\* Whatever arrives, in whatever order, the session takes packets of one
\* direction only, that of the first it accepted (sc.cpp:55-65).
OneDirection == Cardinality(accepted) <= 1

\* A call whose first datagram is an SC packet is relayed under the identity
\* in that packet, numbered on from it without repetition, whatever else
\* arrives; and without a gap as long as UnPak refuses nothing, for the packet
\* SendWhitePak makes then is never sent (session.cpp:88-92, 221, 230).
SpeaksForFirst ==
  first.shape = "whole" =>
    \A i \in 1 .. Len(relayed) :
      /\ relayed[i].header = [ueid |-> first.header.ueid, forward |-> "To4G",
                              sn |-> (first.header.sn + relayed[i].nth) % SnSpace]
      /\ i > 1 => relayed[i - 1].nth < relayed[i].nth
      /\ ~refused => relayed[i].nth = i

\* Recv's comment: its third parameter is "output, sequence number" (sc.h:87).
\* A packet UnPak takes after the first is offered to the sorter under its own
\* number.
RecvGivesNumber ==
  [][\A buf \in Buffers, d \in Datagrams :
       Receive(buf, d) /\ ~Rejects(sc_recv_, d) /\ ~sc_recv_.first_pack_ =>
         sc' = d.header.sn]_vars

\* What that costs: Recv gives the number of the first packet for ever
\* (sc.cpp:67), so a call of any length comes to rest.  Of all its packets the
\* sorter hands on three at most, unless a refused datagram moved its position
\* or increase_ happens to be 0 (session.cpp:219-224).
FallsSilent == increase_ # 0 /\ ~refused => handed <= 3

\* HandleSocket leaves a buffer without an owner in two places only: after a
\* receive error (session.cpp:216), and when Insert keeps nothing because a
\* packet of that number waits already (line 237).
AbandonsInTwoPlaces ==
  [][Sorter!Lost' # Sorter!Lost =>
       \/ pc = "receive" /\ UNCHANGED <<pc, first_pack_, caller>>
       \/ /\ pc = "insert" /\ \E i \in DOMAIN data_ : data_[i].sn = Wire(sc)
          /\ UNCHANGED <<data_, now_sn_>>]_vars
===============================================================================
