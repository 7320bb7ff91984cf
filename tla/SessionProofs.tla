---------------------------- MODULE SessionProofs -----------------------------
(***************************************************************************)
(* Session for any number of stations, buffers and sequence numbers.  Its  *)
(* steps are steps of PacketSorter, so that what is proved of the sorter   *)
(* is cited here and not proved again.                                     *)
(***************************************************************************)
EXTENDS Session, FiniteSetTheorems, SequenceTheorems, TLAPS

SorterP == INSTANCE PacketSorterProofs WITH Increases <- {}, Skips <- {1}

\* The assumptions of the sorter's proofs hold for the session's sorter.
LEMMA SorterAssumptions == SorterP!SerialAssumption /\ SorterP!SorterAssumption
  BY SessionAssumption
     DEF SorterP!SerialAssumption, SorterP!SorterAssumption, SorterP!SN, SorterP!Space

----------------------------------------------------------------------------
(***************************************************************************)
(* Types.                                                                  *)
(***************************************************************************)
ScObject == [send_header_ : Header, recv_header_ : Header, first_pack_ : BOOLEAN]

Types ==
  /\ station \in [Stations -> ScObject]
  /\ net \subseteq Header
  /\ first_pack_ \in BOOLEAN
  /\ sc_recv_ \in ScObject
  /\ sc_send_ \in ScObject
  /\ pc \in {"receive", "skip", "insert", "delete"}
  /\ sc \in 0 .. SnSpace - 1
  /\ accepted \subseteq Forward
  /\ refused \in BOOLEAN
  /\ handed \in 0 .. MaxHanded
  /\ made \in 0 .. MaxMade
  /\ relayed \in Seq([header : Header, nth : Nat])

\* What SC's operations return.
LEMMA FreshType ==
  ASSUME NEW ueid \in Ueids \cup {0}, NEW forward \in Forward, NEW sn \in Nat
  PROVE  Fresh(ueid, forward, sn) \in ScObject
  <1>1. sn % SnSpace \in 0 .. SnSpace - 1 /\ 0 \in 0 .. SnSpace - 1
    BY ScAssumption
  <1> QED  BY <1>1 DEF Fresh, ScObject, Header, ZeroHeader, Forward

LEMMA AfterSendType ==
  ASSUME NEW o \in ScObject
  PROVE  /\ AfterSend(o) \in ScObject
         /\ AfterSend(o).send_header_ =
              [o.send_header_ EXCEPT !.sn = (o.send_header_.sn + 1) % SnSpace]
  <1>1. (o.send_header_.sn + 1) % SnSpace \in 0 .. SnSpace - 1
    BY ScAssumption DEF ScObject, Header
  <1> QED  BY <1>1 DEF AfterSend, ScObject, Header

LEMMA AfterRecvType ==
  ASSUME NEW o \in ScObject, NEW d \in Datagram
  PROVE  /\ AfterRecv(o, d) \in ScObject
         /\ RecvOutput(o, d, 0) \in 0 .. SnSpace - 1
  <1>1. 0 \in 0 .. SnSpace - 1
    BY ScAssumption
  <1> QED  BY <1>1 DEF AfterRecv, RecvOutput, ScObject, Header, Datagram

LEMMA DatagramsType == Types => Datagrams \subseteq Datagram
  <1>1. ZeroHeader \in Header
    BY ScAssumption DEF ZeroHeader, Header, Forward
  <1> QED  BY <1>1 DEF Types, Datagrams, Datagram, Shapes

\* A number shifted into 32 bits is one of the sorter's.
LEMMA WireType ==
  ASSUME NEW n \in 0 .. SnSpace - 1
  PROVE  Wire(n) \in SorterP!SN
  <1> DEFINE q == (2 * Half) \div SnSpace
  <1>1. /\ SnSpace \in Nat \ {0} /\ Half \in Nat \ {0}
        /\ 2 * Half \in Nat \ {0} /\ (2 * Half) % SnSpace = 0
    BY ScAssumption, SessionAssumption
  <1>2. q \in Nat /\ 2 * Half = SnSpace * q
    BY <1>1, Z3
  <1>3. q # 0
    BY <1>1, <1>2
  <1>4. n * q \in Nat /\ n * q <= (SnSpace - 1) * q
    <2>1. n \in Nat /\ n <= SnSpace - 1 /\ SnSpace - 1 \in Nat
      BY <1>1
    <2> HIDE DEF q
    <2> QED  BY <2>1, <1>2, Z3
  <1>5. (SnSpace - 1) * q < 2 * Half
    <2> HIDE DEF q
    <2>1. (SnSpace - 1) * q = SnSpace * q - q
      BY <1>1, <1>2, Z3
    <2> QED  BY <2>1, <1>1, <1>2, <1>3
  <1> QED  BY <1>1, <1>4, <1>5 DEF Wire, SorterP!SN, SorterP!Space

LEMMA InitTypes == Init => Types
  <1> SUFFICES ASSUME Init PROVE Types
    OBVIOUS
  <1>1. 0 \in Ueids \cup {0} /\ "To4G" \in Forward /\ 0 \in Nat
    BY DEF Forward
  <1>2. Fresh(0, "To4G", 0) \in ScObject
    BY <1>1, FreshType
  <1>3. \A s \in Stations : Fresh(s.ueid, s.forward, 0) \in ScObject
    BY FreshType, SessionAssumption
  <1>4. station \in [Stations -> ScObject]
    BY <1>3 DEF Init
  <1>5. sc \in 0 .. SnSpace - 1 /\ handed \in 0 .. MaxHanded /\ made \in 0 .. MaxMade
    BY ScAssumption, SessionAssumption DEF Init
  <1>6. relayed \in Seq([header : Header, nth : Nat]) /\ net \subseteq Header /\ accepted \subseteq Forward
    BY DEF Init
  <1> QED
    BY <1>2, <1>4, <1>5, <1>6 DEF Init, Types

\* UnPak leaves objects of the right type.
LEMMA UnPakTypes ==
  ASSUME Types, NEW d \in Datagrams, UnPak(d)
  PROVE  /\ sc_recv_' \in ScObject
         /\ sc_send_' \in ScObject
         /\ sc' \in 0 .. SnSpace - 1
         /\ first_pack_' = FALSE
         /\ d \in Datagram
  <1>1. d \in Datagram
    BY DatagramsType
  <1>2. sc_recv_' \in ScObject /\ sc' \in 0 .. SnSpace - 1
    BY <1>1, AfterRecvType DEF UnPak, Types
  <1>3. /\ GetUEID(sc_recv_') \in Ueids \cup {0}
        /\ GetSn(sc_recv_') \in Nat
    BY <1>2, ScAssumption DEF GetUEID, GetSn, ScObject, Header
  <1>4. Fresh(GetUEID(sc_recv_'), "To4G", GetSn(sc_recv_')) \in ScObject
    BY <1>3, FreshType DEF Forward
  <1> QED  BY <1>1, <1>2, <1>4 DEF UnPak, Types

\* A header made is a header, and one more.
LEMMA MakeHeaderTypes ==
  ASSUME Types, MakeHeader
  PROVE  /\ sc_send_' \in ScObject
         /\ sc_send_'.send_header_ \in Header
         /\ made' \in 0 .. MaxMade
         /\ made' = made + 1
  <1>1. sc_send_' \in ScObject
    BY AfterSendType DEF MakeHeader, Types
  <1>2. made' \in 0 .. MaxMade
    BY SessionAssumption DEF MakeHeader, Types
  <1> QED  BY <1>1, <1>2 DEF MakeHeader, ScObject

\* HandOn sends one packet on, or none.
LEMMA HandOnTypes ==
  ASSUME Types, HandOn
  PROVE  /\ sc_send_' \in ScObject
         /\ made' \in 0 .. MaxMade
         /\ relayed' \in Seq([header : Header, nth : Nat])
  <1>1. CASE MakeNone /\ UNCHANGED relayed
    BY <1>1 DEF Types, MakeNone
  <1>2. CASE /\ MakeHeader
             /\ relayed' = Append(relayed, [header |-> sc_send_'.send_header_,
                                           nth |-> made'])
    <2>1. [header |-> sc_send_'.send_header_, nth |-> made'] \in [header : Header, nth : Nat]
      BY <1>2, MakeHeaderTypes, SessionAssumption
    <2> QED  BY <1>2, <2>1, MakeHeaderTypes, AppendProperties DEF Types
  <1> QED  BY <1>1, <1>2 DEF HandOn

LEMMA NextTypes ==
  ASSUME Types, [Next]_vars
  PROVE  Types'
  <1>1. ASSUME NEW s \in Stations, StationSends(s) PROVE Types'
    <2>1. station[s] \in ScObject
      BY DEF Types
    <2>2. AfterSend(station[s]) \in ScObject
      BY <2>1, AfterSendType
    <2>3. /\ station' \in [Stations -> ScObject]
          /\ station'[s] = AfterSend(station[s])
      BY <1>1, <2>2 DEF StationSends, Types
    <2>4. net' \subseteq Header
      BY <1>1, <2>2, <2>3 DEF StationSends, Types, ScObject
    <2> QED
      BY <1>1, <2>3, <2>4 DEF StationSends, Types, session, history
  <1>2. ASSUME NEW buf \in Buffers, NEW d \in Datagrams, Receive(buf, d)
        PROVE  Types'
    <2>1. UnPak(d)
      BY <1>2 DEF Receive
    <2>2. accepted' \subseteq Forward
      <3>1. d.header.forward \in Forward
        BY DatagramsType DEF Datagram, Header
      <3>2. accepted' \in {accepted, accepted \cup {d.header.forward}}
        BY <1>2 DEF Receive
      <3> QED  BY <3>1, <3>2 DEF Types
    <2>3. /\ sc_recv_' \in ScObject /\ sc_send_' \in ScObject
          /\ sc' \in 0 .. SnSpace - 1 /\ first_pack_' = FALSE
      BY <2>1, UnPakTypes
    <2>4. /\ pc' \in {"skip", "insert"} /\ refused' \in BOOLEAN
          /\ UNCHANGED <<station, net, handed, made, relayed>>
      BY <1>2 DEF Receive, Types, wire
    <2> QED
      BY <2>2, <2>3, <2>4 DEF Types
  <1>3. ASSUME NEW buf \in Buffers, InsertNow(buf) PROVE Types'
    <2>1. HandOn
      BY <1>3 DEF InsertNow
    <2>2. handed' \in 0 .. MaxHanded
      BY <1>3, SessionAssumption DEF InsertNow, Types
    <2> QED
      BY <1>3, <2>1, <2>2, HandOnTypes DEF InsertNow, Types, wire
  <1>4. ASSUME NEW buf \in Buffers,
               ReceiveFails(buf) \/ InsertBehind(buf) \/ InsertNext(buf) \/ Delete(buf)
        PROVE  Types'
    BY <1>4 DEF ReceiveFails, InsertBehind, InsertNext, Delete, Types,
                wire, session, history
  <1>5. CASE SkipOne
    <2>1. sc_send_' \in ScObject /\ made' \in 0 .. MaxMade
      BY <1>5, MakeHeaderTypes DEF SkipOne, MakeNone, Types
    <2> QED  BY <1>5, <2>1 DEF SkipOne, Types, wire
  <1>6. CASE UNCHANGED vars
    BY <1>6 DEF vars, Types, wire, session, history
  <1> QED
    BY <1>1, <1>2, <1>3, <1>4, <1>5, <1>6 DEF Next, HandleSocket

----------------------------------------------------------------------------
(***************************************************************************)
(* The sorter's invariant, from the lemmas of PacketSorterProofs.          *)
(***************************************************************************)
\* The two instances of PacketSorter compare and add alike.
LEMMA SameArithmetic ==
  /\ \A lh, rh : Sorter!Less(lh, rh) <=> SorterP!Less(lh, rh)
  /\ \A sn, increase : Sorter!Add(sn, increase) = SorterP!Add(sn, increase)
  BY DEF Sorter!Less, Sorter!Wrap, Sorter!Signed, Sorter!Space, Sorter!Add,
         SorterP!Less, SorterP!Wrap, SorterP!Signed, SorterP!Space, SorterP!Add

LEMMA SameInsertNext ==
  ASSUME NEW sn, NEW buf, Sorter!InsertNext(sn, buf)
  PROVE  SorterP!InsertNext(sn, buf)
  BY SameArithmetic
     DEF Sorter!InsertNext, Sorter!IsNext, Sorter!IsBehind, Sorter!IsNow,
         Sorter!Place, Sorter!Taken, Sorter!InsertAt,
         SorterP!InsertNext, SorterP!IsNext, SorterP!IsBehind, SorterP!IsNow,
         SorterP!Place, SorterP!Taken, SorterP!InsertAt

LEMMA SameSkip == Sorter!Skip(1) => SorterP!Skip(1)
  BY SameArithmetic
     DEF Sorter!Skip, Sorter!Purges, SorterP!Skip, SorterP!Purges

LEMMA NextSorter ==
  ASSUME Types, SorterP!IInv, [Next]_vars
  PROVE  SorterP!IInv'
  <1>0. Wire(sc) \in SorterP!SN
    BY WireType DEF Types
  <1>1. ASSUME NEW buf \in Buffers, Sorter!NewBuffer(buf) \/ Sorter!DeleteBuffer(buf)
        PROVE  SorterP!IInv'
    <2>1. SorterP!NewBuffer(buf) \/ SorterP!DeleteBuffer(buf)
      BY <1>1 DEF Sorter!NewBuffer, Sorter!DeleteBuffer, Sorter!sorter,
                  SorterP!NewBuffer, SorterP!DeleteBuffer, SorterP!sorter
    <2> QED  BY <2>1, SorterAssumptions, SorterP!BufferIInv
  <1>2. ASSUME NEW buf \in Buffers, Sorter!InsertNow(Wire(sc), buf)
        PROVE  SorterP!IInv'
    <2>1. SorterP!InsertNow(Wire(sc), buf)
      BY <1>2, SameArithmetic
         DEF Sorter!InsertNow, Sorter!IsNow, SorterP!InsertNow, SorterP!IsNow
    <2> QED  BY <1>0, <2>1, SorterAssumptions, SorterP!InsertNowIInv
  <1>3. ASSUME NEW buf \in Buffers, Sorter!InsertNext(Wire(sc), buf)
        PROVE  SorterP!IInv'
    BY <1>0, <1>3, SameInsertNext, SorterAssumptions, SorterP!InsertNextIInv
  <1>4. ASSUME Sorter!Skip(1)
        PROVE  SorterP!IInv'
    <2>1. 1 \in Nat /\ SorterP!Skip(1)
      BY <1>4, SameSkip
    <2> QED  BY <2>1, SorterAssumptions, SorterP!SkipIInv
  <1>5. ASSUME UNCHANGED <<is_first_, increase_, now_sn_, data_, heap, caller>>
        PROVE  SorterP!IInv'
    <2>1. UNCHANGED SorterP!vars
      BY <1>5 DEF SorterP!vars
    <2> QED  BY <2>1, SorterAssumptions, SorterP!StutterIInv
  <1>6. ASSUME NEW buf \in Buffers, ReceiveFails(buf)
        PROVE  SorterP!IInv'
    BY <1>6 DEF ReceiveFails, position, SorterP!IInv, SorterP!TypeOK,
                SorterP!Ownership, SorterP!FirstMeansEmpty, SorterP!Stored
  <1>7. ASSUME NEW buf \in Buffers, Sorter!InsertBehind(Wire(sc), buf)
        PROVE  SorterP!IInv'
    BY <1>5, <1>7 DEF Sorter!InsertBehind, Sorter!vars
  <1>8. ASSUME (\E s \in Stations : StationSends(s)) \/ UNCHANGED vars
        PROVE  SorterP!IInv'
    BY <1>5, <1>8 DEF StationSends, vars, sorter, position
  <1> QED
    BY <1>1, <1>2, <1>3, <1>4, <1>6, <1>7, <1>8
       DEF Next, HandleSocket, Receive, InsertNow, InsertNext, InsertBehind,
           Delete, SkipOne

LEMMA InitSorter == Init => SorterP!IInv
  <1>1. Init => SorterP!Init
    BY DEF Init, Sorter!Init, SorterP!Init, Sorter!SN, Sorter!Space,
           SorterP!SN, SorterP!Space
  <1> QED  BY <1>1, SorterAssumptions, SorterP!InitIInv

\* In every reachable state types and the sorter's invariant hold.
THEOREM SessionInvariant == Spec => [](Types /\ SorterP!IInv)
  BY InitTypes, InitSorter, NextTypes, NextSorter, PTL DEF Spec

\* Every variable has its type.
THEOREM SessionTypeOK == Spec => []TypeOK
  <1>1. Types /\ SorterP!IInv => TypeOK
    <2> SUFFICES ASSUME Types, SorterP!IInv PROVE TypeOK
      OBVIOUS
    <2>1. Sorter!TypeOK
      BY DEF SorterP!IInv, SorterP!TypeOK, SorterP!SN, SorterP!Space, SorterP!Entry,
             Sorter!TypeOK, Sorter!SN, Sorter!Space, Sorter!Entry
    <2>2. \A i \in 1 .. Len(relayed) : relayed[i] \in [header : Header, nth : Nat]
      BY ElementOfSeq DEF Types
    <2> QED  BY <2>1, <2>2 DEF Types, TypeOK, ScObject
  <1> QED  BY <1>1, SessionInvariant, PTL

\* HandleSocket and its sorter never delete a buffer twice, nor use one that
\* was deleted, in either build (session.cpp:210-243, utils.cpp:44-96).
THEOREM SessionOwnership == Spec => []Sorter!Ownership
  <1>1. SorterP!IInv => Sorter!Ownership
    BY DEF SorterP!IInv, SorterP!Ownership, SorterP!Stored, Sorter!Ownership,
           Sorter!Stored
  <1> QED  BY <1>1, SessionInvariant, PTL

\* HandleSocket abandons a buffer after a receive error and when Insert keeps
\* nothing, and never else (session.cpp:216, 237).
THEOREM SessionAbandonsInTwoPlaces == Spec => AbandonsInTwoPlaces
  <1> DEFINE TwoPlaces ==
        Sorter!Lost' # Sorter!Lost =>
          \/ pc = "receive" /\ UNCHANGED <<pc, first_pack_, caller>>
          \/ /\ pc = "insert" /\ \E i \in DOMAIN data_ : data_[i].sn = Wire(sc)
             /\ UNCHANGED <<data_, now_sn_>>
  <1>0. Sorter!Lost = SorterP!Lost /\ Sorter!Lost' = SorterP!Lost'
    BY DEF Sorter!Lost, Sorter!Stored, SorterP!Lost, SorterP!Stored
  <1>1. Types /\ SorterP!IInv /\ [Next]_vars => TwoPlaces
    <2> SUFFICES ASSUME Types, SorterP!IInv, [Next]_vars PROVE TwoPlaces
      OBVIOUS
    <2>1. ASSUME UNCHANGED <<data_, heap, caller>> PROVE TwoPlaces
      BY <2>1 DEF Sorter!Lost, Sorter!Stored
    <2>2. ASSUME NEW buf \in Buffers, Sorter!NewBuffer(buf) \/ Sorter!DeleteBuffer(buf)
          PROVE  TwoPlaces
      <3>1. SorterP!NewBuffer(buf) \/ SorterP!DeleteBuffer(buf)
        BY <2>2 DEF Sorter!NewBuffer, Sorter!DeleteBuffer, Sorter!sorter,
                    SorterP!NewBuffer, SorterP!DeleteBuffer, SorterP!sorter
      <3> QED  BY <1>0, <3>1, SorterAssumptions, SorterP!BufferLost
    <2>3. ASSUME NEW buf \in Buffers, InsertNext(buf)
          PROVE  TwoPlaces
      <3>1. SorterP!InsertNext(Wire(sc), buf) /\ pc = "insert"
        BY <2>3, SameInsertNext DEF InsertNext
      <3>2. Wire(sc) \in SorterP!SN
        BY WireType DEF Types
      <3>3. SorterP!Lost' # SorterP!Lost =>
              /\ \E j \in DOMAIN data_ : data_[j].sn = Wire(sc)
              /\ UNCHANGED <<data_, now_sn_>>
        BY <3>1, <3>2, SorterAssumptions, SorterP!InsertNextLost
      <3> QED  BY <1>0, <3>1, <3>3
    <2>4. CASE SkipOne
      <3>1. 1 \in Nat /\ SorterP!Skip(1)
        BY <2>4, SameSkip DEF SkipOne
      <3> QED  BY <1>0, <3>1, SorterAssumptions, SorterP!SkipLost
    <2>5. ASSUME NEW buf \in Buffers, ReceiveFails(buf)
          PROVE  TwoPlaces
      BY <2>5 DEF ReceiveFails, session
    <2>6. ASSUME NEW buf \in Buffers, InsertNow(buf) \/ InsertBehind(buf)
          PROVE  TwoPlaces
      BY <2>1, <2>6 DEF InsertNow, InsertBehind, Sorter!InsertNow,
                        Sorter!InsertBehind, Sorter!vars
    <2>7. CASE (\E s \in Stations : StationSends(s)) \/ UNCHANGED vars
      BY <2>1, <2>7 DEF StationSends, vars, sorter, position
    <2> QED
      BY <2>2, <2>3, <2>4, <2>5, <2>6, <2>7
         DEF Next, HandleSocket, Receive, Delete
  <1>2. TwoPlaces => [TwoPlaces]_vars
    OBVIOUS
  <1> QED
    BY <1>1, <1>2, SessionInvariant, PTL DEF Spec, AbandonsInTwoPlaces

----------------------------------------------------------------------------
(***************************************************************************)
(* One direction: that of the header sc_recv_ keeps.                       *)
(***************************************************************************)
Direction ==
  /\ sc_recv_.first_pack_ => accepted = {}
  /\ accepted \subseteq {sc_recv_.recv_header_.forward}

LEMMA NextDirection ==
  ASSUME Types, Direction, [Next]_vars
  PROVE  Direction'
  <1>1. ASSUME NEW buf \in Buffers, NEW d \in Datagrams, Receive(buf, d)
        PROVE  Direction'
    <2>1. /\ sc_recv_' = AfterRecv(sc_recv_, d)
          /\ accepted' = IF Rejects(sc_recv_, d) THEN accepted
                         ELSE accepted \cup {d.header.forward}
      BY <1>1 DEF Receive, UnPak
    <2>2. CASE d.shape = "whole" /\ sc_recv_.first_pack_
      <3>1. accepted = {} /\ ~Rejects(sc_recv_, d)
        BY <2>2 DEF Direction, Rejects
      <3>2. /\ sc_recv_'.first_pack_ = FALSE
            /\ sc_recv_'.recv_header_ = d.header
        BY <2>1, <2>2 DEF AfterRecv, Types, ScObject
      <3> QED  BY <2>1, <3>1, <3>2 DEF Direction
    <2>3. CASE ~(d.shape = "whole" /\ sc_recv_.first_pack_)
      <3>1. sc_recv_' = sc_recv_
        BY <2>1, <2>3 DEF AfterRecv
      <3>2. accepted' \subseteq accepted \cup {sc_recv_.recv_header_.forward}
        BY <2>1, <2>3 DEF Rejects
      <3>3. sc_recv_.first_pack_ => accepted' = accepted
        BY <2>1, <2>3 DEF Rejects
      <3> QED  BY <3>1, <3>2, <3>3 DEF Direction
    <2> QED  BY <2>2, <2>3
  <1>2. CASE UNCHANGED <<sc_recv_, accepted>>
    BY <1>2 DEF Direction
  <1> QED
    BY <1>1, <1>2
       DEF Next, HandleSocket, StationSends, ReceiveFails, InsertNow, InsertBehind,
           InsertNext, Delete, SkipOne, session, history, vars

\* A call has one direction, that of the first packet accepted
\* (sc.cpp:55-65).
THEOREM SessionOneDirection == Spec => []OneDirection
  <1>1. Init => Direction
    BY DEF Init, Direction
  <1>2. Types /\ Direction /\ [Next]_vars => Direction'
    BY NextDirection
  <1>3. Direction => OneDirection
    <2> SUFFICES ASSUME Direction PROVE Cardinality(accepted) <= 1
      BY DEF OneDirection
    <2> DEFINE kept == {sc_recv_.recv_header_.forward}
    <2>1. IsFiniteSet(kept) /\ Cardinality(kept) = 1
      BY FS_Singleton
    <2> QED  BY <2>1, FS_Subset DEF Direction
  <1> QED  BY <1>1, <1>2, <1>3, SessionInvariant, PTL DEF Spec

----------------------------------------------------------------------------
(***************************************************************************)
(* Who the session speaks for: once its first datagram was a packet,       *)
(* sc_send_ has that packet's identity and the next number.                *)
(***************************************************************************)
Numbered(k) ==
  [ueid |-> first.header.ueid, forward |-> "To4G",
   sn |-> (first.header.sn + k) % SnSpace]

Speaks ==
  /\ first_pack_ => /\ relayed = <<>> /\ made = 0
                    /\ sc_recv_.first_pack_
                    /\ pc = "receive"
  /\ ~first_pack_ => first \in Datagram
  /\ ~first_pack_ /\ first.shape = "whole" =>
       sc_send_.send_header_ = Numbered(made)
  /\ first_pack_ => first = NoPacket
  /\ \A i \in 1 .. Len(relayed) : relayed[i].nth <= made
  /\ ~refused => made = Len(relayed) /\ pc # "skip"
  /\ SpeaksForFirst

\* The header after the one numbered made is Numbered(made + 1).
LEMMA NextHeader ==
  ASSUME Types, Speaks, MakeHeader, ~first_pack_, first.shape = "whole"
  PROVE  sc_send_'.send_header_ = Numbered(made + 1)
  <1>1. sc_send_.send_header_ = Numbered(made)
    BY DEF Speaks
  <1>2. first.header.sn \in Nat
    BY ScAssumption DEF Speaks, Datagram, Header
  <1>3. sc_send_'.send_header_ =
          [sc_send_.send_header_ EXCEPT !.sn = (@ + 1) % SnSpace]
    BY AfterSendType DEF Types, MakeHeader
  <1>4. (((first.header.sn + made) % SnSpace) + 1) % SnSpace
          = (first.header.sn + (made + 1)) % SnSpace
    <2> DEFINE a == first.header.sn + made
    <2>0. made \in Nat
      BY SessionAssumption DEF Types
    <2>1. a \in Nat /\ SnSpace \in Nat \ {0}
          /\ first.header.sn + (made + 1) = a + 1
      BY <1>2, <2>0, ScAssumption
    <2> HIDE DEF a
    <2>2. ((a % SnSpace) + 1) % SnSpace = (a + 1) % SnSpace
      BY <2>1, SorterAssumptions, SorterP!SumRemainder
    <2> QED  BY <2>1, <2>2 DEF a
  <1> QED  BY <1>1, <1>3, <1>4 DEF Numbered

LEMMA NextSpeaks ==
  ASSUME Types, Speaks, [Next]_vars
  PROVE  Speaks'
  <1>0. /\ Len(relayed) \in Nat /\ made \in Nat
        /\ \A i \in 1 .. Len(relayed) : relayed[i].nth \in Nat /\ relayed[i].nth <= made
    <2>1. \A i \in 1 .. Len(relayed) : relayed[i] \in [header : Header, nth : Nat]
      BY ElementOfSeq DEF Types
    <2> QED  BY <2>1, LenProperties, SessionAssumption DEF Types, Speaks
  <1>1. ASSUME NEW buf \in Buffers, NEW d \in Datagrams, Receive(buf, d), first_pack_
        PROVE  Speaks'
    <2>1. /\ first' = d /\ first_pack_' = FALSE /\ relayed' = relayed /\ made' = made
          /\ sc_recv_' = AfterRecv(sc_recv_, d)
          /\ sc_send_' = Fresh(GetUEID(sc_recv_'), "To4G", GetSn(sc_recv_'))
          /\ ~refused' => pc' # "skip"
      BY <1>1 DEF Receive, UnPak
    <2>2. d \in Datagram
      BY DatagramsType
    <2>3. relayed = <<>> /\ Len(relayed) = 0 /\ made = 0
      BY <1>1 DEF Speaks
    <2>4. ASSUME d.shape = "whole" PROVE sc_send_'.send_header_ = Numbered(0)'
      <3>1. sc_recv_'.recv_header_ = d.header
        BY <1>1, <2>1, <2>4 DEF AfterRecv, Types, ScObject, Speaks
      <3>2. d.header.sn + 0 = d.header.sn
        BY <2>2, ScAssumption DEF Datagram, Header
      <3> QED  BY <2>1, <3>1, <3>2 DEF Fresh, GetUEID, GetSn, Numbered
    <2>5. SpeaksForFirst'
      BY <2>1, <2>3 DEF SpeaksForFirst
    <2> QED  BY <2>1, <2>2, <2>3, <2>4, <2>5 DEF Speaks
  <1>2. ASSUME NEW buf \in Buffers, NEW d \in Datagrams, Receive(buf, d), ~first_pack_
        PROVE  Speaks'
    <2>1. /\ UNCHANGED <<first, relayed, made, sc_send_>> /\ first_pack_' = FALSE
          /\ ~refused' => ~refused /\ pc' # "skip"
      BY <1>2 DEF Receive, UnPak
    <2> QED  BY <1>2, <2>1 DEF Speaks, SpeaksForFirst, Numbered
  <1>3. ASSUME NEW buf \in Buffers, InsertNow(buf) PROVE Speaks'
    <2>1. /\ UNCHANGED <<first, first_pack_, sc_recv_, refused>> /\ HandOn
          /\ ~first_pack_ /\ pc' = "delete"
      BY <1>3 DEF InsertNow, Speaks
    <2>2. CASE MakeNone /\ UNCHANGED relayed
      BY <2>1, <2>2 DEF Speaks, SpeaksForFirst, Numbered, MakeNone
    <2>3. CASE /\ MakeHeader
               /\ relayed' = Append(relayed, [header |-> sc_send_'.send_header_,
                                             nth |-> made'])
      <3> DEFINE new == [header |-> sc_send_'.send_header_, nth |-> made']
      <3>1. /\ Len(relayed') = Len(relayed) + 1
            /\ relayed'[Len(relayed) + 1] = new
            /\ \A i \in 1 .. Len(relayed) : relayed'[i] = relayed[i]
            /\ made' = made + 1
        <4>1. new \in [header : Header, nth : Nat] /\ made' = made + 1
          BY <2>3, MakeHeaderTypes, SessionAssumption
        <4> HIDE DEF new
        <4> QED  BY <2>3, <4>1, AppendProperties, LenProperties DEF Types, new
      <3>2. first.shape = "whole" => sc_send_'.send_header_ = Numbered(made + 1)
        BY <2>1, <2>3, NextHeader
      <3>3. \A i \in 1 .. Len(relayed) + 1 : relayed'[i].nth <= made'
        <4> TAKE i \in 1 .. Len(relayed) + 1
        <4>1. CASE i = Len(relayed) + 1
          BY <3>1, <4>1, <1>0
        <4>2. CASE i # Len(relayed) + 1
          <5>1. i \in 1 .. Len(relayed)
            BY <1>0, <4>2
          <5>2. relayed[i].nth \in Nat /\ relayed[i].nth <= made
            BY <1>0, <5>1
          <5> QED  BY <3>1, <5>1, <5>2, <1>0
        <4> QED  BY <4>1, <4>2
      <3>4. SpeaksForFirst'
        <4> SUFFICES ASSUME first.shape = "whole", NEW i \in 1 .. Len(relayed) + 1
                     PROVE  /\ relayed'[i].header = Numbered(relayed'[i].nth)
                            /\ i > 1 => relayed'[i - 1].nth < relayed'[i].nth
                            /\ ~refused => relayed'[i].nth = i
          BY <2>1, <3>1 DEF SpeaksForFirst, Numbered
        <4>1. CASE i = Len(relayed) + 1
          <5>1. i > 1 => i - 1 \in 1 .. Len(relayed)
            BY <4>1, <1>0
          <5>2. i > 1 => relayed[i - 1].nth \in Nat /\ relayed[i - 1].nth <= made
            BY <1>0, <5>1
          <5>3. i > 1 => relayed'[i - 1].nth < relayed'[i].nth
            BY <3>1, <4>1, <5>1, <5>2, <1>0
          <5>4. ~refused => relayed'[i].nth = i
            BY <3>1, <4>1 DEF Speaks
          <5>5. relayed'[i].header = Numbered(relayed'[i].nth)
            BY <3>1, <3>2, <4>1
          <5> QED  BY <5>3, <5>4, <5>5
        <4>2. CASE i # Len(relayed) + 1
          <5>1. i \in 1 .. Len(relayed) /\ (i > 1 => i - 1 \in 1 .. Len(relayed))
            BY <1>0, <4>2
          <5>2. /\ relayed[i].header = Numbered(relayed[i].nth)
                /\ i > 1 => relayed[i - 1].nth < relayed[i].nth
                /\ ~refused => relayed[i].nth = i
            BY <5>1 DEF Speaks, SpeaksForFirst, Numbered
          <5> QED  BY <3>1, <5>1, <5>2
        <4> QED  BY <4>1, <4>2
      <3>5. first.shape = "whole" => sc_send_'.send_header_ = Numbered(made')
        BY <3>1, <3>2
      <3>6. ~refused => made' = Len(relayed')
        BY <3>1 DEF Speaks
      <3> QED
        BY <2>1, <3>1, <3>3, <3>4, <3>5, <3>6 DEF Speaks, Numbered
    <2> QED  BY <2>1, <2>2, <2>3 DEF HandOn
  <1>4. CASE SkipOne
    <2>1. /\ UNCHANGED <<first, first_pack_, sc_recv_, refused, relayed>>
          /\ MakeHeader \/ MakeNone
          /\ ~first_pack_ /\ refused
      BY <1>4 DEF SkipOne, Speaks
    <2>2. CASE MakeNone
      BY <2>1, <2>2 DEF Speaks, SpeaksForFirst, Numbered, MakeNone
    <2>3. CASE MakeHeader
      <3>1. made' = made + 1
        BY <2>3 DEF MakeHeader
      <3>2. \A i \in 1 .. Len(relayed) : relayed[i].nth <= made'
        <4> TAKE i \in 1 .. Len(relayed)
        <4> QED  BY <1>0, <3>1
      <3>3. first.shape = "whole" => sc_send_'.send_header_ = Numbered(made')
        BY <2>1, <2>3, <3>1, NextHeader
      <3> QED  BY <2>1, <3>2, <3>3 DEF Speaks, SpeaksForFirst, Numbered
    <2> QED  BY <2>1, <2>2, <2>3
  <1>5. CASE \/ UNCHANGED vars
             \/ \E s \in Stations : StationSends(s)
             \/ \E buf \in Buffers : \/ ReceiveFails(buf) \/ InsertBehind(buf)
                                     \/ InsertNext(buf) \/ Delete(buf)
    <2>1. UNCHANGED <<first, first_pack_, sc_recv_, sc_send_, refused, made, relayed>>
      BY <1>5 DEF StationSends, ReceiveFails, InsertBehind, InsertNext, Delete,
                  session, history, vars
    <2>2. /\ pc = "receive" => pc' = "receive"
          /\ pc # "skip" => pc' # "skip"
      BY <1>5 DEF StationSends, ReceiveFails, InsertBehind, InsertNext, Delete,
                  session, history, vars
    <2> QED  BY <2>1, <2>2 DEF Speaks, SpeaksForFirst, Numbered
  <1> QED
    BY <1>1, <1>2, <1>3, <1>4, <1>5 DEF Next, HandleSocket

\* A call that begins with an SC packet is relayed under its identity and
\* numbered on from it: no number twice, and none left out as long as UnPak
\* refuses nothing (session.cpp:88-92, 221, 230, sc.cpp:28-37).
THEOREM SessionSpeaksForFirst == Spec => []SpeaksForFirst
  <1>1. Init => Speaks
    BY DEF Init, Speaks, SpeaksForFirst, NoPacket, Fresh
  <1>2. Types /\ Speaks /\ [Next]_vars => Speaks'
    BY NextSpeaks
  <1>3. Speaks => SpeaksForFirst
    BY DEF Speaks
  <1> QED  BY <1>1, <1>2, <1>3, SessionInvariant, PTL DEF Spec

----------------------------------------------------------------------------
(***************************************************************************)
(* Silence.  Recv gives 0 and then always the first packet's number, so    *)
(* while nothing is refused the sorter sees one number again and again,    *)
(* and each time it hands a packet on its position moves past it.          *)
(***************************************************************************)
Kept == Wire(GetSn(sc_recv_))

Silent ==
  MaxHanded > 3 /\ increase_ # 0 /\ ~refused =>
    /\ handed <= 3
    /\ pc # "skip"
    /\ pc = "insert" => sc = IF handed = 0 THEN 0 ELSE GetSn(sc_recv_)
    /\ pc = "receive" /\ handed = 0 => sc_recv_.first_pack_
    /\ pc = "delete" => handed # 0
    /\ sc_recv_.first_pack_ <=> handed = 0 /\ pc # "insert"
    /\ handed = 0 => is_first_
    /\ handed = 1 => now_sn_ = increase_
    /\ handed >= 2 => now_sn_ = SorterP!Add(Kept, increase_)
    /\ handed = 2 /\ is_first_ => Kept = increase_
    /\ handed = 3 => ~is_first_

LEMMA NextSilent ==
  ASSUME Types, SorterP!IInv, Silent, [Next]_vars
  PROVE  Silent'
  <1> SUFFICES ASSUME MaxHanded > 3, increase_' # 0, ~refused' PROVE Silent'
    BY DEF Silent
  <1>1. increase_' = increase_ /\ ~refused /\ handed \in 0 .. 3 /\ MaxHanded \in Nat
    <2>1. increase_' = increase_
      BY DEF Next, HandleSocket, StationSends, Receive, ReceiveFails, InsertNow,
             InsertBehind, InsertNext, Delete, SkipOne, Sorter!NewBuffer,
             Sorter!InsertNow, Sorter!InsertBehind, Sorter!InsertNext,
             Sorter!DeleteBuffer, Sorter!Skip, Sorter!vars, Sorter!sorter,
             vars, sorter, position
    <2>2. refused => refused'
      BY DEF Next, HandleSocket, StationSends, Receive, ReceiveFails, InsertNow,
             InsertBehind, InsertNext, Delete, SkipOne, vars, history
    <2> QED  BY <2>1, <2>2, SessionAssumption DEF Silent, Types
  <1>2. /\ increase_ \in SorterP!SN /\ Kept \in SorterP!SN
        /\ SorterP!Add(Kept, increase_) # Kept
        /\ SorterP!Add(Wire(0), increase_) = increase_
    <2>1. increase_ \in SorterP!SN
      BY DEF SorterP!IInv, SorterP!TypeOK
    <2>2. Kept \in SorterP!SN
      BY WireType DEF Kept, GetSn, Types, ScObject, Header
    <2>3. Wire(0) = 0
      BY ScAssumption, SessionAssumption DEF Wire
    <2> QED  BY <1>1, <2>1, <2>2, <2>3, SorterAssumptions, SorterP!AddMoves
  <1>3. ASSUME NEW buf \in Buffers, NEW d \in Datagrams, Receive(buf, d)
        PROVE  Silent'
    <2>1. /\ pc = "receive" /\ pc' = "insert" /\ handed' = handed
          /\ ~Rejects(sc_recv_, d)
          /\ sc_recv_' = AfterRecv(sc_recv_, d)
          /\ sc' = RecvOutput(sc_recv_, d, 0)
          /\ UNCHANGED <<is_first_, now_sn_>>
      BY <1>3 DEF Receive, UnPak, Sorter!NewBuffer, Sorter!sorter
    <2>2. CASE sc_recv_.first_pack_
      <3>1. sc' = 0 /\ sc_recv_'.first_pack_ = FALSE
        BY <2>1, <2>2 DEF Rejects, AfterRecv, RecvOutput, Types, ScObject
      <3> QED  BY <1>1, <2>1, <2>2, <3>1 DEF Silent
    <2>3. CASE ~sc_recv_.first_pack_
      <3>1. sc_recv_' = sc_recv_ /\ sc' = GetSn(sc_recv_)
        BY <2>1, <2>3 DEF Rejects, AfterRecv, RecvOutput, GetSn
      <3> QED  BY <1>1, <2>1, <2>3, <3>1 DEF Silent, Kept
    <2> QED  BY <2>2, <2>3
  <1>4. ASSUME NEW buf \in Buffers, InsertNow(buf) PROVE Silent'
    <2>1. /\ pc = "insert" /\ pc' = "delete" /\ handed' = handed + 1
          /\ UNCHANGED <<sc_recv_, refused>>
          /\ Wire(sc) = now_sn_ \/ is_first_
          /\ now_sn_' = SorterP!Add(Wire(sc), increase_)
          /\ is_first_' = (is_first_ /\ Wire(sc) = now_sn_)
      BY <1>1, <1>4, SameArithmetic DEF InsertNow, Sorter!InsertNow, Sorter!IsNow
    <2>2. CASE handed = 0
      BY <1>1, <1>2, <2>1, <2>2 DEF Silent
    <2>3. CASE handed # 0
      <3>1. Wire(sc) = Kept
        BY <1>1, <2>1, <2>3 DEF Silent, Kept
      <3>2. handed # 3
        BY <1>1, <1>2, <2>1, <3>1 DEF Silent
      <3>3. /\ handed' \in 2 .. 3
            /\ now_sn_' = SorterP!Add(Kept, increase_)
            /\ handed' = 2 => now_sn_ = increase_
            /\ handed' = 3 => now_sn_ = SorterP!Add(Kept, increase_)
        BY <1>1, <2>1, <2>3, <3>1, <3>2 DEF Silent
      <3>4. /\ handed' = 2 /\ is_first_' => Kept = increase_
            /\ handed' = 3 => ~is_first_'
        BY <1>2, <2>1, <3>1, <3>3
      <3>5. Kept' = Kept /\ sc_recv_.first_pack_ = FALSE
        BY <1>1, <2>1, <2>3 DEF Kept, Silent, Types, ScObject
      <3> QED  BY <1>1, <2>1, <3>3, <3>4, <3>5 DEF Silent
    <2> QED  BY <2>2, <2>3
  <1>5. ASSUME NEW buf \in Buffers, InsertBehind(buf) \/ InsertNext(buf)
        PROVE  Silent'
    <2>1. pc = "insert" /\ ~is_first_
      BY <1>5 DEF InsertBehind, InsertNext, Sorter!InsertBehind, Sorter!InsertNext,
                  Sorter!IsBehind, Sorter!IsNext, Sorter!IsNow
    <2>2. /\ pc' \in {"delete", "receive"}
          /\ UNCHANGED <<sc_recv_, refused, handed, now_sn_, is_first_>>
      BY <1>5 DEF InsertBehind, InsertNext, Sorter!InsertBehind, Sorter!InsertNext,
                  Sorter!vars, session, history
    <2> QED  BY <1>1, <2>1, <2>2 DEF Silent, Kept
  <1>6. ASSUME NEW buf \in Buffers, Delete(buf)
        PROVE  Silent'
    <2>1. /\ pc = "delete" /\ pc' = "receive"
          /\ UNCHANGED <<sc_recv_, refused, handed, now_sn_, is_first_>>
      BY <1>6 DEF Delete, Sorter!DeleteBuffer, Sorter!sorter, session, history
    <2> QED  BY <1>1, <2>1 DEF Silent, Kept
  <1>7. CASE SkipOne
    BY <1>1, <1>7 DEF SkipOne, Silent
  <1>8. CASE \/ UNCHANGED vars
             \/ \E s \in Stations : StationSends(s)
             \/ \E buf \in Buffers : ReceiveFails(buf)
    <2>1. UNCHANGED <<sc_recv_, refused, handed, now_sn_, is_first_, pc, sc>>
      BY <1>8 DEF StationSends, ReceiveFails, session, history, vars, sorter, position
    <2> QED  BY <1>1, <2>1 DEF Silent, Kept
  <1> QED
    BY <1>3, <1>4, <1>5, <1>6, <1>7, <1>8 DEF Next, HandleSocket

\* As long as nothing is refused a call comes to rest: three packets at most
\* are handed on, however many arrive (sc.cpp:67, session.cpp:219-224).
THEOREM SessionFallsSilent == Spec => []FallsSilent
  <1>1. Init => Silent
    BY DEF Init, Silent, Fresh, Sorter!Init
  <1>2. Types /\ SorterP!IInv /\ Silent /\ [Next]_vars => Silent'
    BY NextSilent
  <1>3. Types /\ Silent => FallsSilent
    BY SessionAssumption DEF Types, Silent, FallsSilent
  <1> QED  BY <1>1, <1>2, <1>3, SessionInvariant, PTL DEF Spec
===============================================================================
