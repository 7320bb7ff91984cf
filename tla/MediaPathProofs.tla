--------------------------- MODULE MediaPathProofs ----------------------------
(***************************************************************************)
(* MediaPath for number spaces of any width, any frames and any number of  *)
(* datagrams.                                                              *)
(***************************************************************************)
EXTENDS MediaPath, FiniteSetTheorems, SequenceTheorems, TLAPS

----------------------------------------------------------------------------
(***************************************************************************)
(* Numbers that wrap around.                                               *)
(***************************************************************************)
\* Quotient and remainder.
LEMMA Division ==
  ASSUME NEW space \in Nat \ {0}, NEW n \in Int
  PROVE  /\ n = space * (n \div space) + (n % space)
         /\ n \div space \in Int
         /\ n % space \in 0 .. space - 1
  BY Z3

\* They are the only ones.
LEMMA Remainder ==
  ASSUME NEW space \in Nat \ {0}, NEW q \in Int, NEW r \in 0 .. space - 1
  PROVE  /\ (space * q + r) % space = r
         /\ (space * q + r) \div space = q
  <1> DEFINE n == space * q + r  p == n \div space  m == n % space  d == q - p
  <1>1. n \in Int
    BY Z3
  <1> HIDE DEF n
  <1>2. n = space * p + m /\ p \in Int /\ m \in 0 .. space - 1
    BY <1>1, Division
  <1>3. space * q + r = space * p + m
    BY <1>2 DEF n
  <1> HIDE DEF p, m
  <1>4. d \in Int /\ space * d = m - r
    BY <1>2, <1>3, Z3
  <1> HIDE DEF d
  <1>5. d = 0
    <2>1. CASE d >= 1
      <3>1. space * d >= space
        BY <1>4, <2>1, Z3
      <3> QED  BY <1>2, <1>4, <3>1
    <2>2. CASE d <= -1
      <3>1. space * d <= -space
        BY <1>4, <2>2, Z3
      <3> QED  BY <1>2, <1>4, <3>1
    <2> QED  BY <1>4, <2>1, <2>2
  <1>6. q = p /\ m = r
    BY <1>2, <1>4, <1>5 DEF d
  <1> QED  BY <1>6 DEF n, p, m

\* Remainders do not see multiples of what is divided by.
LEMMA SameRemainder ==
  ASSUME NEW space \in Nat \ {0}, NEW a \in Int, NEW b \in Int, NEW k \in Int,
         a = b + space * k
  PROVE  a % space = b % space
  <1> DEFINE p == b \div space  r == b % space  q == p + k
  <1>1. b = space * p + r /\ p \in Int /\ r \in 0 .. space - 1
    BY Division
  <1> HIDE DEF p, r
  <1>2. q \in Int /\ a = space * q + r
    BY <1>1, Z3
  <1> HIDE DEF q
  <1>3. (space * q + r) % space = r
    BY <1>1, <1>2, Remainder
  <1> QED  BY <1>2, <1>3 DEF r

----------------------------------------------------------------------------
(***************************************************************************)
(* Types.  The media of the datagrams are numbered by how many there are.  *)
(***************************************************************************)
RtpHeader == [sequence_num : 0 .. SeqSpace - 1, timestamp : 0 .. TsSpace - 1]
ScObject == [send_header_ : Header, recv_header_ : Header, first_pack_ : BOOLEAN]
Packet == [rtp : RtpHeader, udp : UdpPacker, sc : Header, media : Nat, at : Nat]

Types ==
  /\ param_ \in [if_send_sc : BOOLEAN, if_add_udpip : BOOLEAN]
  /\ send_header_ \in RtpHeader
  /\ udp_ \in UdpPacker
  /\ sc_send_ \in ScObject
  /\ sc_recv_ \in ScObject
  /\ net \subseteq Packet
  /\ IsFiniteSet(net)
  /\ Cardinality(net) \in 0 .. MaxSends
  /\ \A p \in net : p.media \in 1 .. Cardinality(net)
  /\ samples \in Nat
  /\ decoded \in Seq(0 .. MaxSends)
  /\ refused \in Nat
  /\ Len(decoded) + refused <= MaxRecvs

LEMMA ZeroTypes ==
  /\ 0 \in 0 .. SnSpace - 1
  /\ ZeroHeader \in Header
  BY ScAssumption DEF ZeroHeader, Header, Forward

LEMMA InitTypes == Init => Types
  <1> SUFFICES ASSUME Init PROVE Types
    OBVIOUS
  <1>1. udp_ \in UdpPacker /\ send_header_ \in RtpHeader
    BY DEF Init, RtpHeader
  <1>2. sc_send_ \in ScObject
    <2>1. PICK ueid \in Ueids \cup {0}, forward \in Forward, sn \in 0 .. SnSpace - 1 :
            sc_send_ = Fresh(ueid, forward, sn)
      BY DEF Init
    <2>2. sn % SnSpace \in 0 .. SnSpace - 1
      BY ScAssumption
    <2> QED  BY <2>1, <2>2, ZeroTypes DEF Fresh, ScObject, Header, Forward
  <1>3. sc_recv_ \in ScObject
    <2>1. PICK first \in BOOLEAN, forward \in Forward :
            sc_recv_ = [Fresh(0, "To4G", 0) EXCEPT !.first_pack_ = first,
                                                   !.recv_header_.forward = forward]
      BY DEF Init
    <2>2. 0 % SnSpace \in 0 .. SnSpace - 1
      BY ScAssumption
    <2>3. Fresh(0, "To4G", 0) \in ScObject
      BY <2>2, ZeroTypes DEF Fresh, ScObject, Header, Forward
    <2> QED  BY <2>1, <2>3 DEF ScObject, Header
  <1>4. net = {} /\ IsFiniteSet({}) /\ Cardinality({}) = 0
    BY FS_EmptySet DEF Init
  <1>5. decoded = <<>> /\ Len(decoded) = 0 /\ decoded \in Seq(0 .. MaxSends)
    BY DEF Init
  <1> QED
    BY <1>1, <1>2, <1>3, <1>4, <1>5, PathAssumption DEF Init, Types

\* Words of 16 bits, of which the provers need not see the number.
LEMMA WordFacts ==
  /\ ByteSpace \in Nat \ {0} /\ ByteSpace >= 16 /\ WordSpace = ByteSpace * ByteSpace
  /\ WordSpace \in Nat \ {0} /\ WordSpace >= 256
  /\ 0 \in Word
  /\ WordSpace - 1 \in Word
  BY DEF ByteSpace, WordSpace, Word

LEMMA SwappedType ==
  ASSUME NEW word \in Word
  PROVE  Swapped(word) \in Word
  <1> DEFINE high == word \div ByteSpace  low == word % ByteSpace
  <1>1. word \in Int /\ word >= 0 /\ word < ByteSpace * ByteSpace
    BY WordFacts DEF Word
  <1>2. /\ word = ByteSpace * high + low /\ high \in Int
        /\ low \in 0 .. ByteSpace - 1
    BY <1>1, WordFacts, Division
  <1> HIDE DEF high, low
  <1>3. high >= 0 /\ high <= ByteSpace - 1
    <2>1. CASE high < 0
      <3>1. ByteSpace * high <= -ByteSpace
        BY <1>2, <2>1, WordFacts, Z3
      <3> QED  BY <1>1, <1>2, <3>1, WordFacts
    <2>2. CASE high >= ByteSpace
      <3>1. ByteSpace * high >= ByteSpace * ByteSpace
        BY <1>2, <2>2, WordFacts, Z3
      <3> QED  BY <1>1, <1>2, <3>1, WordFacts
    <2> QED  BY <1>2, <2>1, <2>2, WordFacts
  <1>4. low * ByteSpace + high >= 0 /\ low * ByteSpace + high < ByteSpace * ByteSpace
    <2>1. low * ByteSpace >= 0 /\ low * ByteSpace <= (ByteSpace - 1) * ByteSpace
      BY <1>2, WordFacts, Z3
    <2>2. (ByteSpace - 1) * ByteSpace = ByteSpace * ByteSpace - ByteSpace
      BY WordFacts, Z3
    <2>3. low * ByteSpace \in Int /\ ByteSpace * ByteSpace \in Int
      BY <1>2, WordFacts, Z3
    <2> QED  BY <1>2, <1>3, <2>1, <2>2, <2>3, WordFacts
  <1>5. low * ByteSpace + high \in Int
    BY <1>2, WordFacts, Z3
  <1> QED  BY <1>4, <1>5, WordFacts DEF Swapped, Word, high, low

\* CheckSum gives a word, and GenerateHeader puts words only.
LEMMA CheckSumType ==
  ASSUME NEW n \in Int, NEW words, IpSum(words) = n
  PROVE  CheckSum(words) \in Word
  <1> DEFINE sum == Fold(n)  carry == sum \div WordSpace  total == sum + carry
             low == total % WordSpace
  <1>1. sum \in Int
    BY Division, WordFacts DEF Fold
  <1> HIDE DEF sum
  <1>2. total \in Int
    BY <1>1, Division, WordFacts
  <1> HIDE DEF total
  <1>3. low \in 0 .. WordSpace - 1
    BY <1>2, Division, WordFacts
  <1>4. CheckSum(words) = (WordSpace - 1) - low
    BY DEF CheckSum, sum, total
  <1> HIDE DEF low
  <1> QED  BY <1>3, <1>4, WordFacts DEF Word

\* The words in a header before its checksum is put.
LEMMA NumberedType ==
  ASSUME NEW words \in [1 .. 10 -> Word]
  PROVE  /\ Numbered(words) \in [1 .. 10 -> Word]
         /\ Numbered(words)[2] = 14336
         /\ Numbered(words)[6] = 0
  <1> DEFINE next == Swapped(words[3]) + 1  id == next % WordSpace
  <1>1. id \in Word
    <2>1. next \in Int
      <3>1. Swapped(words[3]) \in Word
        BY SwappedType
      <3> QED  BY <3>1, WordFacts DEF Word
    <2> HIDE DEF next
    <2> QED  BY <2>1, Division, WordFacts DEF Word
  <1> DEFINE len == Swapped(20 + 8 + 28)
  <1>2. len = 14336 /\ len \in Word
    <2>1. 56 % 256 = 56 /\ 56 \div 256 = 0 /\ 20 + 8 + 28 = 56
      OBVIOUS
    <2>2. len = 14336
      BY <2>1 DEF Swapped, ByteSpace
    <2> HIDE DEF len
    <2>3. 14336 <= WordSpace - 1
      BY DEF ByteSpace, WordSpace
    <2> QED  BY <2>2, <2>3, WordFacts DEF Word
  <1>3. Numbered(words) = [words EXCEPT ![2] = len, ![3] = Swapped(id), ![6] = 0]
    BY DEF Numbered
  <1> HIDE DEF len, next, id
  <1>4. Swapped(id) \in Word
    BY <1>1, SwappedType
  <1> QED  BY <1>2, <1>3, <1>4, WordFacts

LEMMA IpSumType ==
  ASSUME NEW words \in [1 .. 10 -> Word]
  PROVE  IpSum(words) \in Int
  <1>1. \A k \in 1 .. 10 : words[k] \in Int
    BY DEF Word
  <1> QED  BY <1>1 DEF IpSum

LEMMA GenerateHeaderType ==
  ASSUME NEW u \in UdpPacker
  PROVE  GenerateHeader(u) \in UdpPacker
  <1>1. u.iphdr_ \in [1 .. 10 -> Word] /\ u.udphdr_ \in [1 .. 4 -> Word]
    BY DEF UdpPacker
  <1> DEFINE words == Numbered(u.iphdr_)
  <1>2. words \in [1 .. 10 -> Word]
    BY <1>1, NumberedType
  <1> HIDE DEF words
  <1>3. CheckSum(words) \in Word
    BY <1>2, IpSumType, CheckSumType
  <1>4. Swapped(8 + 28) \in Word
    <2>1. 36 % 256 = 36 /\ 36 \div 256 = 0 /\ 8 + 28 = 36
      OBVIOUS
    <2> QED  BY <2>1 DEF Swapped, ByteSpace, WordSpace, Word
  <1>5. [words EXCEPT ![6] = CheckSum(words)] \in [1 .. 10 -> Word]
    BY <1>2, <1>3
  <1>6. [u.udphdr_ EXCEPT ![3] = Swapped(8 + 28), ![4] = 0] \in [1 .. 4 -> Word]
    BY <1>1, <1>4, WordFacts
  <1> QED  BY <1>5, <1>6 DEF GenerateHeader, UdpPacker, words

\* The headers UploadSession::Send writes.
LEMMA HeaderTypes ==
  ASSUME Types, NEW frame_num \in Frames
  PROVE  /\ GenerateRtpHeader(send_header_, frame_num) \in RtpHeader
         /\ GenerateHeader(udp_) \in UdpPacker
         /\ AfterSend(sc_send_) \in ScObject
         /\ frame_num * SamplesPreFrames \in Nat
  <1>1. frame_num * SamplesPreFrames \in Nat
    <2>1. frame_num \in Nat /\ SamplesPreFrames \in Nat
      BY PathAssumption
    <2> QED  BY <2>1, Z3
  <1>2. GenerateRtpHeader(send_header_, frame_num) \in RtpHeader
    <2> DEFINE step == frame_num * SamplesPreFrames
    <2>1. /\ step \in Nat /\ send_header_.sequence_num \in Nat
          /\ send_header_.timestamp \in Nat
          /\ SeqSpace \in Nat \ {0} /\ TsSpace \in Nat \ {0}
      BY <1>1, PathAssumption DEF Types, RtpHeader
    <2> HIDE DEF step
    <2>2. /\ (send_header_.sequence_num + 1) % SeqSpace \in 0 .. SeqSpace - 1
          /\ (send_header_.timestamp + step) % TsSpace \in 0 .. TsSpace - 1
      BY <2>1
    <2> QED  BY <2>2 DEF GenerateRtpHeader, RtpHeader, step
  <1>3. GenerateHeader(udp_) \in UdpPacker
    BY GenerateHeaderType DEF Types
  <1>4. AfterSend(sc_send_) \in ScObject
    <2>1. (sc_send_.send_header_.sn + 1) % SnSpace \in 0 .. SnSpace - 1
      BY ScAssumption DEF Types, ScObject, Header
    <2> QED  BY <2>1 DEF AfterSend, Types, ScObject, Header
  <1> QED  BY <1>1, <1>2, <1>3, <1>4

LEMMA TakeScType ==
  ASSUME Types, NEW d \in Datagram, TakeSc(d)
  PROVE  sc_recv_' \in ScObject
  BY DEF Types, TakeSc, AfterRecv, ScObject, Datagram

\* The datagram of a call of Send is a new one.
LEMMA SendFacts ==
  ASSUME Types, NEW frame_num \in Frames, UploadSend(frame_num)
  PROVE  \E p \in Packet :
           /\ p = [rtp |-> send_header_, udp |-> udp_', sc |-> sc_send_'.send_header_,
                   media |-> Cardinality(net) + 1, at |-> samples]
           /\ net' = net \cup {p} /\ p \notin net
           /\ IsFiniteSet(net') /\ Cardinality(net') = Cardinality(net) + 1
           /\ Cardinality(net) \in Nat /\ Cardinality(net) < MaxSends
           /\ udp_' \in UdpPacker /\ sc_send_' \in ScObject
           /\ send_header_' \in RtpHeader /\ samples' \in Nat
  <1> DEFINE p == [rtp |-> send_header_, udp |-> udp_', sc |-> sc_send_'.send_header_,
                   media |-> Cardinality(net) + 1, at |-> samples]
  <1>1. /\ udp_' \in UdpPacker /\ sc_send_' \in ScObject
        /\ send_header_' \in RtpHeader /\ samples' \in Nat
    BY HeaderTypes DEF UploadSend, Types
  <1>2. Cardinality(net) \in Nat /\ IsFiniteSet(net)
    BY PathAssumption DEF Types
  <1>3. p \in Packet
    BY <1>1, <1>2 DEF Packet, Types, ScObject
  <1>4. p \notin net
    <2>1. p.media = Cardinality(net) + 1
      OBVIOUS
    <2> HIDE DEF p
    <2> QED  BY <1>2, <2>1 DEF Types
  <1>5. net' = net \cup {p} /\ Cardinality(net) < MaxSends
    BY DEF UploadSend
  <1> HIDE DEF p
  <1>6. IsFiniteSet(net') /\ Cardinality(net') = Cardinality(net) + 1
    BY <1>2, <1>4, <1>5, FS_AddElement
  <1> QED  BY <1>1, <1>2, <1>3, <1>4, <1>5, <1>6 DEF p

LEMMA NextTypes ==
  ASSUME Types, [Next]_vars
  PROVE  Types'
  <1>1. ASSUME NEW frame_num \in Frames, UploadSend(frame_num) PROVE Types'
    <2>1. PICK p \in Packet :
            /\ p = [rtp |-> send_header_, udp |-> udp_', sc |-> sc_send_'.send_header_,
                    media |-> Cardinality(net) + 1, at |-> samples]
            /\ net' = net \cup {p} /\ p \notin net
            /\ IsFiniteSet(net') /\ Cardinality(net') = Cardinality(net) + 1
            /\ Cardinality(net) \in Nat /\ Cardinality(net) < MaxSends
            /\ udp_' \in UdpPacker /\ sc_send_' \in ScObject
            /\ send_header_' \in RtpHeader /\ samples' \in Nat
      BY <1>1, SendFacts
    <2>2. \A q \in net' : q.media \in 1 .. Cardinality(net')
      <3>1. p.media = Cardinality(net) + 1
        BY <2>1
      <3> QED  BY <2>1, <3>1 DEF Types
    <2>3. Cardinality(net') \in 0 .. MaxSends
      BY <2>1, PathAssumption
    <2>4. UNCHANGED <<param_, sc_recv_, decoded, refused>> /\ net' \subseteq Packet
      BY <1>1, <2>1 DEF UploadSend, receiver, Types
    <2> QED  BY <2>1, <2>2, <2>3, <2>4 DEF Types
  <1>2. ASSUME NEW p \in net, Arrives(p) PROVE Types'
    <2> DEFINE d == [shape |-> "whole", header |-> p.sc]
    <2>1. d \in Datagram
      BY DEF Types, Packet, Datagram, Shapes
    <2>2. TakeSc(d) /\ UNCHANGED <<param_, sender>>
      BY <1>2 DEF Arrives
    <2>3. sc_recv_' \in ScObject
      BY <2>1, <2>2, TakeScType
    <2>4. Len(decoded) \in Nat /\ refused \in Nat /\ Len(decoded) + refused < MaxRecvs
      BY <1>2, LenProperties DEF Arrives, Types
    <2>5. /\ decoded' \in Seq(0 .. MaxSends) /\ refused' \in Nat
          /\ Len(decoded') + refused' <= MaxRecvs
      <3>1. (IF Aligned(p) THEN p.media ELSE Garbage) \in 0 .. MaxSends
        BY PathAssumption DEF Types, Garbage
      <3>2. CASE /\ decoded' = Append(decoded, IF Aligned(p) THEN p.media ELSE Garbage)
                 /\ refused' = refused
        BY <2>4, <3>1, <3>2, AppendProperties, PathAssumption DEF Types
      <3>3. CASE decoded' = decoded /\ refused' \in {refused, refused + 1}
        BY <2>4, <3>3, PathAssumption DEF Types
      <3> QED  BY <1>2, <3>2, <3>3 DEF Arrives, Decodes
    <2> QED  BY <2>2, <2>3, <2>5 DEF Types, sender
  <1>3. CASE StrayArrives
    <2>1. sc_recv_' \in ScObject
      BY <1>3, TakeScType DEF StrayArrives
    <2> QED  BY <1>3, <2>1 DEF StrayArrives, Types, sender
  <1>4. CASE UNCHANGED vars
    BY <1>4 DEF Types, vars, sender, receiver
  <1> QED  BY <1>1, <1>2, <1>3, <1>4 DEF Next, UploadSendFails

\* Every variable keeps the types the other proofs start from.
THEOREM PathTypes == Spec => []Types
  BY InitTypes, NextTypes, PTL DEF Spec

\* Every variable has its type: no more datagrams than were sent are decoded.
THEOREM PathTypeOK == Spec => []TypeOK
  <1>1. Types => TypeOK
    BY LenProperties, PathAssumption DEF Types, TypeOK, RtpHeader, ScObject
  <1> QED  BY <1>1, PathTypes, PTL

----------------------------------------------------------------------------
(***************************************************************************)
(* The media clock.  Each packet is behind rtp_ by the packets and samples *)
(* sent since, up to a multiple of the number space.                       *)
(***************************************************************************)
Behind(space, a, b, n) == \E k \in Int : a - b = n + space * k

Clock ==
  \A p \in net :
    /\ Behind(SeqSpace, send_header_.sequence_num, p.rtp.sequence_num,
              Cardinality(net) + 1 - p.media)
    /\ Behind(TsSpace, send_header_.timestamp, p.rtp.timestamp, samples - p.at)

\* A counter that wraps moves on, and the distance grows as much.
LEMMA Advance ==
  ASSUME NEW space \in Nat \ {0}, NEW a \in Int, NEW b \in Int, NEW n \in Int,
         NEW c \in Int, NEW m \in Int,
         Behind(space, a, b, n), c = (a + (m - n)) % space
  PROVE  Behind(space, c, b, m)
  <1>1. PICK k \in Int : a - b = n + space * k
    BY DEF Behind
  <1> DEFINE sum == a + (m - n)  q == sum \div space  j == k - q
  <1>2. sum \in Int
    OBVIOUS
  <1> HIDE DEF sum
  <1>3. sum = space * q + c /\ q \in Int
    BY <1>2, Division DEF sum
  <1> HIDE DEF q
  <1>4. j \in Int /\ c - b = m + space * j
    <2> DEFINE x == space * k  y == space * q
    <2>1. x \in Int /\ y \in Int /\ space * (k - q) = x - y
      BY <1>3, Z3
    <2>2. a - b = n + x /\ a + (m - n) = y + c
      BY <1>1, <1>3 DEF sum
    <2> HIDE DEF x, y
    <2>3. c - b = m + (x - y)
      BY <2>1, <2>2
    <2> QED  BY <1>3, <2>1, <2>3
  <1> HIDE DEF j
  <1> QED  BY <1>4 DEF Behind

\* Two counters behind a third are as far apart as the distances say.
LEMMA Apart ==
  ASSUME NEW space \in Nat \ {0}, NEW a \in Int,
         NEW b \in Int, NEW c \in Int, NEW m \in Int, NEW n \in Int,
         Behind(space, a, b, m), Behind(space, a, c, n)
  PROVE  (b - c) % space = (n - m) % space
  <1>1. PICK i \in Int : a - b = m + space * i
    BY DEF Behind
  <1>2. PICK j \in Int : a - c = n + space * j
    BY DEF Behind
  <1> DEFINE k == j - i  x == b - c  y == n - m
  <1>3. k \in Int /\ x \in Int /\ y \in Int /\ x = y + space * k
    BY <1>1, <1>2, Z3
  <1> HIDE DEF k, x, y
  <1>4. x % space = y % space
    BY <1>3, SameRemainder
  <1> QED  BY <1>4 DEF x, y

LEMMA NextClock ==
  ASSUME Types, Clock, [Next]_vars
  PROVE  Clock'
  <1>1. ASSUME NEW frame_num \in Frames, UploadSend(frame_num) PROVE Clock'
    <2> DEFINE step == frame_num * SamplesPreFrames
    <2>0. /\ step \in Nat /\ SeqSpace \in Nat \ {0} /\ TsSpace \in Nat \ {0}
          /\ send_header_.sequence_num \in Nat /\ send_header_.timestamp \in Nat
          /\ samples \in Nat
      BY HeaderTypes, PathAssumption DEF Types, RtpHeader
    <2>1. /\ send_header_'.sequence_num = (send_header_.sequence_num + 1) % SeqSpace
          /\ send_header_'.timestamp = (send_header_.timestamp + step) % TsSpace
          /\ samples' = samples + step
      BY <1>1 DEF UploadSend, GenerateRtpHeader
    <2> HIDE DEF step
    <2>2. PICK new \in Packet :
            /\ new = [rtp |-> send_header_, udp |-> udp_', sc |-> sc_send_'.send_header_,
                      media |-> Cardinality(net) + 1, at |-> samples]
            /\ net' = net \cup {new}
            /\ Cardinality(net') = Cardinality(net) + 1
            /\ Cardinality(net) \in Nat
            /\ send_header_' \in RtpHeader
      BY <1>1, SendFacts
    <2>3. SUFFICES ASSUME NEW p \in net'
                   PROVE  /\ Behind(SeqSpace, send_header_'.sequence_num,
                                    p.rtp.sequence_num, Cardinality(net') + 1 - p.media)
                          /\ Behind(TsSpace, send_header_'.timestamp,
                                    p.rtp.timestamp, samples' - p.at)
      BY DEF Clock
    <2>4. /\ p.rtp.sequence_num \in Int /\ p.rtp.timestamp \in Int
          /\ p.media \in Int /\ p.at \in Int
          /\ send_header_'.sequence_num \in Int /\ send_header_'.timestamp \in Int
      BY <2>2 DEF Types, Packet, RtpHeader
    <2>5. /\ Behind(SeqSpace, send_header_.sequence_num, p.rtp.sequence_num,
                    Cardinality(net) + 1 - p.media)
          /\ Behind(TsSpace, send_header_.timestamp, p.rtp.timestamp, samples - p.at)
      <3>1. CASE p \in net
        BY <3>1 DEF Clock
      <3>2. CASE p = new
        <4>1. /\ send_header_.sequence_num - p.rtp.sequence_num
                   = (Cardinality(net) + 1 - p.media) + SeqSpace * 0
              /\ send_header_.timestamp - p.rtp.timestamp = (samples - p.at) + TsSpace * 0
          BY <2>0, <2>2, <3>2
        <4> QED  BY <4>1 DEF Behind
      <3> QED  BY <2>2, <3>1, <3>2
    <2>6. Behind(SeqSpace, send_header_'.sequence_num, p.rtp.sequence_num,
                 Cardinality(net') + 1 - p.media)
      <3> DEFINE n == Cardinality(net) + 1 - p.media  m == Cardinality(net') + 1 - p.media
      <3>1. n \in Int /\ m \in Int /\ m - n = 1
        BY <2>2, <2>4
      <3>2. Behind(SeqSpace, send_header_.sequence_num, p.rtp.sequence_num, n)
        BY <2>5
      <3> HIDE DEF n, m
      <3>3. Behind(SeqSpace, send_header_'.sequence_num, p.rtp.sequence_num, m)
        BY <2>0, <2>1, <2>4, <3>1, <3>2, Advance
      <3> QED  BY <3>3 DEF m
    <2>7. Behind(TsSpace, send_header_'.timestamp, p.rtp.timestamp, samples' - p.at)
      <3> DEFINE n == samples - p.at  m == samples' - p.at
      <3>1. n \in Int /\ m \in Int /\ m - n = step
        BY <2>0, <2>1, <2>4
      <3>2. Behind(TsSpace, send_header_.timestamp, p.rtp.timestamp, n)
        BY <2>5
      <3> HIDE DEF n, m
      <3>3. Behind(TsSpace, send_header_'.timestamp, p.rtp.timestamp, m)
        BY <2>0, <2>1, <2>4, <3>1, <3>2, Advance
      <3> QED  BY <3>3 DEF m
    <2> QED  BY <2>6, <2>7
  <1>2. CASE UNCHANGED <<net, send_header_, samples>>
    BY <1>2 DEF Clock
  <1> QED
    BY <1>1, <1>2 DEF Next, UploadSendFails, Arrives, StrayArrives, sender, vars

\* Sequence numbers and timestamps of any two packets are as far apart as the
\* packets and their samples (rtp.cpp:44-48).
THEOREM PathMediaClock == Spec => []MediaClock
  <1>1. Init => Clock
    BY DEF Init, Clock
  <1>2. Types /\ Clock /\ [Next]_vars => Clock'
    BY NextClock
  <1>3. Types /\ Clock => MediaClock
    <2> SUFFICES ASSUME Types, Clock, NEW p \in net, NEW q \in net
                 PROVE  /\ (p.rtp.sequence_num - q.rtp.sequence_num) % SeqSpace
                             = (p.media - q.media) % SeqSpace
                        /\ (p.rtp.timestamp - q.rtp.timestamp) % TsSpace
                             = (p.at - q.at) % TsSpace
      BY DEF MediaClock
    <2>1. \A x \in {p, q} :
            /\ x.rtp.sequence_num \in Int /\ x.rtp.timestamp \in Int
            /\ x.media \in Int /\ x.at \in Int
      BY DEF Types, Packet, RtpHeader
    <2>2. /\ SeqSpace \in Nat \ {0} /\ TsSpace \in Nat \ {0} /\ samples \in Int
          /\ send_header_.sequence_num \in Int /\ send_header_.timestamp \in Int
          /\ Cardinality(net) \in Int
      BY PathAssumption DEF Types, RtpHeader
    <2>3. (p.rtp.sequence_num - q.rtp.sequence_num) % SeqSpace
            = (p.media - q.media) % SeqSpace
      <3> DEFINE m == Cardinality(net) + 1 - p.media  n == Cardinality(net) + 1 - q.media
      <3>1. /\ Behind(SeqSpace, send_header_.sequence_num, p.rtp.sequence_num, m)
            /\ Behind(SeqSpace, send_header_.sequence_num, q.rtp.sequence_num, n)
        BY DEF Clock
      <3>2. m \in Int /\ n \in Int /\ n - m = p.media - q.media
        BY <2>1, <2>2
      <3> HIDE DEF m, n
      <3>3. (p.rtp.sequence_num - q.rtp.sequence_num) % SeqSpace = (n - m) % SeqSpace
        BY <2>1, <2>2, <3>1, <3>2, Apart
      <3> QED  BY <3>2, <3>3
    <2>4. (p.rtp.timestamp - q.rtp.timestamp) % TsSpace = (p.at - q.at) % TsSpace
      <3> DEFINE m == samples - p.at  n == samples - q.at
      <3>1. /\ Behind(TsSpace, send_header_.timestamp, p.rtp.timestamp, m)
            /\ Behind(TsSpace, send_header_.timestamp, q.rtp.timestamp, n)
        BY DEF Clock
      <3>2. m \in Int /\ n \in Int /\ n - m = p.at - q.at
        BY <2>1, <2>2
      <3> HIDE DEF m, n
      <3>3. (p.rtp.timestamp - q.rtp.timestamp) % TsSpace = (n - m) % TsSpace
        BY <2>1, <2>2, <3>1, <3>2, Apart
      <3> QED  BY <3>2, <3>3
    <2> QED  BY <2>3, <2>4
  <1> QED  BY <1>1, <1>2, <1>3, PathTypes, PTL DEF Spec

----------------------------------------------------------------------------
(***************************************************************************)
(* SC accepts all of the peer's packets or none: they have one direction,  *)
(* and sc_recv_ keeps one.                                                 *)
(***************************************************************************)
Link ==
  /\ \A p \in net : p.sc.forward = sc_send_.send_header_.forward
  /\ refused # 0 => /\ param_.if_send_sc
                    /\ ~sc_recv_.first_pack_
                    /\ sc_recv_.recv_header_.forward # sc_send_.send_header_.forward
  /\ decoded # <<>> /\ param_.if_send_sc =>
       /\ ~sc_recv_.first_pack_
       /\ sc_recv_.recv_header_.forward = sc_send_.send_header_.forward

LEMMA NextLink ==
  ASSUME Types, Link, [Next]_vars
  PROVE  Link'
  <1>1. ASSUME NEW frame_num \in Frames, UploadSend(frame_num) PROVE Link'
    <2>1. sc_send_'.send_header_.forward = sc_send_.send_header_.forward
      BY <1>1 DEF UploadSend, AfterSend, Types, ScObject, Header, Link
    <2>2. \A p \in net' : p.sc.forward = sc_send_.send_header_.forward
      BY <1>1, <2>1 DEF UploadSend, Link
    <2> QED  BY <1>1, <2>1, <2>2 DEF UploadSend, receiver, Link
  <1>2. ASSUME NEW p \in net, Arrives(p) PROVE Link'
    <2> DEFINE d == [shape |-> "whole", header |-> p.sc]
    <2>1. /\ TakeSc(d) /\ UNCHANGED <<param_, sender>>
          /\ IF Passes(d) THEN UNCHANGED refused
                          ELSE refused' = refused + 1 /\ UNCHANGED decoded
      BY <1>2 DEF Arrives, Decodes
    <2> DEFINE own == sc_send_.send_header_.forward
    <2>2. p.sc.forward = own /\ sc_send_' = sc_send_ /\ d.header = p.sc /\ d.shape = "whole"
      BY <2>1 DEF Link, sender
    <2>a. /\ refused # 0 => /\ param_.if_send_sc
                            /\ ~sc_recv_.first_pack_
                            /\ sc_recv_.recv_header_.forward # own
          /\ decoded # <<>> /\ param_.if_send_sc =>
               /\ ~sc_recv_.first_pack_
               /\ sc_recv_.recv_header_.forward = own
      BY DEF Link
    <2> HIDE DEF d
    <2>3. CASE ~param_.if_send_sc
      <3>1. UNCHANGED <<sc_recv_, refused>>
        BY <2>1, <2>3 DEF TakeSc, Passes
      <3> QED  BY <2>1, <2>3, <3>1 DEF Link, sender
    <2>4. CASE param_.if_send_sc /\ sc_recv_.first_pack_
      <3>1. sc_recv_'.first_pack_ = FALSE /\ sc_recv_'.recv_header_.forward = own
        BY <2>1, <2>2, <2>4 DEF TakeSc, AfterRecv, Types, ScObject
      <3>2. refused = 0 /\ refused' = refused
        BY <2>1, <2>2, <2>4 DEF Passes, Rejects, Link
      <3> QED  BY <2>1, <3>1, <3>2 DEF Link, sender
    <2>5. CASE param_.if_send_sc /\ ~sc_recv_.first_pack_
      <3>1. sc_recv_' = sc_recv_
        BY <2>1, <2>5 DEF TakeSc, AfterRecv
      <3>2. CASE sc_recv_.recv_header_.forward = own
        <4>1. refused' = refused
          BY <2>1, <2>2, <2>5, <3>2 DEF Passes, Rejects
        <4> QED  BY <2>1, <2>5, <3>1, <3>2, <4>1 DEF Link, sender
      <3>3. CASE sc_recv_.recv_header_.forward # own
        <4>1. decoded' = decoded
          BY <2>1, <2>2, <2>5, <3>3 DEF Passes, Rejects
        <4> QED  BY <2>1, <2>5, <3>1, <3>3, <4>1 DEF Link, sender
      <3> QED  BY <3>2, <3>3
    <2> QED  BY <2>3, <2>4, <2>5
  <1>3. CASE StrayArrives
    <2>1. /\ UNCHANGED <<param_, sender, decoded, refused>>
          /\ ~sc_recv_.first_pack_ => sc_recv_' = sc_recv_
      BY <1>3 DEF StrayArrives, TakeSc, AfterRecv
    <2>2. sc_recv_.first_pack_ => refused = 0 /\ (param_.if_send_sc => decoded = <<>>)
      BY DEF Link
    <2> QED  BY <2>1, <2>2 DEF Link, sender
  <1>4. CASE UNCHANGED vars
    BY <1>4 DEF Link, vars, sender, receiver
  <1> QED  BY <1>1, <1>2, <1>3, <1>4 DEF Next, UploadSendFails

\* When one packet of the peer got past SC, none was refused and none will
\* be, whatever sc_recv_ held at first (sc.cpp:55-65).
THEOREM PathAllOrNone == Spec => []AllOrNone
  <1>1. Init => Link
    BY DEF Init, Link, Fresh
  <1>2. Types /\ Link /\ [Next]_vars => Link'
    BY NextLink
  <1>3. Link => AllOrNone
    BY DEF Link, AllOrNone
  <1> QED  BY <1>1, <1>2, <1>3, PathTypes, PTL DEF Spec

----------------------------------------------------------------------------
(***************************************************************************)
(* IP checksums.  Let the ten words, the checksum still 0, add up to       *)
(* a * 2^16 + b; a is at most 9.  The folded sum a + b has at most one     *)
(* carry, and a + b + carry is not folded again but cut to 16 bits: its    *)
(* complement makes the whole sum (a + 1) * (2^16 - 1) without a carry and *)
(* (a + 2) * (2^16 - 1) with one.                                          *)
(***************************************************************************)
LEMMA ComplementVerifies ==
  ASSUME NEW words, NEW n \in Nat, IpSum(words) = n,
         n >= 1, n <= 10 * (WordSpace - 1)
  PROVE  (n + CheckSum(words)) % (WordSpace - 1) = 0
  <1> DEFINE a == n \div WordSpace  b == n % WordSpace  sum == a + b
             carry == sum \div WordSpace  m == n + CheckSum(words)
             space == WordSpace - 1
  <1>1. n = WordSpace * a + b /\ a \in Int /\ b \in 0 .. WordSpace - 1
    <2>1. n \in Int
      OBVIOUS
    <2> QED  BY <2>1, Division, WordFacts
  <1>2. CheckSum(words) = (WordSpace - 1) - ((sum + carry) % WordSpace)
    BY DEF CheckSum, Fold
  <1> HIDE DEF a, b
  <1>3. a \in 0 .. 9
    <2>1. CASE a < 0
      <3>1. WordSpace * a <= -WordSpace
        BY <1>1, <2>1, WordFacts, Z3
      <3> QED  BY <1>1, <3>1, WordFacts
    <2>2. CASE a > 9
      <3>1. WordSpace * a >= 10 * WordSpace
        BY <1>1, <2>2, WordFacts, Z3
      <3> QED  BY <1>1, <3>1, WordFacts
    <2> QED  BY <1>1, <2>1, <2>2
  <1>4. sum \in Int /\ sum >= 0 /\ sum <= WordSpace + 8
    BY <1>1, <1>3, WordFacts
  <1> HIDE DEF sum
  <1>5. \E k \in Int : m = space * k + 0
    <2>1. CASE sum < WordSpace
      <3>1. WordSpace * 0 + sum = sum /\ sum \in 0 .. WordSpace - 1 /\ 0 \in Int
        BY <1>4, <2>1, WordFacts
      <3>2. (WordSpace * 0 + sum) \div WordSpace = 0 /\ (WordSpace * 0 + sum) % WordSpace = sum
        BY <3>1, Remainder, WordFacts
      <3>3. carry = 0 /\ sum % WordSpace = sum /\ sum + 0 = sum
        BY <1>4, <3>1, <3>2
      <3> HIDE DEF carry
      <3>4. m = n + ((WordSpace - 1) - sum)
        BY <1>2, <3>3
      <3> HIDE DEF m
      <3>5. m = space * (a + 1) + 0
        <4>1. space * (a + 1) = WordSpace * a + WordSpace - a - 1
          BY <1>3, WordFacts, Z3
        <4>2. WordSpace * a \in Int
          BY <1>1, WordFacts, Z3
        <4> HIDE DEF space
        <4> QED  BY <1>1, <3>4, <4>1, <4>2, WordFacts DEF sum
      <3> QED  BY <1>1, <3>5
    <2>2. CASE sum >= WordSpace
      <3> DEFINE low == sum - WordSpace
      <3>1. /\ WordSpace * 1 + low = sum /\ low \in 0 .. WordSpace - 1 /\ 1 \in Int
            /\ WordSpace * 1 + (low + 1) = sum + 1 /\ low + 1 \in 0 .. WordSpace - 1
        BY <1>4, <2>2, WordFacts
      <3> HIDE DEF low
      <3>2. (WordSpace * 1 + low) \div WordSpace = 1
        BY <3>1, Remainder, WordFacts
      <3>3. (WordSpace * 1 + (low + 1)) % WordSpace = low + 1
        BY <3>1, Remainder, WordFacts
      <3>4. carry = 1 /\ (sum + 1) % WordSpace = low + 1
        BY <3>1, <3>2, <3>3
      <3> HIDE DEF carry
      <3>5. m = n + ((WordSpace - 1) - (low + 1))
        BY <1>2, <3>4
      <3> HIDE DEF m
      <3>6. m = space * (a + 2) + 0
        <4>1. space * (a + 2) = WordSpace * a + 2 * WordSpace - a - 2
          BY <1>3, WordFacts, Z3
        <4>2. WordSpace * a \in Int
          BY <1>1, WordFacts, Z3
        <4> HIDE DEF space
        <4> QED  BY <1>1, <3>5, <4>1, <4>2, WordFacts DEF sum, low
      <3> QED  BY <1>1, <3>6
    <2> QED  BY <1>4, <2>1, <2>2, WordFacts
  <1>6. PICK k \in Int : m = space * k + 0
    BY <1>5
  <1>7. space \in Nat \ {0} /\ 0 \in 0 .. space - 1
    BY WordFacts
  <1>8. (space * k + 0) % space = 0
    BY <1>7, Remainder
  <1> HIDE DEF space
  <1>9. m % space = 0
    BY <1>6, <1>8
  <1> QED  BY <1>9 DEF m, space

\* The header that is generated verifies, whatever was there before.
LEMMA HeaderVerifies ==
  ASSUME NEW u \in UdpPacker
  PROVE  /\ IpSum(GenerateHeader(u).iphdr_) # 0
         /\ IpSum(GenerateHeader(u).iphdr_) % (WordSpace - 1) = 0
  <1> DEFINE words == Numbered(u.iphdr_)  n == IpSum(words)  check == CheckSum(words)
             sent == [words EXCEPT ![6] = check]
  <1>1. words \in [1 .. 10 -> Word] /\ words[2] = 14336 /\ words[6] = 0
    BY NumberedType DEF UdpPacker
  <1> HIDE DEF words
  <1>2. \A k \in 1 .. 10 : words[k] \in Int /\ words[k] >= 0 /\ words[k] <= WordSpace - 1
    BY <1>1, WordFacts DEF Word
  <1>3. n \in Nat /\ n >= 1 /\ n <= 10 * (WordSpace - 1)
    BY <1>1, <1>2, WordFacts DEF IpSum
  <1>4. check \in Word
    BY <1>3, CheckSumType
  <1>5. (n + check) % (WordSpace - 1) = 0
    BY <1>3, ComplementVerifies
  <1> HIDE DEF check
  <1>6. IpSum(sent) = n + check
    <2>1. /\ sent[6] = check
          /\ \A k \in 1 .. 10 : k # 6 => sent[k] = words[k]
      BY <1>1
    <2>2. check \in Int
      BY <1>4 DEF Word
    <2> HIDE DEF sent
    <2> QED  BY <1>1, <1>2, <2>1, <2>2 DEF IpSum
  <1>7. n + check # 0
    BY <1>3, <1>4 DEF Word
  <1>8. GenerateHeader(u).iphdr_ = sent
    BY DEF GenerateHeader, sent, words, check
  <1> HIDE DEF sent, n
  <1> QED  BY <1>5, <1>6, <1>7, <1>8

\* Every IP header on the wire verifies, from the first on and whatever the
\* ten words of udp_ held (udp_packer.cpp:60-62, 78-98).
THEOREM PathIpSumVerifies == Spec => []IpSumVerifies
  <1>1. Init => IpSumVerifies
    BY DEF Init, IpSumVerifies
  <1>2. ASSUME Types, IpSumVerifies, [Next]_vars
        PROVE  IpSumVerifies'
    <2>1. ASSUME NEW frame_num \in Frames, UploadSend(frame_num)
          PROVE  IpSumVerifies'
      <3> SUFFICES ASSUME param_.if_add_udpip, NEW p \in net'
                   PROVE  /\ IpSum(p.udp.iphdr_) # 0
                          /\ IpSum(p.udp.iphdr_) % (WordSpace - 1) = 0
        BY <2>1 DEF UploadSend, IpSumVerifies
      <3>1. CASE p \in net
        BY <1>2, <3>1 DEF IpSumVerifies
      <3>2. CASE p \notin net
        <4>1. p.udp = GenerateHeader(udp_)
          BY <2>1, <3>2 DEF UploadSend
        <4>2. udp_ \in UdpPacker
          BY <1>2 DEF Types
        <4> QED  BY <4>1, <4>2, HeaderVerifies
      <3> QED  BY <3>1, <3>2
    <2>2. CASE UNCHANGED <<param_, net>>
      BY <1>2, <2>2 DEF IpSumVerifies
    <2> QED
      BY <1>2, <2>1, <2>2
         DEF Next, UploadSendFails, Arrives, StrayArrives, sender, vars
  <1> QED  BY <1>1, <1>2, PathTypes, PTL DEF Spec
===============================================================================
