------------------------------- MODULE MediaPath -------------------------------
(***************************************************************************)
(* Media from one gateway to the next: UploadSession::Send puts RTP,       *)
(* UDP/IP and SC headers before the encoded media (session.cpp:102-159),   *)
(* DownloadSession::Recv of the other gateway takes them off again         *)
(* (session.cpp:307-358).  Both have the same if_send_sc, if_add_udpip.    *)
(*                                                                         *)
(* A datagram is the record of its headers, and which media it carries.    *)
(* The network loses, repeats and reorders datagrams.                      *)
(***************************************************************************)
EXTENDS SC, FiniteSets, Sequences

CONSTANTS SeqSpace,          \* 2^16: RTP sequence numbers
          TsSpace,           \* 2^32: RTP timestamps
          SamplesPreFrames,  \* param_.samples_pre_frames
          Frames,            \* frame_num: frames of one call of Send
          MaxSends, MaxRecvs \* bounds: datagrams of the peer; calls of Recv

ASSUME PathAssumption ==
  /\ SeqSpace \in Nat \ {0} /\ TsSpace \in Nat \ {0}
  /\ SamplesPreFrames \in Nat /\ Frames \subseteq Nat
  /\ MaxSends \in Nat /\ MaxRecvs \in Nat

VARIABLES
  param_,        \* if_send_sc, if_add_udpip
  send_header_,  \* of rtp_: sequence_num and timestamp
  udp_,          \* iphdr_ and udphdr_, each as its 16-bit words
  sc_send_,      \* of the UploadSession
  net,           \* datagrams on the wire; they stay, so may arrive again
  sc_recv_,      \* of the DownloadSession
  samples,       \* history: samples sent so far
  decoded,       \* history: what the decoder was given: media, or Garbage
  refused        \* history: the peer's datagrams that SC::Recv refused

sender == <<send_header_, udp_, sc_send_, net, samples>>
receiver == <<sc_recv_, decoded, refused>>
vars == <<param_, sender, receiver>>

ByteSpace == 256
WordSpace == ByteSpace * ByteSpace
Word == 0 .. WordSpace - 1
WholeIpHeader == 5      \* ip_hl of a header of 20 bytes
Garbage == 0            \* media are numbered from 1

(***************************************************************************)
(* The words of the two headers as a little endian machine reads them.     *)
(* iphdr_: 1 has ip_hl, ip_v and ip_tos, 2 is ip_len, 3 ip_id, 4 ip_off,   *)
(* 5 has ip_ttl and ip_p, 6 is ip_sum, 7 to 10 are the addresses.          *)
(* udphdr_: uh_sport, uh_dport, uh_ulen, uh_sum.                           *)
(***************************************************************************)
UdpPacker == [iphdr_ : [1 .. 10 -> Word], udphdr_ : [1 .. 4 -> Word]]
ip_hl(u) == u.iphdr_[1] % 16

(***************************************************************************)
(* The sessions start.  rtp_ was set up, its numbers at random.  UnPak     *)
(* gives sc_send_ the UE and the number of the first packet it received,   *)
(* and where it was not called sc_send_ was never set up.  Nobody calls    *)
(* SetIpPort on udp_, nor Init on the sc_recv_ of a DownloadSession: these *)
(* hold whatever the memory held.                                          *)
(***************************************************************************)
Init ==
  /\ param_ \in [if_send_sc : BOOLEAN, if_add_udpip : BOOLEAN]
  /\ send_header_ \in [sequence_num : 0 .. SeqSpace - 1, timestamp : 0 .. TsSpace - 1]
  /\ udp_ \in UdpPacker
  /\ \E ueid \in Ueids \cup {0}, forward \in Forward, sn \in 0 .. SnSpace - 1 :
       sc_send_ = Fresh(ueid, forward, sn)
  /\ net = {}
  /\ \E first \in BOOLEAN, forward \in Forward :
       sc_recv_ = [Fresh(0, "To4G", 0) EXCEPT !.first_pack_ = first,
                                              !.recv_header_.forward = forward]
  /\ samples = 0
  /\ decoded = <<>>
  /\ refused = 0

----------------------------------------------------------------------------
(***************************************************************************)
(* CheckSum over the ten words of an IP header: they are added as          *)
(* integers, the carries folded back, a carry of that once more, and the   *)
(* low 16 bits complemented.                                               *)
(***************************************************************************)
IpSum(words) == words[1] + words[2] + words[3] + words[4] + words[5]
                + words[6] + words[7] + words[8] + words[9] + words[10]
Fold(sum) == (sum \div WordSpace) + (sum % WordSpace)

\* A wrong CheckSum: the carry of the folded sum is forgotten.
CheckSumOneFold(words) == (WordSpace - 1) - (Fold(IpSum(words)) % WordSpace)

CheckSum(words) ==
  LET sum == Fold(IpSum(words))
  IN  (WordSpace - 1) - ((sum + (sum \div WordSpace)) % WordSpace)

\* htons, which is ntohs
Swapped(word) == ((word % ByteSpace) * ByteSpace) + (word \div ByteSpace)

\* UdpPacker::GenerateHeader, with the pack_len of 28 that Send gives it
Numbered(words) ==
  [words EXCEPT ![2] = Swapped(20 + 8 + 28),
                ![3] = Swapped((Swapped(words[3]) + 1) % WordSpace),
                ![6] = 0]
GenerateHeader(u) ==
  [iphdr_ |-> [Numbered(u.iphdr_) EXCEPT ![6] = CheckSum(Numbered(u.iphdr_))],
   udphdr_ |-> [u.udphdr_ EXCEPT ![3] = Swapped(8 + 28), ![4] = 0]]

\* A wrong GenerateRtpHeader: the clock advances by one frame always.
GenerateRtpHeaderOneFrame(h, frame_num) ==
  [sequence_num |-> (h.sequence_num + 1) % SeqSpace,
   timestamp |-> (h.timestamp + SamplesPreFrames) % TsSpace]

\* RtpSession::GenerateRtpHeader: what the next packet will have
GenerateRtpHeader(h, frame_num) ==
  [sequence_num |-> (h.sequence_num + 1) % SeqSpace,
   timestamp |-> (h.timestamp + frame_num * SamplesPreFrames) % TsSpace]

\* The datagram: RTP has the numbers from before, IP and SC those from after.
\* A header that is not configured stays as it was, and is not sent.
UploadSend(frame_num) ==
  /\ Cardinality(net) < MaxSends
  /\ send_header_' = GenerateRtpHeader(send_header_, frame_num)
  /\ udp_' = IF param_.if_add_udpip THEN GenerateHeader(udp_) ELSE udp_
  /\ sc_send_' = IF param_.if_send_sc THEN AfterSend(sc_send_) ELSE sc_send_
  /\ net' = net \cup {[rtp |-> send_header_, udp |-> udp_',
                       sc |-> sc_send_'.send_header_,
                       media |-> Cardinality(net) + 1, at |-> samples]}
  /\ samples' = samples + frame_num * SamplesPreFrames
  /\ UNCHANGED <<param_, receiver>>

\* The decoder or the encoder refuses the frames: no header was touched.
UploadSendFails == UNCHANGED vars

----------------------------------------------------------------------------
(***************************************************************************)
(* DownloadSession::Recv.                                                  *)
(***************************************************************************)
\* SC::Recv, and an early return when it refuses the datagram d.
Passes(d) == param_.if_send_sc => ~Rejects(sc_recv_, d)
TakeSc(d) == sc_recv_' = IF param_.if_send_sc THEN AfterRecv(sc_recv_, d) ELSE sc_recv_

\* UdpParser believes ip_hl: RTP and media are found where they are, or the
\* rest of Recv reads at a wrong place.
Aligned(p) == param_.if_add_udpip => ip_hl(p.udp) = WholeIpHeader

\* DecodeRtpHeader takes a word for the first of an RTP header: version 2, no
\* extension, no contributing source and no marker.
TakenForRtp(word) == (word % ByteSpace) \in {128, 160} /\ (word \div ByteSpace) < 128

\* Whether it finds a header.  Behind the two headers are timestamp, ssrc and
\* media, and a datagram that may be too short: either answer.
RtpFound(p) ==
  IF Aligned(p) THEN {TRUE}
  ELSE IF ip_hl(p.udp) > WholeIpHeader THEN BOOLEAN
  ELSE {TakenForRtp((p.udp.iphdr_ \o p.udp.udphdr_)[(2 * ip_hl(p.udp)) + 5])}

\* What the decoder is given, be it media or not.
Decodes(p) ==
  \E found \in RtpFound(p) :
    decoded' = IF found THEN Append(decoded, IF Aligned(p) THEN p.media ELSE Garbage)
               ELSE decoded

Arrives(p) ==
  LET d == [shape |-> "whole", header |-> p.sc]
  IN  /\ Len(decoded) + refused < MaxRecvs
      /\ TakeSc(d)
      /\ IF Passes(d) THEN Decodes(p) /\ UNCHANGED refused
                      ELSE refused' = refused + 1 /\ UNCHANGED decoded
      /\ UNCHANGED <<param_, sender>>

\* A datagram of somebody else: an SC packet of another call in either
\* direction, or none; what follows the SC header is no RTP.
StrayArrives ==
  /\ \E d \in Datagram : d.header.sn = 0 /\ d.header.ueid = 0 /\ TakeSc(d)
  /\ UNCHANGED <<param_, sender, decoded, refused>>

Next ==
  \/ \E frame_num \in Frames : UploadSend(frame_num)
  \/ UploadSendFails
  \/ \E p \in net : Arrives(p)
  \/ StrayArrives

Spec == Init /\ [][Next]_vars

----------------------------------------------------------------------------
\* Every variable has its type.
TypeOK ==
  /\ param_ \in [if_send_sc : BOOLEAN, if_add_udpip : BOOLEAN]
  /\ send_header_ \in [sequence_num : 0 .. SeqSpace - 1, timestamp : 0 .. TsSpace - 1]
  /\ udp_ \in UdpPacker
  /\ sc_send_.send_header_ \in Header /\ sc_recv_.recv_header_ \in Header
  /\ Cardinality(net) <= MaxSends /\ samples \in Nat
  /\ decoded \in Seq(0 .. MaxSends) /\ refused \in 0 .. MaxRecvs

\* Any two packets, however many calls of Send failed and however often the
\* numbers wrapped between them, differ in their sequence numbers by the
\* packets between and in their timestamps by the samples (rtp.cpp:44-48).
MediaClock ==
  \A p, q \in net :
    /\ (p.rtp.sequence_num - q.rtp.sequence_num) % SeqSpace = (p.media - q.media) % SeqSpace
    /\ (p.rtp.timestamp - q.rtp.timestamp) % TsSpace = (p.at - q.at) % TsSpace

\* A receiver that adds the ten words of an IP header, as RFC 1071 has it, gets
\* all ones (udp_packer.cpp:60-62, 78-98): in every header on the wire, and
\* whatever the memory of udp_ held before the first.  All ones is what a sum
\* folds to that is a multiple of 2^16 - 1 and not 0.
IpSumVerifies ==
  param_.if_add_udpip =>
    \A p \in net : /\ IpSum(p.udp.iphdr_) # 0
                  /\ IpSum(p.udp.iphdr_) % (WordSpace - 1) = 0

\* One link never half works: when a packet of the peer reached the decoder, SC
\* refused none and will refuse none, even if sc_recv_ started as garbage and
\* others send to the port in between (sc.cpp:55-65).
AllOrNone == decoded # <<>> => refused = 0
===============================================================================
