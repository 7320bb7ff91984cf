------------------------------- MODULE Coders ---------------------------------
(***************************************************************************)
(* The coders of codec.cpp on one stretch of media that passes through a   *)
(* chain of gateways: it is PCM, is encoded, decoded, encoded again by the *)
(* next, and so on.  The stations at the ends, the sessions between and    *)
(* codec_server use the coders with different buffers and accept different *)
(* lengths: Users.                                                         *)
(*                                                                         *)
(* Of the media the length in bytes is kept and, as long as only u-law and *)
(* A-law coded them, two neighbouring samples (or their codes), which show *)
(* what the coders do to values and to the order of values.  Of what the   *)
(* libraries' codecs do only the length is kept.                           *)
(***************************************************************************)
EXTENDS G711, Sequences

CONSTANTS Pairs,      \* neighbouring samples to begin with
          Lengths     \* bytes of PCM to begin with

ASSUME CoderAssumption == /\ Pairs \subseteq Int16 \X Int16
                          /\ Lengths \subseteq Nat

VARIABLES
  pc,       \* what happens to the media next
  codec,    \* the codec of the media, "pcm" for none
  bytes,    \* their length
  pair,     \* two samples or codes, <<>> when a library's codec lost them
  user,     \* who has the media, or had them last: one of Users
  remain,   \* AMR: what the loop has not consumed yet
  place,    \* AMR decoder: how far it is from the start of the payload
  origin    \* history: what the chain began with, from the last AMR encoder on

vars == <<pc, codec, bytes, pair, user, remain, place, origin>>

PcmLaws == {"PcmU", "PcmA"}
Codecs == PcmLaws \cup {"Codec2", "AMR_WB"}

kPcmFrameLength == 320
kCodec2FrameLength == 6
kScFrames == 3
kPacketLength == kScFrames * kPcmFrameLength

\* The test programs, the two sessions, codec_server.
Users == {"test", "upload", "download", "server"}

\* The room each gives to a decoder and to an encoder, without the headers
\* that go before the media (session.cpp:14,104,164,385; codec_server.cpp:31,
\* 98; amr_wb_test.cpp:59, with what is left of a file of five packets).
kBuffSize == 2048
DecodeRoom == [test |-> 4800, upload |-> kBuffSize, download |-> 65536, server |-> 1600]
EncodeRoom == [test |-> 1600, upload |-> 65484, download |-> 65524, server |-> 1588]

\* What each lets through to its encoder: a session's Send, EncodeLoop.
Accepts(u, length) ==
  CASE u = "test" -> TRUE
    [] u = "upload" -> length % kPcmFrameLength = 0
    [] u \in {"download", "server"} -> length = kPacketLength

Has(u, c) == u = "server" => c \in {"Codec2", "PcmU"}

Init ==
  /\ pc = "pcm"
  /\ codec = "pcm"
  /\ bytes \in Lengths
  /\ pair \in Pairs
  /\ user \in {"test", "server"}
  /\ remain = 0
  /\ place = 0
  /\ origin = [bytes |-> bytes, pair |-> pair, amr |-> FALSE]

\* A coder returns -1, or its user drops the media: the stretch is lost.
Refuse ==
  /\ pc' = "refused"
  /\ UNCHANGED <<codec, bytes, pair, user, remain, place, origin>>

----------------------------------------------------------------------------
\* A wrong encoder: one octet per byte, not per sample.
LawLengthBytes(length) == length

\* PcmUEnCoder and PcmAEnCoder: frames = length >> 1.
LawLength(length) == length \div 2

Encoded(c, samples) ==
  [i \in DOMAIN samples |-> IF c = "PcmU" THEN ULawEncode(samples[i])
                                          ELSE ALawEncode(samples[i])]
Decoded(c, codes) ==
  [i \in DOMAIN codes |-> IF c = "PcmU" THEN ULawDecode(codes[i])
                                        ELSE ALawDecode(codes[i])]

\* PcmUEnCoder::Codec, PcmAEnCoder::Codec
EncodeLaw(c) ==
  /\ pc = "pcm" /\ Accepts(user, bytes) /\ Has(user, c)
  /\ EncodeRoom[user] >= bytes \div 2
  /\ pc' = "coded" /\ codec' = c
  /\ bytes' = LawLength(bytes)
  /\ pair' = Encoded(c, pair)
  /\ UNCHANGED <<user, remain, place, origin>>

\* PcmUDeCoder::Codec, PcmADeCoder::Codec
DecodeLaw(u) ==
  /\ pc = "coded" /\ codec \in PcmLaws /\ u # "server"
  /\ DecodeRoom[u] >= bytes * 2
  /\ pc' = "pcm" /\ codec' = "pcm"
  /\ bytes' = bytes * 2
  /\ pair' = Decoded(codec, pair)
  /\ user' = u
  /\ UNCHANGED <<remain, place, origin>>

\* Codec2EnCoder::Codec
EncodeCodec2 ==
  /\ pc = "pcm" /\ Accepts(user, bytes)
  /\ bytes % kPcmFrameLength = 0
  /\ EncodeRoom[user] >= (bytes \div kPcmFrameLength) * kCodec2FrameLength
  /\ pc' = "coded" /\ codec' = "Codec2"
  /\ bytes' = (bytes \div kPcmFrameLength) * kCodec2FrameLength
  /\ pair' = <<>> /\ origin' = [origin EXCEPT !.pair = <<>>]
  /\ UNCHANGED <<user, remain, place>>

\* Codec2DeCoder::Codec; DecodeLoop takes packets of 18 bytes only.
DecodeCodec2(u) ==
  /\ pc = "coded" /\ codec = "Codec2"
  /\ u = "server" => bytes = 18
  /\ bytes % kCodec2FrameLength = 0
  /\ DecodeRoom[u] >= (bytes \div kCodec2FrameLength) * kPcmFrameLength
  /\ pc' = "pcm" /\ codec' = "pcm"
  /\ bytes' = (bytes \div kCodec2FrameLength) * kPcmFrameLength
  /\ user' = u
  /\ UNCHANGED <<pair, remain, place, origin>>

(***************************************************************************)
(* UploadSession::Send, EncodeLoop and DecodeLoop drop media of another    *)
(* length.  A DownloadSession keeps them: ProcessLoop makes chunks.        *)
(***************************************************************************)
DropLength ==
  /\ \/ pc = "pcm" /\ user # "download" /\ ~Accepts(user, bytes)
     \/ pc = "coded" /\ codec = "Codec2" /\ bytes # 18
  /\ Refuse

\* The encoder finds no room, or Codec2 no whole frames.
EncoderFails ==
  /\ pc = "pcm" /\ Accepts(user, bytes)
  /\ \/ EncodeRoom[user] < bytes \div 2
     \/ bytes % kPcmFrameLength # 0
  /\ Refuse

DecoderFails(u) ==
  /\ pc = "coded"
  /\ \/ codec \in PcmLaws /\ DecodeRoom[u] < bytes * 2
     \/ /\ codec = "Codec2"
        /\ \/ bytes % kCodec2FrameLength # 0
           \/ DecodeRoom[u] < (bytes \div kCodec2FrameLength) * kPcmFrameLength
  /\ Refuse

----------------------------------------------------------------------------
(***************************************************************************)
(* AMR-WB.  E_IF_encode makes 61 bytes of a frame, or 6 or 1 in a pause    *)
(* (DTX).  AMRNoOctetAlign puts four bits before them and cuts the last    *)
(* byte off when it is 0, which it never is behind a single byte; then one *)
(* is added to the length.                                                 *)
(***************************************************************************)
kAmrWbFrameSample == 320
AmrPackets == {3} \cup {size + n : size \in {6, 61}, n \in {1, 2}}
kConvertSize == 1600

\* RateConverter::Convert doubles the samples: a frame of the result is 320
\* samples, as many as there were bytes.
AmrEncode ==
  /\ pc = "pcm" /\ Accepts(user, bytes) /\ Has(user, "AMR_WB")
  /\ bytes > 0 /\ (bytes \div 2) * 2 <= kConvertSize
  /\ pc' = "amr_encode" /\ codec' = "AMR_WB"
  /\ remain' = bytes
  /\ bytes' = 0 /\ pair' = <<>>
  /\ origin' = [bytes |-> bytes, pair |-> <<>>, amr |-> TRUE]
  /\ UNCHANGED <<user, place>>

AmrEncodeFails ==
  /\ pc = "pcm" /\ Accepts(user, bytes) /\ Has(user, "AMR_WB")
  /\ bytes <= 0 \/ (bytes \div 2) * 2 > kConvertSize
  /\ Refuse

\* A wrong loop: the rest behind the last whole frame is encoded, too.
AmrEncodeFrameBeyond(size) ==
  /\ pc = "amr_encode"
  /\ remain > 0
  /\ size \in AmrPackets
  /\ bytes + size <= EncodeRoom[user]
  /\ bytes' = bytes + size
  /\ remain' = remain - kAmrWbFrameSample
  /\ UNCHANGED <<pc, codec, pair, user, place, origin>>

AmrEncodeFrame(size) ==
  /\ pc = "amr_encode"
  /\ remain >= kAmrWbFrameSample
  /\ size \in AmrPackets
  /\ bytes + size <= EncodeRoom[user]
  /\ bytes' = bytes + size
  /\ remain' = remain - kAmrWbFrameSample
  /\ UNCHANGED <<pc, codec, pair, user, place, origin>>

\* Less than a frame is left, or no room for a packet.
AmrEncodeEnd ==
  /\ pc = "amr_encode"
  /\ \/ remain < kAmrWbFrameSample
     \/ \E size \in AmrPackets : bytes + size > EncodeRoom[user]
  /\ pc' = "coded"
  /\ remain' = 0
  /\ UNCHANGED <<codec, bytes, pair, user, place, origin>>

\* kAmrBlockSize
kAmrBlockSize == <<18, 24, 33, 37, 41, 47, 51, 59, 61, 6, 6, 0, 0, 0, 1, 1>>
BlockSize(mode) == kAmrBlockSize[mode + 1]

\* *input >> 3 & 0x0f.  The packets are not aligned to octets: the first
\* byte is 0xf4 or 0xf7, the second begins with the bits 01 or 11; of those
\* farther on any bits may be read.
Modes == CASE place = 0 -> {14}
           [] place = 1 -> 8 .. 15
           [] OTHER -> 0 .. 15

AmrDecode(u) ==
  /\ pc = "coded" /\ codec = "AMR_WB" /\ u # "server"
  /\ pc' = "amr_decode" /\ codec' = "pcm"
  /\ remain' = bytes
  /\ bytes' = 0 /\ place' = 0 /\ user' = u
  /\ UNCHANGED <<pair, origin>>

(***************************************************************************)
(* One round of the loop.  The converter halves the 320 samples of a       *)
(* block.  A mode of block size 0 takes nothing from the input.            *)
(***************************************************************************)
AmrDecodeBlock(mode) ==
  /\ pc = "amr_decode" /\ remain > 0 /\ mode \in Modes
  /\ remain >= BlockSize(mode)
  /\ DecodeRoom[user] - bytes >= kPcmFrameLength
  /\ remain' = remain - BlockSize(mode)
  /\ place' = IF place + BlockSize(mode) > 1 THEN 2 ELSE place + BlockSize(mode)
  /\ bytes' = bytes + kPcmFrameLength
  /\ UNCHANGED <<pc, codec, pair, user, origin>>

(***************************************************************************)
(* output_length is compared with the length of one frame and never gets   *)
(* less: the loop goes on past the end of the output, and from there the   *)
(* behaviour is undefined.                                                 *)
(***************************************************************************)
AmrDecodePastRoom(mode) ==
  /\ pc = "amr_decode" /\ remain > 0 /\ mode \in Modes
  /\ remain >= BlockSize(mode)
  /\ DecodeRoom[user] - bytes < kPcmFrameLength
  /\ pc' = "undefined"
  /\ UNCHANGED <<codec, bytes, pair, user, remain, place, origin>>

AmrDecodeEnd ==
  /\ pc = "amr_decode"
  /\ remain = 0 \/ \E mode \in Modes : remain < BlockSize(mode)
  /\ pc' = "pcm"
  /\ remain' = 0 /\ place' = 0
  /\ UNCHANGED <<codec, bytes, pair, user, origin>>

Next ==
  \/ \E c \in PcmLaws : EncodeLaw(c)
  \/ EncodeCodec2
  \/ \E u \in Users : DecodeLaw(u) \/ DecodeCodec2(u) \/ AmrDecode(u)
  \/ DropLength
  \/ EncoderFails
  \/ \E u \in Users : DecoderFails(u)
  \/ AmrEncode \/ AmrEncodeFails
  \/ \E size \in AmrPackets : AmrEncodeFrame(size)
  \/ AmrEncodeEnd
  \/ \E mode \in 0 .. 15 : AmrDecodeBlock(mode) \/ AmrDecodePastRoom(mode)
  \/ AmrDecodeEnd

Spec == Init /\ [][Next]_vars

----------------------------------------------------------------------------
Magnitude(x) == IF x < 0 THEN -x ELSE x
IsPcm == pc = "pcm" /\ pair # <<>>

\* Every variable has its type: codes fit an octet and samples an int16_t,
\* and no loop consumes more than there is.
TypeOK ==
  /\ pc \in {"pcm", "coded", "amr_encode", "amr_decode", "refused", "undefined"}
  /\ codec \in Codecs \cup {"pcm"}
  /\ bytes \in Nat /\ remain \in Nat /\ place \in 0 .. 2
  /\ user \in Users
  /\ pair = <<>> \/ pair \in (IF codec = "pcm" THEN Int16 \X Int16 ELSE Octet \X Octet)

\* Whatever u-law, A-law and Codec2 coders, with whatever buffers, the media
\* pass through, they keep their duration: nothing is cut or padded on the
\* way (the length rules of the seven Codec functions agree).
SameDuration ==
  ~origin.amr =>
    origin.bytes = CASE codec = "pcm" -> bytes
                     [] codec \in PcmLaws -> bytes * 2
                     [] codec = "Codec2" -> (bytes \div 6) * 320

\* The laws never swap two neighbouring samples, at no boundary of segments
\* and after any number of changes between the laws: the decision levels of
\* the encoders (codec.cpp:462-479, 575-593) and the two tables fit.
OrderKept == IsPcm => pair[1] <= pair[2]

\* Error does not add up in a chain: however often the law changes, a sample
\* that was not negative stays within 1/16 of itself and 16; one that was
\* negative never gets louder than that.  (It may get quieter: see README.)
NoDrift ==
  IsPcm =>
    \A i \in 1 .. 2 :
      LET x == origin.pair[i]
          y == pair[i]
      IN  IF x >= 0
          THEN 16 * Magnitude(y - x) <= x + 256
          ELSE y <= 8 /\ 16 * (-y + x) <= -x + 120

\* "if (len != codec_uint_length) ... Decoder output length error"
\* (test/amr_wb_test.cpp:71-72): of a packet of three frames the AMR decoder
\* makes three frames again.
AmrRoundTrip ==
  pc = "pcm" /\ origin.amr /\ origin.bytes = kPacketLength => bytes = kPacketLength
===============================================================================
