-------------------------- MODULE ProcessLoopProofs ---------------------------
(***************************************************************************)
(* ProcessLoop cuts the stream at multiples of Chunk, for any chunk size,  *)
(* any packet sizes and calls of any length.                               *)
(***************************************************************************)
EXTENDS ProcessLoop, SequenceTheorems, TLAPS

\* Bytes(from, to) is a run of consecutive numbers.
LEMMA BytesFacts ==
  \A from, to \in Int : to >= from - 1 =>
    /\ Bytes(from, to) \in Seq(Int)
    /\ Len(Bytes(from, to)) = to - from + 1
    /\ \A i \in 1 .. to - from + 1 : Bytes(from, to)[i] = from + i - 1
  <1> SUFFICES ASSUME NEW from \in Int, NEW to \in Int, to >= from - 1
               PROVE  /\ Bytes(from, to) \in Seq(Int)
                      /\ Len(Bytes(from, to)) = to - from + 1
                      /\ \A i \in 1 .. to - from + 1 :
                           Bytes(from, to)[i] = from + i - 1
    OBVIOUS
  <1>1. to - from + 1 \in Nat
    OBVIOUS
  <1>2. /\ DOMAIN Bytes(from, to) = 1 .. to - from + 1
        /\ \A i \in 1 .. to - from + 1 : Bytes(from, to)[i] = from + i - 1
    BY DEF Bytes
  <1>3. Bytes(from, to) \in [1 .. to - from + 1 -> Int]
    BY DEF Bytes
  <1>4. Bytes(from, to) \in Seq(Int)
    BY <1>1, <1>3, SeqDef
  <1>5. /\ Len(Bytes(from, to)) \in Nat
        /\ DOMAIN Bytes(from, to) = 1 .. Len(Bytes(from, to))
    BY <1>4, LenProperties
  <1> QED  BY <1>1, <1>2, <1>4, <1>5

\* The bytes that wait when all up to from are cut and all up to to arrived.
LEMMA BytesWaiting ==
  \A from, to \in Int : from <= to => Len(Bytes(from + 1, to)) = to - from
  <1> SUFFICES ASSUME NEW from \in Int, NEW to \in Int, from <= to
               PROVE  Len(Bytes(from + 1, to)) = to - from
    OBVIOUS
  <1>1. /\ from + 1 \in Int /\ to >= (from + 1) - 1
        /\ to - (from + 1) + 1 = to - from
    OBVIOUS
  <1>2. Len(Bytes(from + 1, to)) = to - (from + 1) + 1
    BY <1>1, BytesFacts
  <1> QED  BY <1>1, <1>2

\* A run of numbers of bytes is a sequence of numbers.
LEMMA BytesOfNat ==
  \A from, to \in Nat : to >= from - 1 => Bytes(from, to) \in Seq(Nat)
  <1> SUFFICES ASSUME NEW from \in Nat, NEW to \in Nat, to >= from - 1
               PROVE  Bytes(from, to) \in Seq(Nat)
    OBVIOUS
  <1>1. to - from + 1 \in Nat
    OBVIOUS
  <1>2. Bytes(from, to) \in [1 .. to - from + 1 -> Nat]
    BY DEF Bytes
  <1> QED  BY <1>1, <1>2, SeqDef

\* Two adjoining runs make one.
LEMMA BytesConcat ==
  ASSUME NEW a \in Int, NEW b \in Int, NEW c \in Int, b >= a - 1, c >= b
  PROVE  Bytes(a, b) \o Bytes(b + 1, c) = Bytes(a, c)
  <1> DEFINE left == Bytes(a, b)  right == Bytes(b + 1, c)  all == Bytes(a, c)
  <1>1. /\ left \in Seq(Int) /\ Len(left) = b - a + 1
        /\ \A i \in 1 .. b - a + 1 : left[i] = a + i - 1
    BY BytesFacts
  <1>2. /\ right \in Seq(Int) /\ Len(right) = c - b
        /\ \A i \in 1 .. c - b : right[i] = b + i
    <2>1. b + 1 \in Int /\ c >= (b + 1) - 1 /\ c - (b + 1) + 1 = c - b
      OBVIOUS
    <2>2. /\ right \in Seq(Int) /\ Len(right) = c - (b + 1) + 1
          /\ \A i \in 1 .. c - (b + 1) + 1 : right[i] = b + 1 + i - 1
      BY <2>1, BytesFacts
    <2> HIDE DEF right
    <2> QED  BY <2>1, <2>2
  <1>3. /\ all \in Seq(Int) /\ Len(all) = c - a + 1
        /\ \A i \in 1 .. c - a + 1 : all[i] = a + i - 1
    <2>1. c >= a - 1
      OBVIOUS
    <2> QED  BY <2>1, BytesFacts
  <1> HIDE DEF left, right, all
  <1>4. /\ left \o right \in Seq(Int)
        /\ Len(left \o right) = Len(left) + Len(right)
        /\ \A i \in 1 .. Len(left) + Len(right) :
             (left \o right)[i] =
                IF i <= Len(left) THEN left[i] ELSE right[i - Len(left)]
    BY <1>1, <1>2, ConcatProperties
  <1>5. Len(left \o right) = Len(all)
    BY <1>1, <1>2, <1>3, <1>4
  <1>6. ASSUME NEW i \in 1 .. Len(left \o right)
        PROVE  (left \o right)[i] = all[i]
    <2>1. i \in 1 .. c - a + 1
      BY <1>3, <1>5
    <2>2. CASE i <= Len(left)
      BY <1>1, <1>2, <1>3, <1>4, <2>1, <2>2
    <2>3. CASE i > Len(left)
      <3>1. i - Len(left) \in 1 .. c - b
        BY <1>1, <2>1, <2>3
      <3>2. (left \o right)[i] = right[i - Len(left)]
        BY SMTT(30), <1>1, <1>2, <1>4, <2>3
      <3> QED  BY <1>1, <1>2, <1>3, <2>1, <3>1, <3>2
    <2> QED  BY SMTT(30), <1>1, <2>1, <2>2, <2>3
  <1>7. left \o right = all
    BY <1>3, <1>4, <1>5, <1>6, SeqEqual
  <1> QED  BY <1>7 DEF left, right, all

\* A part of a run is a run.
LEMMA BytesSubSeq ==
  ASSUME NEW a \in Int, NEW c \in Int, c >= a - 1,
         NEW m \in Int, NEW n \in Int, 1 <= m, m - 1 <= n, n <= c - a + 1
  PROVE  SubSeq(Bytes(a, c), m, n) = Bytes(a + m - 1, a + n - 1)
  <1> DEFINE all == Bytes(a, c)  part == Bytes(a + m - 1, a + n - 1)
  <1>1. /\ all \in Seq(Int) /\ Len(all) = c - a + 1
        /\ \A i \in 1 .. c - a + 1 : all[i] = a + i - 1
    BY BytesFacts
  <1>2. /\ part \in Seq(Int) /\ Len(part) = n - m + 1
        /\ \A i \in 1 .. n - m + 1 : part[i] = a + m + i - 2
    <2>1. /\ a + m - 1 \in Int /\ a + n - 1 \in Int
          /\ a + n - 1 >= (a + m - 1) - 1
          /\ (a + n - 1) - (a + m - 1) + 1 = n - m + 1
      OBVIOUS
    <2>2. /\ part \in Seq(Int) /\ Len(part) = (a + n - 1) - (a + m - 1) + 1
          /\ \A i \in 1 .. (a + n - 1) - (a + m - 1) + 1 :
               part[i] = a + m - 1 + i - 1
      BY <2>1, BytesFacts
    <2> HIDE DEF part
    <2> QED  BY <2>1, <2>2
  <1> HIDE DEF all, part
  <1>3. \A i \in m .. n : all[i] \in Int
    BY <1>1
  <1>4. /\ SubSeq(all, m, n) \in Seq(Int)
        /\ Len(SubSeq(all, m, n)) = n - m + 1
        /\ \A i \in 1 .. n - m + 1 : SubSeq(all, m, n)[i] = all[m + i - 1]
    BY <1>3, SubSeqProperties
  <1>5. \A i \in 1 .. n - m + 1 : SubSeq(all, m, n)[i] = part[i]
    BY <1>1, <1>2, <1>4
  <1>6. SubSeq(all, m, n) = part
    BY <1>2, <1>4, <1>5, SeqEqual
  <1> QED  BY <1>6 DEF all, part

----------------------------------------------------------------------------
(***************************************************************************)
(* The inductive invariant says where every byte received is: in a chunk   *)
(* given to Send, in codec_buff on the short way, or in frame_buff.        *)
(***************************************************************************)
CutTo == Len(encoded) * Chunk

IInv ==
  /\ pc \in {"recv", "direct", "drain"}
  /\ received \in Nat
  /\ encoded \in Seq(Seq(Nat))
  /\ ChunksAligned
  /\ CutTo <= received
  /\ pc = "direct" => /\ frame_buff = <<>>
                      /\ received = CutTo + Chunk
                      /\ codec_buff = Bytes(CutTo + 1, received)
  /\ pc # "direct" => frame_buff = Bytes(CutTo + 1, received)
  /\ pc = "recv" => received - CutTo < Chunk

LEMMA CutToType ==
  ASSUME encoded \in Seq(Seq(Nat))
  PROVE  Len(encoded) \in Nat /\ CutTo \in Nat /\ Chunk \in Nat /\ Chunk > 0
  <1>1. Len(encoded) \in Nat /\ Chunk \in Nat /\ Chunk > 0
    BY LenProperties, LoopAssumption
  <1> QED  BY <1>1 DEF CutTo

\* The first chunk of the bytes that wait, and what stays when it is taken.
LEMMA FirstChunk ==
  \A from, to, n \in Nat : n > 0 /\ n <= to - from =>
    SubSeq(Bytes(from + 1, to), 1, n) = Bytes(from + 1, from + n)
  <1> SUFFICES ASSUME NEW from \in Nat, NEW to \in Nat, NEW n \in Nat,
                      n > 0, n <= to - from
               PROVE  SubSeq(Bytes(from + 1, to), 1, n)
                        = Bytes(from + 1, from + n)
    OBVIOUS
  <1>1. /\ from + 1 \in Int /\ to \in Int /\ 1 \in Int /\ n \in Int
        /\ to >= (from + 1) - 1 /\ 1 <= 1 /\ 1 - 1 <= n
        /\ n <= to - (from + 1) + 1
    OBVIOUS
  <1>2. SubSeq(Bytes(from + 1, to), 1, n)
          = Bytes((from + 1) + 1 - 1, (from + 1) + n - 1)
    BY ZenonT(30), <1>1, BytesSubSeq
  <1>3. (from + 1) + 1 - 1 = from + 1 /\ (from + 1) + n - 1 = from + n
    OBVIOUS
  <1> QED  BY <1>2, <1>3

LEMMA RestOfChunks ==
  \A from, to, n \in Nat : n > 0 /\ n <= to - from =>
    SubSeq(Bytes(from + 1, to), n + 1, Len(Bytes(from + 1, to)))
      = Bytes(from + n + 1, to)
  <1> SUFFICES ASSUME NEW from \in Nat, NEW to \in Nat, NEW n \in Nat,
                      n > 0, n <= to - from
               PROVE  SubSeq(Bytes(from + 1, to), n + 1, Len(Bytes(from + 1, to)))
                        = Bytes(from + n + 1, to)
    OBVIOUS
  <1>1. /\ from + 1 \in Int /\ to \in Int /\ n + 1 \in Int /\ to - from \in Int
        /\ to >= (from + 1) - 1 /\ 1 <= n + 1 /\ (n + 1) - 1 <= to - from
        /\ to - from <= to - (from + 1) + 1
    OBVIOUS
  <1>2. SubSeq(Bytes(from + 1, to), n + 1, to - from)
          = Bytes((from + 1) + (n + 1) - 1, (from + 1) + (to - from) - 1)
    BY ZenonT(30), <1>1, BytesSubSeq
  <1>3. /\ (from + 1) + (n + 1) - 1 = from + n + 1
        /\ (from + 1) + (to - from) - 1 = to
    OBVIOUS
  <1>4. Len(Bytes(from + 1, to)) = to - from
    <2>1. from \in Int /\ to \in Int /\ from <= to
      OBVIOUS
    <2> QED  BY <2>1, BytesWaiting
  <1> QED  BY <1>2, <1>3, <1>4

LEMMA EmptyBytes ==
  ASSUME NEW n \in Int
  PROVE  Bytes(n + 1, n) = <<>>
  <1>1. n + 1 \in Int /\ n >= (n + 1) - 1 /\ n - (n + 1) + 1 = 0
    OBVIOUS
  <1>2. /\ Bytes(n + 1, n) \in Seq(Int)
        /\ Len(Bytes(n + 1, n)) = n - (n + 1) + 1
    BY <1>1, BytesFacts
  <1> QED  BY <1>1, <1>2, EmptySeq

LEMMA InitIInv == Init => IInv
  <1> SUFFICES ASSUME Init PROVE IInv
    OBVIOUS
  <1>1. Len(encoded) = 0 /\ encoded \in Seq(Seq(Nat))
    BY DEF Init
  <1>2. CutTo = 0 /\ Chunk > 0
    BY <1>1, LoopAssumption DEF CutTo
  <1>3. Bytes(0 + 1, 0) = <<>>
    BY EmptyBytes
  <1> QED  BY <1>1, <1>2, <1>3 DEF Init, IInv, ChunksAligned

\* Giving the next Chunk bytes to Send keeps the chunks aligned.
LEMMA EncodeAligned ==
  ASSUME IInv, NEW chunk, chunk = Bytes(CutTo + 1, CutTo + Chunk), Encode(chunk)
  PROVE  /\ encoded' \in Seq(Seq(Nat))
         /\ ChunksAligned'
         /\ CutTo' = CutTo + Chunk
  <1>1. encoded \in Seq(Seq(Nat)) /\ ChunksAligned
    BY DEF IInv
  <1>2. Len(encoded) \in Nat /\ CutTo \in Nat /\ Chunk \in Nat /\ Chunk > 0
    BY <1>1, CutToType
  <1>3. chunk \in Seq(Nat)
    <2>1. /\ CutTo + 1 \in Nat /\ CutTo + Chunk \in Nat
          /\ CutTo + Chunk >= (CutTo + 1) - 1
      BY <1>2
    <2> QED  BY <2>1, BytesOfNat
  <1>4. /\ encoded' \in Seq(Seq(Nat))
        /\ Len(encoded') = Len(encoded) + 1
        /\ \A k \in 1 .. Len(encoded) : encoded'[k] = encoded[k]
        /\ encoded'[Len(encoded) + 1] = chunk
    BY <1>1, <1>3, AppendProperties DEF Encode
  <1>5. CutTo' = CutTo + Chunk
    BY <1>2, <1>4 DEF CutTo
  <1>6. ASSUME NEW k \in 1 .. Len(encoded')
        PROVE  encoded'[k] = Bytes((k - 1) * Chunk + 1, k * Chunk)
    <2>1. CASE k \in 1 .. Len(encoded)
      BY <1>1, <1>4, <2>1 DEF ChunksAligned
    <2>2. CASE k = Len(encoded) + 1
      <3>1. (k - 1) * Chunk = CutTo /\ k * Chunk = CutTo + Chunk
        BY <1>2, <2>2 DEF CutTo
      <3> QED  BY <1>4, <2>2, <3>1
    <2> QED  BY <1>2, <1>4, <2>1, <2>2
  <1> QED  BY <1>4, <1>5, <1>6 DEF ChunksAligned

LEMMA ReceiveIInv ==
  ASSUME IInv, NEW n \in Nat, Receive(n)
  PROVE  IInv'
  <1>1. /\ encoded' = encoded /\ received' = received + n /\ pc = "recv"
        /\ CutTo' = CutTo /\ ChunksAligned'
    BY DEF IInv, Receive, CutTo, ChunksAligned
  <1>2. /\ CutTo \in Nat /\ Chunk \in Nat /\ Chunk > 0 /\ received \in Nat
        /\ CutTo <= received /\ received - CutTo < Chunk
        /\ frame_buff = Bytes(CutTo + 1, received)
    BY <1>1, CutToType DEF IInv
  <1>3. codec_buff' = Bytes(received + 1, received + n)
    BY DEF Receive
  <1>4. CASE n = Chunk /\ frame_buff = <<>>
    <2>1. Len(frame_buff) = received - CutTo
      BY <1>2, BytesWaiting
    <2>2. received = CutTo
      BY <1>2, <1>4, <2>1
    <2>3. pc' = "direct" /\ frame_buff' = <<>>
      BY <1>4 DEF Receive
    <2> QED  BY <1>1, <1>2, <1>3, <1>4, <2>2, <2>3 DEF IInv
  <1>5. CASE ~(n = Chunk /\ frame_buff = <<>>)
    <2>1. pc' = "drain" /\ frame_buff' = frame_buff \o codec_buff'
      BY <1>5 DEF Receive
    <2>2. frame_buff' = Bytes(CutTo + 1, received + n)
      <3>1. /\ CutTo + 1 \in Int /\ received \in Int /\ received + n \in Int
            /\ received >= (CutTo + 1) - 1 /\ received + n >= received
        BY <1>2
      <3>2. Bytes(CutTo + 1, received) \o Bytes(received + 1, received + n)
              = Bytes(CutTo + 1, received + n)
        BY <3>1, BytesConcat
      <3> QED  BY <1>2, <1>3, <2>1, <3>2
    <2> QED  BY <1>1, <1>2, <2>1, <2>2 DEF IInv
  <1> QED  BY <1>4, <1>5

LEMMA SendDirectIInv ==
  ASSUME IInv, SendDirect
  PROVE  IInv'
  <1>1. /\ pc = "direct" /\ frame_buff = <<>> /\ received = CutTo + Chunk
        /\ codec_buff = Bytes(CutTo + 1, CutTo + Chunk)
        /\ Encode(codec_buff)
        /\ received' = received /\ frame_buff' = frame_buff
        /\ pc' \in {"drain", "recv"}
    BY DEF IInv, SendDirect
  <1>2. encoded' \in Seq(Seq(Nat)) /\ ChunksAligned' /\ CutTo' = CutTo + Chunk
    BY <1>1, EncodeAligned
  <1>3. received \in Nat /\ Chunk \in Nat /\ Chunk > 0
    BY CutToType DEF IInv
  <1>4. frame_buff' = Bytes(CutTo' + 1, received')
    BY <1>1, <1>2, <1>3, EmptyBytes
  <1> QED  BY <1>1, <1>2, <1>3, <1>4 DEF IInv

\* SendChunk gives Send the first chunk that waits and keeps the rest.
LEMMA SendChunkFacts ==
  ASSUME IInv, SendChunk
  PROVE  /\ pc' = "drain" /\ received' = received
         /\ CutTo + Chunk <= received
         /\ frame_buff' = Bytes(CutTo + Chunk + 1, received)
         /\ encoded' \in Seq(Seq(Nat)) /\ ChunksAligned' /\ CutTo' = CutTo + Chunk
  <1>1. /\ pc = "drain" /\ pc' = pc /\ received' = received
        /\ frame_buff = Bytes(CutTo + 1, received)
        /\ Len(frame_buff) >= Chunk
        /\ codec_buff' = SubSeq(frame_buff, 1, Chunk)
        /\ frame_buff' = SubSeq(frame_buff, Chunk + 1, Len(frame_buff))
        /\ Encode(codec_buff')
    BY DEF IInv, SendChunk
  <1>2. /\ CutTo \in Nat /\ Chunk \in Nat /\ Chunk > 0
        /\ received \in Nat /\ CutTo <= received
    BY CutToType DEF IInv
  <1>3. Len(frame_buff) = received - CutTo /\ CutTo + Chunk <= received
    BY <1>1, <1>2, BytesWaiting
  <1>4. codec_buff' = Bytes(CutTo + 1, CutTo + Chunk)
    BY <1>1, <1>2, <1>3, FirstChunk
  <1>5. frame_buff' = Bytes(CutTo + Chunk + 1, received)
    BY <1>1, <1>2, <1>3, RestOfChunks
  <1>6. encoded' \in Seq(Seq(Nat)) /\ ChunksAligned' /\ CutTo' = CutTo + Chunk
    BY <1>1, <1>4, EncodeAligned
  <1> QED  BY <1>1, <1>3, <1>5, <1>6

LEMMA SendChunkIInv ==
  ASSUME IInv, SendChunk
  PROVE  IInv'
  <1>1. CutTo \in Nat /\ Chunk \in Nat /\ received \in Nat
    BY CutToType DEF IInv
  <1> QED  BY <1>1, SendChunkFacts DEF IInv

LEMMA DrainedIInv ==
  ASSUME IInv, Drained
  PROVE  IInv'
  <1>1. /\ pc = "drain" /\ pc' = "recv" /\ received' = received
        /\ frame_buff' = frame_buff /\ encoded' = encoded
        /\ Len(frame_buff) < Chunk
        /\ CutTo' = CutTo /\ ChunksAligned'
    BY DEF IInv, Drained, CutTo, ChunksAligned
  <1>2. /\ CutTo \in Nat /\ received \in Nat /\ CutTo <= received
        /\ frame_buff = Bytes(CutTo + 1, received)
    BY <1>1, CutToType DEF IInv
  <1>3. Len(frame_buff) = received - CutTo
    BY <1>2, BytesWaiting
  <1> QED  BY <1>1, <1>2, <1>3 DEF IInv

LEMMA NextIInv ==
  ASSUME IInv, [Next]_vars
  PROVE  IInv'
  <1>1. CASE ReceiveFails \/ UNCHANGED vars
    BY <1>1 DEF ReceiveFails, vars, IInv, CutTo, ChunksAligned
  <1>2. CASE \E n \in Sizes : Receive(n)
    BY <1>2, ReceiveIInv, LoopAssumption
  <1> QED
    BY <1>1, <1>2, SendDirectIInv, SendChunkIInv, DrainedIInv DEF Next

\* The inductive invariant holds in every reachable state.
THEOREM LoopInvariant == Spec => []IInv
  BY InitIInv, NextIInv, PTL DEF Spec

\* The chunks given to Send are the stream cut at multiples of Chunk, in
\* order, whatever mix of packet sizes arrives (session.cpp:179-197).
THEOREM LoopChunksAligned == Spec => []ChunksAligned
  <1>1. IInv => ChunksAligned
    BY DEF IInv
  <1> QED  BY <1>1, LoopInvariant, PTL

\* Less than a chunk waits between packets and no byte is missing.
THEOREM LoopNoBacklog == Spec => []NoBacklog
  <1>1. ASSUME IInv PROVE NoBacklog
    <2> SUFFICES ASSUME pc = "recv"
                 PROVE  /\ Len(frame_buff) < Chunk
                        /\ received = Len(encoded) * Chunk + Len(frame_buff)
      BY DEF NoBacklog
    <2>1. /\ CutTo \in Nat /\ received \in Nat /\ CutTo <= received
          /\ frame_buff = Bytes(CutTo + 1, received) /\ received - CutTo < Chunk
      BY <1>1, CutToType DEF IInv
    <2>2. Len(frame_buff) = received - CutTo
      BY <2>1, BytesWaiting
    <2> QED  BY <2>1, <2>2 DEF CutTo
  <1> QED  BY <1>1, LoopInvariant, PTL

\* The loop implements the stream cut into chunks: receiving is Decode, and
\* each chunk given to Send is one Cut.
THEOREM LoopImplementsStream == Spec => ImplementsStream
  <1>1. Init => Stream!Init
    <2> SUFFICES ASSUME Init PROVE Stream!Init
      OBVIOUS
    <2>1. Len(encoded) = 0 /\ Chunk \in Nat
      BY LoopAssumption DEF Init
    <2>2. Len(encoded) * Chunk = 0
      BY <2>1
    <2> QED  BY <2>2 DEF Init, Stream!Init
  <1>2. IInv /\ [Next]_vars => [Stream!Next]_(Stream!vars)
    <2> SUFFICES ASSUME IInv, [Next]_vars PROVE [Stream!Next]_(Stream!vars)
      OBVIOUS
    <2>1. ASSUME NEW n \in Sizes, Receive(n) PROVE Stream!Next
      BY <2>1 DEF Receive, Stream!Next, Stream!Decode
    <2>2. CASE SendDirect
      <3>1. /\ received = CutTo + Chunk /\ received' = received
            /\ codec_buff = Bytes(CutTo + 1, CutTo + Chunk) /\ Encode(codec_buff)
        BY <2>2 DEF IInv, SendDirect
      <3>2. CutTo' = CutTo + Chunk
        BY <3>1, EncodeAligned
      <3>3. CutTo \in Nat /\ Chunk \in Nat
        BY CutToType DEF IInv
      <3> QED  BY <3>1, <3>2, <3>3 DEF Stream!Next, Stream!Cut, CutTo
    <2>3. CASE SendChunk
      <3>1. received' = received /\ CutTo + Chunk <= received /\ CutTo' = CutTo + Chunk
        BY <2>3, SendChunkFacts
      <3>2. CutTo \in Nat /\ Chunk \in Nat /\ received \in Nat
        BY CutToType DEF IInv
      <3> QED  BY <3>1, <3>2 DEF Stream!Next, Stream!Cut, CutTo
    <2>4. CASE ReceiveFails \/ Drained \/ UNCHANGED vars
      BY <2>4 DEF ReceiveFails, Drained, vars, Stream!vars
    <2> QED  BY <2>1, <2>2, <2>3, <2>4 DEF Next
  <1> QED
    BY <1>1, <1>2, LoopInvariant, PTL DEF Spec, ImplementsStream, Stream!Spec

----------------------------------------------------------------------------
(***************************************************************************)
(* Types.                                                                  *)
(***************************************************************************)
\* A run of the bytes up to the last one.
LEMMA BytesType ==
  \A from, to, last \in Nat : from >= 1 /\ to >= from - 1 /\ to <= last =>
    Bytes(from, to) \in Seq(1 .. last)
  <1> SUFFICES ASSUME NEW from \in Nat, NEW to \in Nat, NEW last \in Nat,
                      from >= 1, to >= from - 1, to <= last
               PROVE  Bytes(from, to) \in Seq(1 .. last)
    OBVIOUS
  <1>1. to - from + 1 \in Nat
    OBVIOUS
  <1>2. \A i \in 1 .. to - from + 1 : from + i - 1 \in 1 .. last
    OBVIOUS
  <1>3. Bytes(from, to) \in [1 .. to - from + 1 -> 1 .. last]
    BY <1>2 DEF Bytes
  <1> QED  BY <1>1, <1>3, SeqDef

\* Chunk by chunk a stream ends where its last chunk does.
LEMMA Multiples ==
  \A k, n, c \in Nat : 1 <= k /\ k <= n =>
    /\ (k - 1) * c \in Nat
    /\ k * c = (k - 1) * c + c
    /\ k * c <= n * c
  <1> SUFFICES ASSUME NEW k \in Nat, NEW n \in Nat, NEW c \in Nat, 1 <= k, k <= n
               PROVE  /\ (k - 1) * c \in Nat
                      /\ k * c = (k - 1) * c + c
                      /\ k * c <= n * c
    OBVIOUS
  <1>1. (k - 1) * c \in Nat /\ k * c = (k - 1) * c + c
    BY Z3
  <1>2. (n - k) * c >= 0
    BY Z3
  <1>3. n * c = k * c + (n - k) * c
    BY Z3
  <1>4. k * c <= n * c
    BY <1>2, <1>3, Z3
  <1> QED  BY <1>1, <1>4

Rest == codec_buff \in Seq(1 .. received) /\ failed \in 0 .. Len(encoded)

LEMMA EncodeFailed ==
  ASSUME IInv, Rest, NEW chunk, chunk \in Seq(Nat), Encode(chunk)
  PROVE  failed' \in 0 .. Len(encoded')
  <1>1. encoded \in Seq(Seq(Nat)) /\ Len(encoded) \in Nat
    BY LenProperties DEF IInv
  <1>2. Len(encoded') = Len(encoded) + 1
    BY <1>1, AppendProperties DEF Encode
  <1> QED  BY <1>1, <1>2 DEF Rest, Encode

LEMMA NextRest ==
  ASSUME IInv, Rest, [Next]_vars
  PROVE  Rest'
  <1>0. /\ CutTo \in Nat /\ Chunk \in Nat /\ Chunk > 0 /\ received \in Nat
        /\ CutTo <= received
    BY CutToType DEF IInv
  <1>1. ASSUME NEW n \in Sizes, Receive(n) PROVE Rest'
    <2>1. /\ received' = received + n /\ n \in Nat
          /\ codec_buff' = Bytes(received + 1, received + n)
          /\ UNCHANGED <<encoded, failed>>
      BY <1>1, LoopAssumption DEF Receive
    <2>2. /\ received + 1 \in Nat /\ received + n \in Nat
          /\ received + 1 >= 1 /\ received + n >= (received + 1) - 1
          /\ received + n <= received + n
      BY <1>0, <2>1
    <2>3. codec_buff' \in Seq(1 .. received')
      BY <2>1, <2>2, BytesType
    <2> QED  BY <2>1, <2>3 DEF Rest
  <1>2. CASE SendDirect
    <2>1. /\ codec_buff = Bytes(CutTo + 1, CutTo + Chunk) /\ Encode(codec_buff)
          /\ UNCHANGED <<codec_buff, received>>
      BY <1>2 DEF SendDirect, IInv
    <2>2. codec_buff \in Seq(Nat)
      <3>1. CutTo + 1 \in Nat /\ CutTo + Chunk \in Nat
            /\ CutTo + Chunk >= (CutTo + 1) - 1
        BY <1>0
      <3> QED  BY <2>1, <3>1, BytesOfNat
    <2> QED  BY <2>1, <2>2, EncodeFailed DEF Rest
  <1>3. CASE SendChunk
    <2>1. /\ received' = received /\ CutTo + Chunk <= received
          /\ frame_buff = Bytes(CutTo + 1, received)
          /\ codec_buff' = SubSeq(frame_buff, 1, Chunk)
          /\ Encode(codec_buff')
      BY <1>3, SendChunkFacts DEF SendChunk, IInv
    <2>2. codec_buff' = Bytes(CutTo + 1, CutTo + Chunk)
      BY <1>0, <2>1, FirstChunk
    <2>3. /\ CutTo + 1 \in Nat /\ CutTo + Chunk \in Nat /\ CutTo + 1 >= 1
          /\ CutTo + Chunk >= (CutTo + 1) - 1
      BY <1>0
    <2>4. codec_buff' \in Seq(1 .. received) /\ codec_buff' \in Seq(Nat)
      BY <1>0, <2>1, <2>2, <2>3, BytesType, BytesOfNat
    <2>5. failed' \in 0 .. Len(encoded')
      BY <2>1, <2>4, EncodeFailed
    <2> QED  BY <2>1, <2>4, <2>5 DEF Rest
  <1>4. CASE ReceiveFails \/ Drained \/ UNCHANGED vars
    BY <1>4 DEF ReceiveFails, Drained, vars, Rest
  <1> QED  BY <1>1, <1>2, <1>3, <1>4 DEF Next

\* Every variable has its type: both buffers and the chunks hold bytes that
\* were decoded, and no more chunks fail than were given to Send.
THEOREM LoopTypeOK == Spec => []TypeOK
  <1>1. Init => Rest
    <2> SUFFICES ASSUME Init PROVE Rest
      OBVIOUS
    <2>1. Len(encoded) = 0 /\ codec_buff \in Seq(1 .. received)
      BY DEF Init
    <2> QED  BY <2>1 DEF Init, Rest
  <1>2. IInv /\ Rest => TypeOK
    <2> SUFFICES ASSUME IInv, Rest PROVE TypeOK
      OBVIOUS
    <2>0. /\ CutTo \in Nat /\ Chunk \in Nat /\ Chunk > 0 /\ received \in Nat
          /\ CutTo <= received
      BY CutToType DEF IInv
    <2>1. frame_buff \in Seq(1 .. received)
      <3>1. CASE pc = "direct"
        BY <3>1 DEF IInv
      <3>2. CASE pc # "direct"
        <4>1. /\ CutTo + 1 \in Nat /\ CutTo + 1 >= 1 /\ received >= (CutTo + 1) - 1
              /\ received <= received /\ frame_buff = Bytes(CutTo + 1, received)
          BY <2>0, <3>2 DEF IInv
        <4> QED  BY <2>0, <4>1, BytesType
      <3> QED  BY <3>1, <3>2
    <2>2. Len(encoded) \in Nat /\ encoded \in [1 .. Len(encoded) -> Seq(Nat)]
      BY LenProperties DEF IInv
    <2>3. ASSUME NEW k \in 1 .. Len(encoded)
          PROVE  encoded[k] \in Seq(1 .. received)
      <3>1. encoded[k] = Bytes((k - 1) * Chunk + 1, k * Chunk)
        BY DEF IInv, ChunksAligned
      <3>2. /\ (k - 1) * Chunk \in Nat /\ k * Chunk = (k - 1) * Chunk + Chunk
            /\ k * Chunk <= CutTo
        <4>1. k \in Nat /\ 1 <= k /\ k <= Len(encoded)
          BY <2>2
        <4> QED  BY <2>0, <2>2, <4>1, Multiples DEF CutTo
      <3> DEFINE before == (k - 1) * Chunk
      <3> HIDE DEF before
      <3>3. /\ before \in Nat /\ before + 1 \in Nat /\ before + Chunk \in Nat
            /\ before + Chunk <= received /\ k * Chunk = before + Chunk
            /\ before + 1 >= 1 /\ before + Chunk >= (before + 1) - 1
        BY <2>0, <3>2 DEF before
      <3>4. encoded[k] = Bytes(before + 1, before + Chunk)
        BY <3>1, <3>3 DEF before
      <3> QED  BY <2>0, <3>3, <3>4, BytesType
    <2>4. encoded \in [1 .. Len(encoded) -> Seq(1 .. received)]
      BY <2>2, <2>3
    <2>5. encoded \in Seq(Seq(1 .. received))
      BY <2>2, <2>4, SeqDef
    <2> QED  BY <2>1, <2>5 DEF IInv, Rest, TypeOK
  <1>3. Spec => [](IInv /\ Rest)
    BY <1>1, LoopInvariant, NextRest, PTL DEF Spec
  <1> QED  BY <1>2, <1>3, PTL
==============================================================================
