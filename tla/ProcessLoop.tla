----------------------------- MODULE ProcessLoop ------------------------------
(***************************************************************************)
(* UploadSession::ProcessLoop and DownloadSession::ProcessLoop             *)
(* (session.cpp:161-208, 383-430), the same code twice: receive a packet,  *)
(* decode it, cut the decoded bytes into chunks of send_frame samples, and *)
(* encode and send every chunk.                                            *)
(*                                                                         *)
(* The bytes of the decoded stream are numbered from 1.  codec_buff and    *)
(* frame_buff hold the numbers; recv_buff and send_buff are not looked at. *)
(***************************************************************************)
EXTENDS SequencesExt, Integers

CONSTANTS Chunk,      \* send_frame << 1
          Sizes,      \* what Recv may return: decoded bytes of a packet
          MaxBytes    \* bound: bytes of a call

ASSUME LoopAssumption == Chunk \in Nat \ {0} /\ Sizes \subseteq Nat /\ MaxBytes \in Nat

VARIABLES
  pc,            \* "recv": the outer loop; "direct": line 180; "drain": line 191
  codec_buff,    \* the decoded bytes, or the chunk taken from frame_buff
  frame_buff,    \* the bytes that wait for a whole chunk
  received,      \* history: bytes decoded so far
  encoded,       \* history: the chunks given to Send, in order
  failed         \* history: how many of them Send refused

vars == <<pc, codec_buff, frame_buff, received, encoded, failed>>

Bytes(from, to) == [i \in 1 .. to - from + 1 |-> from + i - 1]

Init ==
  /\ pc = "recv"
  /\ codec_buff = <<>>
  /\ frame_buff = <<>>
  /\ received = 0
  /\ encoded = <<>>
  /\ failed = 0

\* RecvFrom or Recv fails: the loop starts over.
ReceiveFails ==
  /\ pc = "recv"
  /\ UNCHANGED vars

\* Wrong ways in: the short way overtakes the bytes that wait; the bytes
\* that take it also wait; a byte beyond those decoded is inserted.
ReceiveOvertakes(n) ==
  /\ pc = "recv"
  /\ received + n <= MaxBytes
  /\ received' = received + n
  /\ codec_buff' = Bytes(received + 1, received + n)
  /\ IF n = Chunk
     THEN pc' = "direct" /\ UNCHANGED frame_buff
     ELSE pc' = "drain" /\ frame_buff' = frame_buff \o codec_buff'
  /\ UNCHANGED <<encoded, failed>>

ReceiveTwice(n) ==
  /\ pc = "recv"
  /\ received + n <= MaxBytes
  /\ received' = received + n
  /\ codec_buff' = Bytes(received + 1, received + n)
  /\ pc' = IF n = Chunk /\ frame_buff = <<>> THEN "direct" ELSE "drain"
  /\ frame_buff' = frame_buff \o codec_buff'
  /\ UNCHANGED <<encoded, failed>>

ReceiveBeyond(n) ==
  /\ pc = "recv"
  /\ received + n <= MaxBytes
  /\ received' = received + n
  /\ codec_buff' = Bytes(received + 1, received + n)
  /\ pc' = "drain"
  /\ frame_buff' = frame_buff \o Bytes(received + 1, received + n + 1)
  /\ UNCHANGED <<encoded, failed>>

\* Recv decodes n bytes: they take the short way when they are a chunk and
\* none waits, else they join the waiting ones.
Receive(n) ==
  /\ pc = "recv"
  /\ received + n <= MaxBytes
  /\ received' = received + n
  /\ codec_buff' = Bytes(received + 1, received + n)
  /\ IF n = Chunk /\ frame_buff = <<>>
     THEN /\ pc' = "direct"
          /\ UNCHANGED frame_buff
     ELSE /\ pc' = "drain"
          /\ frame_buff' = frame_buff \o codec_buff'
  /\ UNCHANGED <<encoded, failed>>

\* Send(chunk): decoding, encoding or a header fails, or a packet goes out.
Encode(chunk) ==
  /\ encoded' = Append(encoded, chunk)
  /\ failed' \in {failed, failed + 1}

\* A failure of Send skips the inner loop, in which nothing would be done.
SendDirect ==
  /\ pc = "direct"
  /\ Encode(codec_buff)
  /\ pc' = IF failed' = failed THEN "drain" ELSE "recv"
  /\ UNCHANGED <<codec_buff, frame_buff, received>>

\* A wrong inner loop: `if` instead of `while`.
SendChunkOnce ==
  /\ pc = "drain"
  /\ Len(frame_buff) >= Chunk
  /\ codec_buff' = SubSeq(frame_buff, 1, Chunk)
  /\ frame_buff' = SubSeq(frame_buff, Chunk + 1, Len(frame_buff))
  /\ Encode(codec_buff')
  /\ pc' = "recv"
  /\ UNCHANGED received

SendChunk ==
  /\ pc = "drain"
  /\ Len(frame_buff) >= Chunk
  /\ codec_buff' = SubSeq(frame_buff, 1, Chunk)
  /\ frame_buff' = SubSeq(frame_buff, Chunk + 1, Len(frame_buff))
  /\ Encode(codec_buff')
  /\ UNCHANGED <<pc, received>>

\* A wrong test of the loop: `>` instead of `>=`.
DrainedEarly ==
  /\ pc = "drain"
  /\ Len(frame_buff) <= Chunk
  /\ pc' = "recv"
  /\ UNCHANGED <<codec_buff, frame_buff, received, encoded, failed>>

Drained ==
  /\ pc = "drain"
  /\ Len(frame_buff) < Chunk
  /\ pc' = "recv"
  /\ UNCHANGED <<codec_buff, frame_buff, received, encoded, failed>>

Next == \/ ReceiveFails
        \/ \E n \in Sizes : Receive(n)
        \/ SendDirect
        \/ SendChunk
        \/ Drained

Spec == Init /\ [][Next]_vars

\* The thread is scheduled: it goes on whenever it does not wait for packets.
FairSpec == Spec /\ WF_vars(SendDirect \/ SendChunk \/ Drained)

----------------------------------------------------------------------------
\* Every variable has its type.
TypeOK ==
  /\ pc \in {"recv", "direct", "drain"}
  /\ received \in Nat
  /\ codec_buff \in Seq(1 .. received)
  /\ frame_buff \in Seq(1 .. received)
  /\ encoded \in Seq(Seq(1 .. received))
  /\ failed \in 0 .. Len(encoded)

\* The k-th chunk given to Send is the k-th Chunk bytes of the stream: the
\* short way and the buffer never overtake, split or repeat each other's
\* bytes, and a chunk that cannot be sent is the only thing lost.
ChunksAligned ==
  \A k \in 1 .. Len(encoded) :
    encoded[k] = Bytes((k - 1) * Chunk + 1, k * Chunk)

\* When the loop waits for a packet, less than a chunk waits in frame_buff,
\* the deque does not grow over a call, and no byte is missing.
NoBacklog ==
  pc = "recv" => /\ Len(frame_buff) < Chunk
                 /\ received = Len(encoded) * Chunk + Len(frame_buff)

Stream == INSTANCE ChunkStream WITH cut <- Len(encoded) * Chunk

\* The loop implements the stream cut into chunks.
ImplementsStream == Stream!Spec

\* Every whole chunk that was received is given to Send in the end.
ChunkSent ==
  \A k \in 1 .. MaxBytes :
    (received >= k * Chunk) ~> (Len(encoded) >= k)
===============================================================================
