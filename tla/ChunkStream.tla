----------------------------- MODULE ChunkStream ------------------------------
(***************************************************************************)
(* What the loop of a session promises about the samples it decodes: the   *)
(* stream of their bytes is cut into chunks of the same size, in order and *)
(* without a gap, however the bytes are spread over the packets that carry *)
(* them.  A chunk is named by the number of its last byte; the encoder     *)
(* gets each chunk once, whether or not it can be sent.                    *)
(***************************************************************************)
EXTENDS Integers

CONSTANTS Chunk,   \* bytes of a chunk
          Sizes    \* bytes a packet may decode to

VARIABLES received,   \* bytes decoded
          cut         \* bytes in the chunks handed to the encoder

vars == <<received, cut>>

Init == received = 0 /\ cut = 0

Decode(n) == /\ received' = received + n
             /\ UNCHANGED cut

Cut == /\ received - cut >= Chunk
       /\ cut' = cut + Chunk
       /\ UNCHANGED received

Next == (\E n \in Sizes : Decode(n)) \/ Cut

Spec == Init /\ [][Next]_vars
===============================================================================
