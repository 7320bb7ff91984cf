---------------------------------- MODULE SC ----------------------------------
(***************************************************************************)
(* The SC2 header and class SC (sc.h, sc.cpp) as operators on its objects. *)
(* An SC object has the header of the next packet it sends, the header it  *)
(* keeps of the packets it receives, and first_pack_.                      *)
(*                                                                         *)
(* A header travels as its fields: ScCopyToNet and ScCopyFromNet are       *)
(* inverse on them (forward is the high byte of sn_forward, the sequence   *)
(* number its low 24 bits).  Of the length only whether it matches the     *)
(* datagram is kept: shape says so.                                        *)
(***************************************************************************)
EXTENDS Integers

CONSTANTS SnSpace,   \* 2^24, the number of sequence numbers
          Ueids      \* UE identities other than 0

ASSUME ScAssumption == /\ SnSpace \in Nat \ {0}
                       /\ 0 \notin Ueids

Forward == {"To4G", "From4G"}
Header == [ueid : Ueids \cup {0}, forward : Forward, sn : 0 .. SnSpace - 1]

\* memset to zero: UE 0, Transforward 0, number 0
ZeroHeader == [ueid |-> 0, forward |-> "To4G", sn |-> 0]

\* SC::Init.  Whether it is run on sc_recv_ or on sc_send_, all is set.
Fresh(ueid, forward, sn) ==
  [send_header_ |-> [ueid |-> ueid, forward |-> forward, sn |-> sn % SnSpace],
   recv_header_ |-> ZeroHeader,
   first_pack_ |-> TRUE]

\* A wrong Send: the number runs into the byte of the direction.
AfterSendWide(sc) == [sc EXCEPT !.send_header_.sn = @ + 1]

\* SC::Send, with room for the header: the number is advanced, then written.
AfterSend(sc) ==
  [sc EXCEPT !.send_header_.sn = (sc.send_header_.sn + 1) % SnSpace]

\* A datagram is shorter than a header, has a length field that does not
\* match its size, or is whole.
Shapes == {"short", "mismatched", "whole"}
Datagram == [shape : Shapes, header : Header]

\* A wrong Recv: the direction is not checked.
RejectsShapeOnly(sc, d) == d.shape # "whole"

Rejects(sc, d) ==
  \/ d.shape # "whole"
  \/ ~sc.first_pack_ /\ d.header.forward # sc.recv_header_.forward

\* A wrong Recv: every whole packet is kept.
AfterRecvAlways(sc, d) ==
  IF d.shape = "whole"
  THEN [sc EXCEPT !.first_pack_ = FALSE, !.recv_header_ = d.header]
  ELSE sc

\* SC::Recv: the object it leaves.  Only the first packet is kept.
AfterRecv(sc, d) ==
  IF d.shape = "whole" /\ sc.first_pack_
  THEN [sc EXCEPT !.first_pack_ = FALSE, !.recv_header_ = d.header]
  ELSE sc

\* SC::Recv: what it writes to its output parameter, which held old.  The
\* declaration calls it sn, the definition lost_pack; a short datagram
\* leaves it alone, the first packet sets it to 0.
RecvOutput(sc, d, old) ==
  IF d.shape = "short" THEN old
  ELSE IF Rejects(sc, d) \/ sc.first_pack_ THEN 0
  ELSE sc.recv_header_.sn

GetUEID(sc) == sc.recv_header_.ueid
GetSn(sc) == sc.recv_header_.sn
===============================================================================
