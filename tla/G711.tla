-------------------------------- MODULE G711 ----------------------------------
(***************************************************************************)
(* The u-law and A-law coders of codec.cpp as operators on one sample and  *)
(* one octet.  The decoders of the code are literal tables; here they are  *)
(* the formulas those tables were made from.                               *)
(***************************************************************************)
EXTENDS Integers

Int16 == -32768 .. 32767
Octet == 0 .. 255

\* a ^ b of two octets, bit by bit.
Xor(a, b) ==
  LET bit(k) == k * (((a \div k) + (b \div k)) % 2)
  IN  bit(1) + bit(2) + bit(4) + bit(8) + bit(16) + bit(32) + bit(64) + bit(128)

\* seg_end, and the loop that looks for the segment: 8 when there is none.
SegmentEnd == <<255, 511, 1023, 2047, 4095, 8191, 16383, 32767>>
Segment(magnitude) ==
  CHOOSE seg \in 0 .. 8 :
    /\ seg < 8 => magnitude <= SegmentEnd[seg + 1]
    /\ seg > 0 => magnitude > SegmentEnd[seg]

Code(seg, shift, magnitude) == seg * 16 + ((magnitude \div 2 ^ shift) % 16)

\* A wrong encoder: a magnitude past the last segment is not cut off.  The
\* code is an unsigned char.
ULawEncodeNoLimit(pcm) ==
  LET magnitude == (IF pcm < 0 THEN -pcm ELSE pcm) + 132
      mask == IF pcm < 0 THEN 127 ELSE 255
      seg == Segment(magnitude)
  IN  Xor(Code(seg, seg + 3, magnitude), mask)

ULawEncode(pcm) ==
  LET magnitude == (IF pcm < 0 THEN -pcm ELSE pcm) + 132
      mask == IF pcm < 0 THEN 127 ELSE 255
      seg == Segment(magnitude)
  IN  Xor(IF seg >= 8 THEN 127 ELSE Code(seg, seg + 3, magnitude), mask)

ULawDecode(code) ==
  LET u == 255 - code
      magnitude == ((u % 16) * 8 + 132) * 2 ^ ((u \div 16) % 8) - 132
  IN  IF code < 128 THEN -magnitude ELSE magnitude

\* A wrong encoder: the two lowest segments are shifted like the others.
ALawEncodeNoLinear(pcm) ==
  LET magnitude == IF pcm >= 0 THEN pcm ELSE IF pcm > -8 THEN 0 ELSE -pcm - 8
      mask == IF pcm >= 0 THEN 213 ELSE 85
      seg == Segment(magnitude)
  IN  Xor(Code(seg, seg + 3, magnitude), mask)

\* No int16_t lies past the last segment.
ALawEncode(pcm) ==
  LET magnitude == IF pcm >= 0 THEN pcm ELSE IF pcm > -8 THEN 0 ELSE -pcm - 8
      mask == IF pcm >= 0 THEN 213 ELSE 85
      seg == Segment(magnitude)
  IN  Xor(Code(seg, IF seg < 2 THEN 4 ELSE seg + 3, magnitude), mask)

ALawDecode(code) ==
  LET a == Xor(code, 85)
      seg == (a \div 16) % 8
      step == (a % 16) * 16
      magnitude == IF seg = 0 THEN step + 8 ELSE (step + 264) * 2 ^ (seg - 1)
  IN  IF a >= 128 THEN magnitude ELSE -magnitude
===============================================================================
