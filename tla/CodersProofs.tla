----------------------------- MODULE CodersProofs -----------------------------
(***************************************************************************)
(* Coders for any samples of 16 bits and any lengths.  What a coder and    *)
(* its decoder make of a sample is first computed without codes: the       *)
(* middle of the sample's cell.  The cells of the two laws are as wide but *)
(* lie 132 apart, so that a sample moves when the law changes; it does not *)
(* move away, because two laws soon make only two values of it.            *)
(***************************************************************************)
EXTENDS Coders, TLAPS

----------------------------------------------------------------------------
(***************************************************************************)
(* The two laws on magnitudes.                                             *)
(***************************************************************************)
Cell(m, width) == (m \div width) * width + (width \div 2)

Level(m) ==
  IF m < 256 THEN Cell(m, 8) ELSE IF m < 512 THEN Cell(m, 16)
  ELSE IF m < 1024 THEN Cell(m, 32) ELSE IF m < 2048 THEN Cell(m, 64)
  ELSE IF m < 4096 THEN Cell(m, 128) ELSE IF m < 8192 THEN Cell(m, 256)
  ELSE IF m < 16384 THEN Cell(m, 512) ELSE Cell(m, 1024)

ULevel(m) == IF m < 32636 THEN Level(m + 132) - 132 ELSE 32124
ALevel(m) == IF m < 256 THEN Cell(m, 16) ELSE Level(m)

\* The A-law encoder takes 8 from the magnitude of a negative sample.
NegativeALevel(m) == IF m < 8 THEN 8 ELSE ALevel(m - 8)

\* What of the two decoders is left of a sample.
UValue(x) == IF x < 0 THEN -ULevel(-x) ELSE ULevel(x)
AValue(x) == IF x < 0 THEN -NegativeALevel(-x) ELSE ALevel(x)
Value(c, x) == IF c = "PcmU" THEN UValue(x) ELSE AValue(x)

LEMMA LevelBounds ==
  ASSUME NEW m \in Int, 0 <= m
  PROVE  /\ m <= 32768 => ULevel(m) \in Int /\ 0 <= ULevel(m) /\ ULevel(m) <= 32124
         /\ m < 32768 => ALevel(m) \in Int /\ 8 <= ALevel(m) /\ ALevel(m) <= 32256
  <1>1. m <= 32768 => ULevel(m) \in Int /\ 0 <= ULevel(m) /\ ULevel(m) <= 32124
    BY SMTT(30) DEF ULevel, Level, Cell
  <1>2. m < 32768 => ALevel(m) \in Int /\ 8 <= ALevel(m) /\ ALevel(m) <= 32256
    BY SMTT(30) DEF ALevel, Level, Cell
  <1> QED  BY <1>1, <1>2

\* The levels of larger samples are larger, across every boundary.
LEMMA LevelsAscend ==
  ASSUME NEW m \in Int, NEW n \in Int, 0 <= m, m <= n
  PROVE  /\ n <= 32768 => ULevel(m) <= ULevel(n)
         /\ n < 32768 => ALevel(m) <= ALevel(n)
         /\ n <= 32768 => NegativeALevel(m) <= NegativeALevel(n)
  <1>1. n <= 32768 => ULevel(m) <= ULevel(n)
    BY SMTT(30) DEF ULevel, Level, Cell
  <1>2. \A i, j \in Int : 0 <= i /\ i <= j /\ j < 32768 => ALevel(i) <= ALevel(j)
    BY SMTT(30) DEF ALevel, Level, Cell
  <1>3. n <= 32768 => NegativeALevel(m) <= NegativeALevel(n)
    <2>1. n < 8 => NegativeALevel(m) = 8 /\ NegativeALevel(n) = 8
      BY DEF NegativeALevel
    <2>2. n >= 8 => NegativeALevel(n) = ALevel(n - 8)
      BY DEF NegativeALevel
    <2>3. m >= 8 => NegativeALevel(m) = ALevel(m - 8)
      BY DEF NegativeALevel
    <2>4. m < 8 => NegativeALevel(m) = 8
      BY DEF NegativeALevel
    <2>5. CASE m >= 8
      BY <1>2, <2>2, <2>3, <2>5
    <2>6. CASE m < 8 /\ n >= 8
      BY <2>2, <2>4, <2>6, LevelBounds
    <2> QED  BY <2>1, <2>5, <2>6
  <1> QED  BY <1>1, <1>2, <1>3

LEMMA NegativeBounds ==
  ASSUME NEW m \in Int, 0 <= m, m <= 32768
  PROVE  /\ NegativeALevel(m) \in Int
         /\ 8 <= NegativeALevel(m) /\ NegativeALevel(m) <= 32256
  <1>1. CASE m < 8
    BY <1>1 DEF NegativeALevel
  <1>2. CASE m >= 8
    <2>1. m - 8 \in Int /\ 0 <= m - 8 /\ m - 8 < 32768
      BY <1>2
    <2>2. NegativeALevel(m) = ALevel(m - 8)
      BY <1>2 DEF NegativeALevel
    <2> QED  BY <2>1, <2>2, LevelBounds
  <1> QED  BY <1>1, <1>2

\* Neither coder swaps two samples, and both make samples of 16 bits.
LEMMA ValueType ==
  ASSUME NEW c \in PcmLaws, NEW x \in Int, -32768 <= x, x <= 32767
  PROVE  Value(c, x) \in Int /\ -32256 <= Value(c, x) /\ Value(c, x) <= 32256
  <1>1. CASE x < 0
    <2> DEFINE m == -x
    <2>1. m \in Int /\ 0 <= m /\ m <= 32768
      BY <1>1
    <2> HIDE DEF m
    <2>2. Value(c, x) = IF c = "PcmU" THEN -ULevel(m) ELSE -NegativeALevel(m)
      BY <1>1 DEF Value, UValue, AValue, m
    <2> QED  BY <2>1, <2>2, LevelBounds, NegativeBounds
  <1>2. CASE x >= 0
    <2>1. Value(c, x) = IF c = "PcmU" THEN ULevel(x) ELSE ALevel(x)
      BY <1>2 DEF Value, UValue, AValue
    <2> QED  BY <1>2, <2>1, LevelBounds
  <1> QED  BY <1>1, <1>2

THEOREM LawsKeepOrder ==
  ASSUME NEW c \in PcmLaws, NEW x \in Int, NEW y \in Int,
         -32768 <= x, x <= y, y <= 32767
  PROVE  Value(c, x) <= Value(c, y)
  <1>1. CASE x >= 0
    <2>1. /\ Value(c, x) = IF c = "PcmU" THEN ULevel(x) ELSE ALevel(x)
          /\ Value(c, y) = IF c = "PcmU" THEN ULevel(y) ELSE ALevel(y)
      BY <1>1 DEF Value, UValue, AValue
    <2> QED  BY <1>1, <2>1, LevelsAscend
  <1>2. CASE y < 0
    <2> DEFINE m == -x  n == -y
    <2>1. m \in Int /\ n \in Int /\ 0 <= n /\ n <= m /\ m <= 32768
      BY <1>2
    <2>2. /\ Value(c, x) = IF c = "PcmU" THEN -ULevel(m) ELSE -NegativeALevel(m)
          /\ Value(c, y) = IF c = "PcmU" THEN -ULevel(n) ELSE -NegativeALevel(n)
      BY <1>2 DEF Value, UValue, AValue
    <2> HIDE DEF m, n
    <2>3. ULevel(n) <= ULevel(m) /\ NegativeALevel(n) <= NegativeALevel(m)
      BY <2>1, LevelsAscend
    <2> QED  BY <2>1, <2>2, <2>3, LevelBounds, NegativeBounds
  <1>3. CASE x < 0 /\ y >= 0
    <2> DEFINE m == -x
    <2>1. m \in Int /\ 0 <= m /\ m <= 32768
      BY <1>3
    <2>2. /\ Value(c, x) = IF c = "PcmU" THEN -ULevel(m) ELSE -NegativeALevel(m)
          /\ Value(c, y) = IF c = "PcmU" THEN ULevel(y) ELSE ALevel(y)
      BY <1>3 DEF Value, UValue, AValue
    <2> HIDE DEF m
    <2> QED  BY <1>3, <2>1, <2>2, LevelBounds, NegativeBounds
  <1> QED  BY <1>1, <1>2, <1>3

----------------------------------------------------------------------------
(***************************************************************************)
(* The coders of G711 compute these levels.                                *)
(***************************************************************************)
LEMMA SegmentEnds ==
  /\ SegmentEnd[1] = 255 /\ SegmentEnd[2] = 511 /\ SegmentEnd[3] = 1023
  /\ SegmentEnd[4] = 2047 /\ SegmentEnd[5] = 4095 /\ SegmentEnd[6] = 8191
  /\ SegmentEnd[7] = 16383 /\ SegmentEnd[8] = 32767
  BY DEF SegmentEnd

\* The loop through seg_end stops at one segment only (codec.cpp:462-468, 575-581).
LEMMA OneSegment ==
  ASSUME NEW m \in Int, NEW s \in 0 .. 8,
         s < 8 => m <= SegmentEnd[s + 1],
         s > 0 => m > SegmentEnd[s]
  PROVE  Segment(m) = s
  <1> DEFINE Stops(seg) == /\ seg < 8 => m <= SegmentEnd[seg + 1]
                           /\ seg > 0 => m > SegmentEnd[seg]
  <1>1. \A seg \in 0 .. 8 : Stops(seg) => seg = s
    BY SegmentEnds
  <1>2. Stops(s)
    OBVIOUS
  <1> HIDE DEF Stops
  <1>3. (CHOOSE seg \in 0 .. 8 : Stops(seg)) = s
    BY <1>1, <1>2
  <1> QED  BY <1>3 DEF Segment, Stops

LEMMA Segments ==
  ASSUME NEW m \in Int
  PROVE  /\ m < 256 => Segment(m) = 0
         /\ m >= 256 /\ m < 512 => Segment(m) = 1
         /\ m >= 512 /\ m < 1024 => Segment(m) = 2
         /\ m >= 1024 /\ m < 2048 => Segment(m) = 3
         /\ m >= 2048 /\ m < 4096 => Segment(m) = 4
         /\ m >= 4096 /\ m < 8192 => Segment(m) = 5
         /\ m >= 8192 /\ m < 16384 => Segment(m) = 6
         /\ m >= 16384 /\ m < 32768 => Segment(m) = 7
         /\ m >= 32768 => Segment(m) = 8
  BY OneSegment, SegmentEnds

Width(k) == 2 ^ (k + 3)

\* The cells of a segment, and where in it they lie.
LEMMA SegmentCells ==
  ASSUME NEW m \in Int, m < 32768
  PROVE  /\ Segment(m) \in 0 .. 7
         /\ Level(m) = Cell(m, Width(Segment(m)))
         /\ m < 32 * Width(Segment(m))
         /\ Segment(m) > 0 => 16 * Width(Segment(m)) <= m
  <1> DEFINE In(k) == /\ Segment(m) = k
                      /\ Level(m) = Cell(m, Width(k))
                      /\ m < 32 * Width(k)
                      /\ k > 0 => 16 * Width(k) <= m
  <1>1. CASE m < 256
    <2>1. In(0)
      BY <1>1, Segments DEF Level, Width
    <2> QED  BY <2>1
  <1>2. CASE m >= 256 /\ m < 512
    <2>1. In(1)
      BY <1>2, Segments DEF Level, Width
    <2> QED  BY <2>1
  <1>3. CASE m >= 512 /\ m < 1024
    <2>1. In(2)
      BY <1>3, Segments DEF Level, Width
    <2> QED  BY <2>1
  <1>4. CASE m >= 1024 /\ m < 2048
    <2>1. In(3)
      BY <1>4, Segments DEF Level, Width
    <2> QED  BY <2>1
  <1>5. CASE m >= 2048 /\ m < 4096
    <2>1. In(4)
      BY <1>5, Segments DEF Level, Width
    <2> QED  BY <2>1
  <1>6. CASE m >= 4096 /\ m < 8192
    <2>1. In(5)
      BY <1>6, Segments DEF Level, Width
    <2> QED  BY <2>1
  <1>7. CASE m >= 8192 /\ m < 16384
    <2>1. In(6)
      BY <1>7, Segments DEF Level, Width
    <2> QED  BY <2>1
  <1>8. CASE m >= 16384
    <2>1. In(7)
      BY <1>8, Segments DEF Level, Width
    <2> QED  BY <2>1
  <1> QED  BY <1>1, <1>2, <1>3, <1>4, <1>5, <1>6, <1>7, <1>8

\* The cell of a segment that a code names with its last four bits
\* (codec.cpp:473-477, 585-594), and what the table of the u-law decoder and the one
\* of the A-law decoder hold for it (codec.cpp:499-531, 613-646).
Mantissa(m, k) == (m \div 2 ^ (k + 3)) % 16
Table(k, q) == (q * 8 + 132) * 2 ^ k

LEMMA CellNumber ==
  ASSUME NEW k \in 0 .. 7, NEW m \in Int, 16 * Width(k) <= m, m < 32 * Width(k)
  PROVE  /\ Mantissa(m, k) \in 0 .. 15
         /\ Table(k, Mantissa(m, k)) = Cell(m, Width(k))
  <1> DEFINE Fits(n) == /\ Mantissa(m, n) \in 0 .. 15
                        /\ Table(n, Mantissa(m, n)) = Cell(m, Width(n))
  <1>0. CASE k = 0
    <2>1. Fits(0)
      BY <1>0 DEF Cell, Mantissa, Table, Width
    <2> QED  BY <1>0, <2>1
  <1>1. CASE k = 1
    <2>1. Fits(1)
      BY <1>1 DEF Cell, Mantissa, Table, Width
    <2> QED  BY <1>1, <2>1
  <1>2. CASE k = 2
    <2>1. Fits(2)
      BY <1>2 DEF Cell, Mantissa, Table, Width
    <2> QED  BY <1>2, <2>1
  <1>3. CASE k = 3
    <2>1. Fits(3)
      BY <1>3 DEF Cell, Mantissa, Table, Width
    <2> QED  BY <1>3, <2>1
  <1>4. CASE k = 4
    <2>1. Fits(4)
      BY <1>4 DEF Cell, Mantissa, Table, Width
    <2> QED  BY <1>4, <2>1
  <1>5. CASE k = 5
    <2>1. Fits(5)
      BY <1>5 DEF Cell, Mantissa, Table, Width
    <2> QED  BY <1>5, <2>1
  <1>6. CASE k = 6
    <2>1. Fits(6)
      BY <1>6 DEF Cell, Mantissa, Table, Width
    <2> QED  BY <1>6, <2>1
  <1>7. CASE k = 7
    <2>1. Fits(7)
      BY <1>7 DEF Cell, Mantissa, Table, Width
    <2> QED  BY <1>7, <2>1
  <1> QED  BY <1>0, <1>1, <1>2, <1>3, <1>4, <1>5, <1>6, <1>7

\* The masks invert all bits, all but the sign, or every second one.
LEMMA Masks ==
  ASSUME NEW c \in Int, 0 <= c, c < 128
  PROVE  /\ Xor(c, 255) = 255 - c
         /\ Xor(c, 127) = 127 - c
         /\ Xor(c, 213) = Xor(c + 128, 85)
  BY SMTT(30) DEF Xor

LEMMA MaskTwice ==
  ASSUME NEW c \in Int, 0 <= c, c < 256
  PROVE  /\ Xor(c, 85) \in Int /\ 0 <= Xor(c, 85) /\ Xor(c, 85) < 256
         /\ Xor(Xor(c, 85), 85) = c
  <1>1. Xor(c, 85) \in Int /\ 0 <= Xor(c, 85) /\ Xor(c, 85) < 256
    BY SMTT(30) DEF Xor
  <1>2. Xor(Xor(c, 85), 85) = c
    BY SMTT(30) DEF Xor
  <1> QED  BY <1>1, <1>2

\* What the u-law table holds for a code of segment k (codec.cpp:499-527).
LEMMA ULawTable ==
  ASSUME NEW k \in 0 .. 7, NEW q \in 0 .. 15
  PROVE  /\ ULawDecode(255 - (k * 16 + q)) = Table(k, q) - 132
         /\ ULawDecode(127 - (k * 16 + q)) = -(Table(k, q) - 132)
  <1> DEFINE c == k * 16 + q  e == 255 - c  f == 127 - c  u == 255 - e  v == 255 - f
  <1>1. /\ u % 16 = q /\ (u \div 16) % 8 = k /\ ~(e < 128)
        /\ v % 16 = q /\ (v \div 16) % 8 = k /\ f < 128
    OBVIOUS
  <1> HIDE DEF u, v, e, f
  <1>2. /\ ULawDecode(e) = Table(k, q) - 132
        /\ ULawDecode(f) = -(Table(k, q) - 132)
    BY <1>1 DEF ULawDecode, Table, u, v
  <1> QED  BY <1>2 DEF e, f, c

LEMMA ULawCode ==
  ASSUME NEW k \in 0 .. 7, NEW q \in 0 .. 15, NEW w \in Int,
         Table(k, q) - 132 = w
  PROVE  /\ Xor(k * 16 + q, 255) \in Int
         /\ 0 <= Xor(k * 16 + q, 255) /\ Xor(k * 16 + q, 255) <= 255
         /\ ULawDecode(Xor(k * 16 + q, 255)) = w
         /\ Xor(k * 16 + q, 127) \in Int
         /\ 0 <= Xor(k * 16 + q, 127) /\ Xor(k * 16 + q, 127) <= 255
         /\ ULawDecode(Xor(k * 16 + q, 127)) = -w
  <1> DEFINE c == k * 16 + q
  <1>1. c \in Int /\ 0 <= c /\ c < 128
    OBVIOUS
  <1>2. ULawDecode(255 - c) = w /\ ULawDecode(127 - c) = -w
    BY ULawTable
  <1> HIDE DEF c
  <1>3. Xor(c, 255) = 255 - c /\ Xor(c, 127) = 127 - c
    BY <1>1, Masks
  <1>4. /\ Xor(c, 255) \in Int /\ 0 <= Xor(c, 255) /\ Xor(c, 255) <= 255
        /\ Xor(c, 127) \in Int /\ 0 <= Xor(c, 127) /\ Xor(c, 127) <= 255
    BY <1>1, <1>3
  <1>5. ULawDecode(Xor(c, 255)) = w /\ ULawDecode(Xor(c, 127)) = -w
    BY <1>2, <1>3
  <1> QED  BY <1>4, <1>5 DEF c

\* The code of a magnitude before it is masked.
UCode(m) ==
  IF Segment(m + 132) >= 8 THEN 127
  ELSE Code(Segment(m + 132), Segment(m + 132) + 3, m + 132)

\* The cell it names.
USegment(m) == IF m < 32636 THEN Segment(m + 132) ELSE 7
UMantissa(m) == IF m < 32636 THEN Mantissa(m + 132, Segment(m + 132)) ELSE 15

LEMMA ULawCell ==
  ASSUME NEW m \in Int, 0 <= m, m <= 32768
  PROVE  /\ USegment(m) \in 0 .. 7
         /\ UMantissa(m) \in 0 .. 15
         /\ Table(USegment(m), UMantissa(m)) - 132 = ULevel(m)
         /\ UCode(m) = USegment(m) * 16 + UMantissa(m)
  <1>1. CASE m < 32636
    <2> DEFINE M == m + 132  k == Segment(M)  q == Mantissa(M, k)
    <2>1. M \in Int /\ 132 <= M /\ M < 32768
      BY <1>1
    <2>2. ULevel(m) = Level(M) - 132
      BY <1>1 DEF ULevel
    <2> HIDE DEF M
    <2>3. /\ k \in 0 .. 7
          /\ Level(M) = Cell(M, Width(k))
          /\ M < 32 * Width(k)
          /\ k > 0 => 16 * Width(k) <= M
      BY <2>1, SegmentCells
    <2> HIDE DEF k
    <2>4. 16 * Width(k) <= M
      <3>1. CASE k = 0
        <4>1. 16 * Width(0) = 128
          BY DEF Width
        <4> QED  BY <2>1, <3>1, <4>1
      <3> QED  BY <2>3, <3>1
    <2>5. q \in 0 .. 15 /\ Table(k, q) = Cell(M, Width(k))
      BY <2>1, <2>3, <2>4, CellNumber
    <2>6. ~(k >= 8) /\ Code(k, k + 3, M) = k * 16 + q
      BY <2>3 DEF Code, Mantissa
    <2>7. Table(k, q) - 132 = ULevel(m)
      BY <2>2, <2>3, <2>5
    <2>8. UCode(m) = k * 16 + q
      BY <2>6 DEF UCode, k, M
    <2>9. USegment(m) = k /\ UMantissa(m) = q
      BY <1>1 DEF USegment, UMantissa, k, M
    <2> QED  BY <2>3, <2>5, <2>7, <2>8, <2>9
  <1>2. CASE m >= 32636
    <2>1. Segment(m + 132) = 8
      BY <1>2, Segments
    <2>2. ULevel(m) = 32124
      BY <1>2 DEF ULevel
    <2>3. Table(7, 15) - 132 = 32124 /\ 127 = 7 * 16 + 15
      BY DEF Table
    <2>4. UCode(m) = 127
      BY <2>1 DEF UCode
    <2>5. USegment(m) = 7 /\ UMantissa(m) = 15
      BY <1>2 DEF USegment, UMantissa
    <2> QED  BY <2>2, <2>3, <2>4, <2>5
  <1> QED  BY <1>1, <1>2

LEMMA ULawMasked ==
  ASSUME NEW m \in Int, 0 <= m, m <= 32768
  PROVE  /\ Xor(UCode(m), 255) \in Int
         /\ 0 <= Xor(UCode(m), 255) /\ Xor(UCode(m), 255) <= 255
         /\ ULawDecode(Xor(UCode(m), 255)) = ULevel(m)
         /\ Xor(UCode(m), 127) \in Int
         /\ 0 <= Xor(UCode(m), 127) /\ Xor(UCode(m), 127) <= 255
         /\ ULawDecode(Xor(UCode(m), 127)) = -ULevel(m)
  <1> DEFINE k == USegment(m)  q == UMantissa(m)
  <1>1. /\ k \in 0 .. 7 /\ q \in 0 .. 15
        /\ Table(k, q) - 132 = ULevel(m) /\ UCode(m) = k * 16 + q
    BY ULawCell
  <1>2. ULevel(m) \in Int
    BY LevelBounds
  <1> DEFINE c == k * 16 + q  w == ULevel(m)
  <1> HIDE DEF k, q, w
  <1>3. /\ k \in 0 .. 7 /\ q \in 0 .. 15 /\ w \in Int
        /\ Table(k, q) - 132 = w
    BY <1>1, <1>2 DEF w
  <1>4. /\ Xor(c, 255) \in Int /\ 0 <= Xor(c, 255) /\ Xor(c, 255) <= 255
        /\ ULawDecode(Xor(c, 255)) = w
        /\ Xor(c, 127) \in Int /\ 0 <= Xor(c, 127) /\ Xor(c, 127) <= 255
        /\ ULawDecode(Xor(c, 127)) = -w
    BY <1>3, ULawCode
  <1>5. UCode(m) = c
    BY <1>1
  <1> HIDE DEF c
  <1> QED  BY <1>4, <1>5 DEF w

\* PcmUEnCoder and PcmUDeCoder (codec.cpp:442-479, 499-531).
LEMMA ULawRoundTrip ==
  ASSUME NEW x \in Int, -32768 <= x, x <= 32767
  PROVE  /\ ULawEncode(x) \in Int /\ 0 <= ULawEncode(x) /\ ULawEncode(x) <= 255
         /\ ULawDecode(ULawEncode(x)) = UValue(x)
  <1>1. CASE x < 0
    <2> DEFINE m == -x
    <2>1. m \in Int /\ 0 <= m /\ m <= 32768
      BY <1>1
    <2>2. UValue(x) = -ULevel(m) /\ ULawEncode(x) = Xor(UCode(m), 127)
      BY <1>1 DEF UValue, ULawEncode, UCode
    <2> HIDE DEF m
    <2> QED  BY <2>1, <2>2, ULawMasked
  <1>2. CASE x >= 0
    <2>1. UValue(x) = ULevel(x) /\ ULawEncode(x) = Xor(UCode(x), 255)
      BY <1>2 DEF UValue, ULawEncode, UCode
    <2> QED  BY <1>2, <2>1, ULawMasked
  <1> QED  BY <1>1, <1>2

\* The same of the A-law, whose two lowest segments have cells of 16.
ACode(m) == Code(Segment(m), IF Segment(m) < 2 THEN 4 ELSE Segment(m) + 3, m)
AMantissa(m, k) == (m \div 2 ^ (IF k < 2 THEN 4 ELSE k + 3)) % 16
ATable(k, q) == IF k = 0 THEN q * 16 + 8 ELSE (q * 16 + 264) * 2 ^ (k - 1)

LEMMA ALawCell ==
  ASSUME NEW m \in Int, 0 <= m, m < 32768
  PROVE  /\ Segment(m) \in 0 .. 7
         /\ AMantissa(m, Segment(m)) \in 0 .. 15
         /\ ATable(Segment(m), AMantissa(m, Segment(m))) = ALevel(m)
         /\ ACode(m) = Segment(m) * 16 + AMantissa(m, Segment(m))
  <1> DEFINE Fits(k) == /\ AMantissa(m, k) \in 0 .. 15
                        /\ ATable(k, AMantissa(m, k)) = ALevel(m)
  <1>1. /\ Segment(m) \in 0 .. 7
        /\ Level(m) = Cell(m, Width(Segment(m)))
        /\ m < 32 * Width(Segment(m))
        /\ Segment(m) > 0 => 16 * Width(Segment(m)) <= m
    BY SegmentCells
  <1>2. CASE Segment(m) = 0
    <2>1. m < 256
      BY <1>1, <1>2 DEF Width
    <2>2. ALevel(m) = Cell(m, 16)
      BY <2>1 DEF ALevel
    <2>3. Fits(0)
      BY <2>1, <2>2 DEF Cell, AMantissa, ATable
    <2> QED  BY <1>1, <1>2, <2>3 DEF ACode, Code, AMantissa
  <1>3. CASE Segment(m) = 1
    <2>1. 256 <= m /\ m < 512
      BY <1>1, <1>3 DEF Width
    <2>2. ALevel(m) = Cell(m, 16)
      BY <1>1, <1>3, <2>1 DEF ALevel, Width
    <2>3. Fits(1)
      BY <2>1, <2>2 DEF Cell, AMantissa, ATable
    <2> QED  BY <1>1, <1>3, <2>3 DEF ACode, Code, AMantissa
  <1>4. CASE Segment(m) = 2
    <2>1. 512 <= m /\ m < 1024
      BY <1>1, <1>4 DEF Width
    <2>2. ALevel(m) = Cell(m, 32)
      BY <1>1, <1>4, <2>1 DEF ALevel, Width
    <2>3. Fits(2)
      BY <2>1, <2>2 DEF Cell, AMantissa, ATable
    <2> QED  BY <1>1, <1>4, <2>3 DEF ACode, Code, AMantissa
  <1>5. CASE Segment(m) = 3
    <2>1. 1024 <= m /\ m < 2048
      BY <1>1, <1>5 DEF Width
    <2>2. ALevel(m) = Cell(m, 64)
      BY <1>1, <1>5, <2>1 DEF ALevel, Width
    <2>3. Fits(3)
      BY <2>1, <2>2 DEF Cell, AMantissa, ATable
    <2> QED  BY <1>1, <1>5, <2>3 DEF ACode, Code, AMantissa
  <1>6. CASE Segment(m) = 4
    <2>1. 2048 <= m /\ m < 4096
      BY <1>1, <1>6 DEF Width
    <2>2. ALevel(m) = Cell(m, 128)
      BY <1>1, <1>6, <2>1 DEF ALevel, Width
    <2>3. Fits(4)
      BY <2>1, <2>2 DEF Cell, AMantissa, ATable
    <2> QED  BY <1>1, <1>6, <2>3 DEF ACode, Code, AMantissa
  <1>7. CASE Segment(m) = 5
    <2>1. 4096 <= m /\ m < 8192
      BY <1>1, <1>7 DEF Width
    <2>2. ALevel(m) = Cell(m, 256)
      BY <1>1, <1>7, <2>1 DEF ALevel, Width
    <2>3. Fits(5)
      BY <2>1, <2>2 DEF Cell, AMantissa, ATable
    <2> QED  BY <1>1, <1>7, <2>3 DEF ACode, Code, AMantissa
  <1>8. CASE Segment(m) = 6
    <2>1. 8192 <= m /\ m < 16384
      BY <1>1, <1>8 DEF Width
    <2>2. ALevel(m) = Cell(m, 512)
      BY <1>1, <1>8, <2>1 DEF ALevel, Width
    <2>3. Fits(6)
      BY <2>1, <2>2 DEF Cell, AMantissa, ATable
    <2> QED  BY <1>1, <1>8, <2>3 DEF ACode, Code, AMantissa
  <1>9. CASE Segment(m) = 7
    <2>1. 16384 <= m /\ m < 32768
      BY <1>1, <1>9 DEF Width
    <2>2. ALevel(m) = Cell(m, 1024)
      BY <1>1, <1>9, <2>1 DEF ALevel, Width
    <2>3. Fits(7)
      BY <2>1, <2>2 DEF Cell, AMantissa, ATable
    <2> QED  BY <1>1, <1>9, <2>3 DEF ACode, Code, AMantissa
  <1> QED  BY <1>1, <1>2, <1>3, <1>4, <1>5, <1>6, <1>7, <1>8, <1>9

\* What the A-law table holds for a code (codec.cpp:613-642).
LEMMA ALawTable ==
  ASSUME NEW k \in 0 .. 7, NEW q \in 0 .. 15, NEW w \in Int, ATable(k, q) = w
  PROVE  /\ Xor(k * 16 + q, 213) \in Int
         /\ 0 <= Xor(k * 16 + q, 213) /\ Xor(k * 16 + q, 213) <= 255
         /\ ALawDecode(Xor(k * 16 + q, 213)) = w
         /\ Xor(k * 16 + q, 85) \in Int
         /\ 0 <= Xor(k * 16 + q, 85) /\ Xor(k * 16 + q, 85) <= 255
         /\ ALawDecode(Xor(k * 16 + q, 85)) = -w
  <1> DEFINE c == k * 16 + q  d == c + 128
  <1>1. c \in Int /\ 0 <= c /\ c < 128 /\ d \in Int /\ 0 <= d /\ d < 256
    OBVIOUS
  <1>2. /\ c % 16 = q /\ (c \div 16) % 8 = k /\ ~(c >= 128)
        /\ d % 16 = q /\ (d \div 16) % 8 = k /\ d >= 128
    OBVIOUS
  <1>3. ASSUME NEW code, NEW a, Xor(code, 85) = a, a % 16 = q, (a \div 16) % 8 = k
        PROVE  ALawDecode(code) = IF a >= 128 THEN w ELSE -w
    BY <1>3 DEF ALawDecode, ATable
  <1> HIDE DEF c, d
  <1>4. Xor(c, 213) = Xor(d, 85)
    BY <1>1, Masks DEF d
  <1>5. /\ Xor(c, 85) \in Int /\ 0 <= Xor(c, 85) /\ Xor(c, 85) <= 255
        /\ Xor(Xor(c, 85), 85) = c
        /\ Xor(d, 85) \in Int /\ 0 <= Xor(d, 85) /\ Xor(d, 85) <= 255
        /\ Xor(Xor(d, 85), 85) = d
    BY <1>1, MaskTwice
  <1>6. ALawDecode(Xor(c, 85)) = -w /\ ALawDecode(Xor(d, 85)) = w
    BY <1>2, <1>3, <1>5
  <1> QED  BY <1>4, <1>5, <1>6 DEF c

LEMMA ALawMasked ==
  ASSUME NEW m \in Int, 0 <= m, m < 32768
  PROVE  /\ Xor(ACode(m), 213) \in Int
         /\ 0 <= Xor(ACode(m), 213) /\ Xor(ACode(m), 213) <= 255
         /\ ALawDecode(Xor(ACode(m), 213)) = ALevel(m)
         /\ Xor(ACode(m), 85) \in Int
         /\ 0 <= Xor(ACode(m), 85) /\ Xor(ACode(m), 85) <= 255
         /\ ALawDecode(Xor(ACode(m), 85)) = -ALevel(m)
  <1> DEFINE k == Segment(m)  q == AMantissa(m, k)
  <1>1. /\ k \in 0 .. 7 /\ q \in 0 .. 15
        /\ ATable(k, q) = ALevel(m) /\ ACode(m) = k * 16 + q
    BY ALawCell
  <1>2. ALevel(m) \in Int
    BY LevelBounds
  <1> DEFINE c == k * 16 + q  w == ALevel(m)
  <1> HIDE DEF k, q, w
  <1>3. /\ k \in 0 .. 7 /\ q \in 0 .. 15 /\ w \in Int
        /\ ATable(k, q) = w
    BY <1>1, <1>2 DEF w
  <1>4. /\ Xor(c, 213) \in Int /\ 0 <= Xor(c, 213) /\ Xor(c, 213) <= 255
        /\ ALawDecode(Xor(c, 213)) = w
        /\ Xor(c, 85) \in Int /\ 0 <= Xor(c, 85) /\ Xor(c, 85) <= 255
        /\ ALawDecode(Xor(c, 85)) = -w
    BY <1>3, ALawTable
  <1>5. ACode(m) = c
    BY <1>1
  <1> HIDE DEF c
  <1> QED  BY <1>4, <1>5 DEF w

\* PcmAEnCoder and PcmADeCoder (codec.cpp:554-594, 613-646).
LEMMA ALawRoundTrip ==
  ASSUME NEW x \in Int, -32768 <= x, x <= 32767
  PROVE  /\ ALawEncode(x) \in Int /\ 0 <= ALawEncode(x) /\ ALawEncode(x) <= 255
         /\ ALawDecode(ALawEncode(x)) = AValue(x)
  <1>1. CASE x >= 0
    <2>1. AValue(x) = ALevel(x) /\ ALawEncode(x) = Xor(ACode(x), 213)
      BY <1>1 DEF AValue, ALawEncode, ACode
    <2> QED  BY <1>1, <2>1, ALawMasked
  <1>2. CASE x < 0 /\ x > -8
    <2>1. ALawEncode(x) = Xor(ACode(0), 85)
      BY <1>2 DEF ALawEncode, ACode
    <2>2. AValue(x) = -8
      BY <1>2 DEF AValue, NegativeALevel
    <2>3. ALevel(0) = 8
      BY DEF ALevel, Cell
    <2> QED  BY <2>1, <2>2, <2>3, ALawMasked
  <1>3. CASE x <= -8
    <2> DEFINE m == -x - 8
    <2>1. m \in Int /\ 0 <= m /\ m < 32768
      BY <1>3
    <2>2. AValue(x) = -ALevel(m) /\ ALawEncode(x) = Xor(ACode(m), 85)
      BY <1>3 DEF AValue, NegativeALevel, ALawEncode, ACode
    <2> HIDE DEF m
    <2> QED  BY <2>1, <2>2, ALawMasked
  <1> QED  BY <1>1, <1>2, <1>3

----------------------------------------------------------------------------
(***************************************************************************)
(* What a chain of laws makes of a magnitude.                              *)
(***************************************************************************)
\* l is the middle of the cell of m: for u-law, A-law, and A-law of a
\* negative sample.
IsULevel(m, l) ==
  /\ m < 124 => l = ((m + 132) \div 8) * 8 - 128
  /\ m >= 124 /\ m < 380 => l = ((m + 132) \div 16) * 16 - 124
  /\ m >= 380 /\ m < 892 => l = ((m + 132) \div 32) * 32 - 116
  /\ m >= 892 /\ m < 1916 => l = ((m + 132) \div 64) * 64 - 100
  /\ m >= 1916 /\ m < 3964 => l = ((m + 132) \div 128) * 128 - 68
  /\ m >= 3964 /\ m < 8060 => l = ((m + 132) \div 256) * 256 - 4
  /\ m >= 8060 /\ m < 16252 => l = ((m + 132) \div 512) * 512 + 124
  /\ m >= 16252 /\ m < 32636 => l = ((m + 132) \div 1024) * 1024 + 380
  /\ m >= 32636 => l = 32124

IsALevel(m, l) ==
  /\ m < 512 => l = (m \div 16) * 16 + 8
  /\ m >= 512 /\ m < 1024 => l = (m \div 32) * 32 + 16
  /\ m >= 1024 /\ m < 2048 => l = (m \div 64) * 64 + 32
  /\ m >= 2048 /\ m < 4096 => l = (m \div 128) * 128 + 64
  /\ m >= 4096 /\ m < 8192 => l = (m \div 256) * 256 + 128
  /\ m >= 8192 /\ m < 16384 => l = (m \div 512) * 512 + 256
  /\ m >= 16384 => l = (m \div 1024) * 1024 + 512

IsNegativeALevel(m, l) == IF m < 8 THEN l = 8 ELSE IsALevel(m - 8, l)

LEMMA LevelCells ==
  ASSUME NEW m \in Int, 0 <= m
  PROVE  /\ m <= 32768 => IsULevel(m, ULevel(m))
         /\ m < 32768 => IsALevel(m, ALevel(m))
         /\ m <= 32768 => IsNegativeALevel(m, NegativeALevel(m))
  <1>1. m <= 32768 => IsULevel(m, ULevel(m))
    BY SMTT(30) DEF IsULevel, ULevel, Level, Cell
  <1>2. ASSUME NEW n \in Int, 0 <= n, n < 32768
        PROVE  IsALevel(n, ALevel(n))
    BY <1>2, SMTT(30) DEF IsALevel, ALevel, Level, Cell
  <1>3. m <= 32768 => IsNegativeALevel(m, NegativeALevel(m))
    <2>1. CASE m < 8
      BY <2>1 DEF IsNegativeALevel, NegativeALevel
    <2>2. CASE m >= 8 /\ m <= 32768
      <3>1. m - 8 \in Int /\ 0 <= m - 8 /\ m - 8 < 32768
        BY <2>2
      <3>2. IsALevel(m - 8, ALevel(m - 8))
        BY <1>2, <3>1
      <3> QED  BY <2>2, <3>2 DEF IsNegativeALevel, NegativeALevel
    <2> QED  BY <2>1, <2>2
  <1> QED  BY <1>1, <1>2, <1>3

\* The levels of one law stay where they are under it.
LEMMA LevelsStay ==
  ASSUME NEW m \in Int, NEW l \in Int, NEW n \in Int, 0 <= m
  PROVE  /\ m <= 32768 /\ IsULevel(m, l) /\ IsULevel(l, n) => n = l
         /\ m < 32768 /\ IsALevel(m, l) /\ IsALevel(l, n) => n = l
  BY SMTT(30) DEF IsULevel, IsALevel

\* Where the cells of both laws are as wide a level and the nearest one of
\* the other law lead to each other; where they are not, or a level lies
\* beyond the boundary of a segment, they do after one more change.
LEMMA LevelsSettle ==
  ASSUME NEW m \in Int, NEW k \in Int, NEW l \in Int, NEW n \in Int, NEW p \in Int,
         0 <= m, m < 32768
  PROVE  /\ IsALevel(m, k) /\ IsULevel(k, l) /\ IsALevel(l, n) /\ IsULevel(n, p) => p = l
         /\ IsULevel(m, k) /\ IsALevel(k, l) /\ IsULevel(l, n) /\ IsALevel(n, p) => p = l
  <1>1. IsALevel(m, k) /\ IsULevel(k, l) /\ IsALevel(l, n) /\ IsULevel(n, p) => p = l
    BY SMTT(30) DEF IsULevel, IsALevel
  <1>2. IsULevel(m, k) /\ IsALevel(k, l) /\ IsULevel(l, n) /\ IsALevel(n, p) => p = l
    BY SMTT(30) DEF IsULevel, IsALevel
  <1> QED  BY <1>1, <1>2

\* l is within 1/16 of m and 16.
Close(m, l) == 16 * (l - m) <= m + 256 /\ 16 * (m - l) <= m + 256

LEMMA UCloseChain ==
  ASSUME NEW m \in Int, NEW k \in Int, NEW l \in Int, NEW n \in Int,
         0 <= m, m < 32768, IsULevel(m, k), IsALevel(k, l), IsULevel(l, n)
  PROVE  Close(m, k) /\ Close(m, l) /\ Close(m, n)
  <1>1. Close(m, k) /\ Close(m, l)
    BY SMTT(30) DEF IsULevel, IsALevel, Close
  <1>2. Close(m, n)
    BY SMTT(30) DEF IsULevel, IsALevel, Close
  <1> QED  BY <1>1, <1>2

LEMMA ACloseChain ==
  ASSUME NEW m \in Int, NEW k \in Int, NEW l \in Int, NEW n \in Int,
         0 <= m, m < 32768, IsALevel(m, k), IsULevel(k, l), IsALevel(l, n)
  PROVE  Close(m, k) /\ Close(m, l) /\ Close(m, n)
  <1>1. Close(m, k) /\ Close(m, l)
    BY SMTT(30) DEF IsULevel, IsALevel, Close
  <1>2. Close(m, n)
    BY SMTT(30) DEF IsULevel, IsALevel, Close
  <1> QED  BY <1>1, <1>2

\* A law leaves what it made of a sample as it is.  However often a chain
\* changes between the two laws (codec.cpp:442-479, 554-594), a sample that
\* is not negative comes to alternate between two values, one of each law:
\* what the fourth coding makes of it is what the second made.
THEOREM LawsSettle ==
  ASSUME NEW m \in Int, 0 <= m, m < 32768
  PROVE  /\ ULevel(ULevel(m)) = ULevel(m)
         /\ ALevel(ALevel(m)) = ALevel(m)
         /\ ULevel(ALevel(ULevel(ALevel(m)))) = ULevel(ALevel(m))
         /\ ALevel(ULevel(ALevel(ULevel(m)))) = ALevel(ULevel(m))
  <1> DEFINE Small(n) == n \in Int /\ 0 <= n /\ n < 32768
  <1>1. ASSUME NEW n, Small(n)
        PROVE  Small(ULevel(n)) /\ Small(ALevel(n)) /\ IsULevel(n, ULevel(n)) /\ IsALevel(n, ALevel(n))
    BY <1>1, LevelBounds, LevelCells
  <1>2. Small(m)
    OBVIOUS
  <1>3. ULevel(ULevel(m)) = ULevel(m) /\ ALevel(ALevel(m)) = ALevel(m)
    <2> DEFINE k == ULevel(m)  l == ALevel(m)
    <2>1. Small(k) /\ IsULevel(m, k) /\ Small(l) /\ IsALevel(m, l)
      BY <1>1, <1>2
    <2> HIDE DEF k, l
    <2>2. /\ Small(ULevel(k)) /\ IsULevel(k, ULevel(k))
          /\ Small(ALevel(l)) /\ IsALevel(l, ALevel(l))
      BY <1>1, <2>1
    <2>3. ULevel(k) = k
      BY <2>1, <2>2, LevelsStay
    <2>4. ALevel(l) = l
      BY <2>1, <2>2, LevelsStay
    <2> QED  BY <2>3, <2>4 DEF k, l
  <1>4. ULevel(ALevel(ULevel(ALevel(m)))) = ULevel(ALevel(m))
    <2> DEFINE k == ALevel(m)  l == ULevel(k)  n == ALevel(l)  p == ULevel(n)
    <2>1. Small(k) /\ IsALevel(m, k)
      BY <1>1, <1>2
    <2> HIDE DEF k
    <2>2. Small(l) /\ IsULevel(k, l)
      BY <1>1, <2>1
    <2> HIDE DEF l
    <2>3. Small(n) /\ IsALevel(l, n)
      BY <1>1, <2>2
    <2> HIDE DEF n
    <2>4. Small(p) /\ IsULevel(n, p)
      BY <1>1, <2>3
    <2> HIDE DEF p
    <2>5. p = l
      BY <2>1, <2>2, <2>3, <2>4, LevelsSettle
    <2> QED  BY <2>5 DEF k, l, n, p
  <1>5. ALevel(ULevel(ALevel(ULevel(m)))) = ALevel(ULevel(m))
    <2> DEFINE k == ULevel(m)  l == ALevel(k)  n == ULevel(l)  p == ALevel(n)
    <2>1. Small(k) /\ IsULevel(m, k)
      BY <1>1, <1>2
    <2> HIDE DEF k
    <2>2. Small(l) /\ IsALevel(k, l)
      BY <1>1, <2>1
    <2> HIDE DEF l
    <2>3. Small(n) /\ IsULevel(l, n)
      BY <1>1, <2>2
    <2> HIDE DEF n
    <2>4. Small(p) /\ IsALevel(n, p)
      BY <1>1, <2>3
    <2> HIDE DEF p
    <2>5. p = l
      BY <2>1, <2>2, <2>3, <2>4, LevelsSettle
    <2> QED  BY <2>5 DEF k, l, n, p
  <1> QED  BY <1>3, <1>4, <1>5

\* So a chain makes no more than this of it.
Orbit(m) == {m, ULevel(m), ALevel(m), ALevel(ULevel(m)), ULevel(ALevel(m)),
             ULevel(ALevel(ULevel(m))), ALevel(ULevel(ALevel(m)))}

LEMMA OrbitFacts ==
  ASSUME NEW m \in Int, 0 <= m, m < 32768, NEW l \in Orbit(m)
  PROVE  /\ l \in Int /\ 0 <= l /\ l < 32768
         /\ Close(m, l)
         /\ ULevel(l) \in Orbit(m) /\ ALevel(l) \in Orbit(m)
  <1> DEFINE Small(n) == n \in Int /\ 0 <= n /\ n < 32768
             u == ULevel(m)  a == ALevel(m)  au == ALevel(u)  ua == ULevel(a)
             uau == ULevel(au)  aua == ALevel(ua)
  <1>1. ASSUME NEW n, Small(n)
        PROVE  Small(ULevel(n)) /\ Small(ALevel(n)) /\ IsULevel(n, ULevel(n)) /\ IsALevel(n, ALevel(n))
    BY <1>1, LevelBounds, LevelCells
  <1>2. Small(m)
    OBVIOUS
  <1>3. Small(u) /\ Small(a) /\ IsULevel(m, u) /\ IsALevel(m, a)
    BY <1>1, <1>2
  <1>4. Small(au) /\ Small(ua) /\ IsALevel(u, au) /\ IsULevel(a, ua)
    BY <1>1, <1>3
  <1>5. Small(uau) /\ Small(aua) /\ IsULevel(au, uau) /\ IsALevel(ua, aua)
    BY <1>1, <1>4
  <1>6. /\ ULevel(u) = u /\ ALevel(a) = a
        /\ ULevel(aua) = ua /\ ALevel(uau) = au
    BY LawsSettle
  <1>7. ALevel(au) = au /\ ALevel(aua) = aua
    BY <1>3, <1>4, LawsSettle
  <1>8. ULevel(ua) = ua /\ ULevel(uau) = uau
    BY <1>3, <1>4, LawsSettle
  <1>9. Orbit(m) = {m, u, a, au, ua, uau, aua}
    BY DEF Orbit
  <1> HIDE DEF Small
  <1>10. Small(l)
    BY <1>2, <1>3, <1>4, <1>5, <1>9
  <1>11. ULevel(l) \in Orbit(m) /\ ALevel(l) \in Orbit(m)
    BY <1>6, <1>7, <1>8, <1>9
  <1>12. Close(m, l)
    <2> HIDE DEF u, a, au, ua, uau, aua
    <2>1. /\ u \in Int /\ a \in Int /\ au \in Int /\ ua \in Int /\ uau \in Int /\ aua \in Int
      BY <1>3, <1>4, <1>5 DEF Small
    <2>2. IsULevel(m, u) /\ IsALevel(u, au) /\ IsULevel(au, uau)
      BY <1>3, <1>4, <1>5
    <2>3. IsALevel(m, a) /\ IsULevel(a, ua) /\ IsALevel(ua, aua)
      BY <1>3, <1>4, <1>5
    <2>4. Close(m, u) /\ Close(m, au) /\ Close(m, uau)
      BY <2>1, <2>2, UCloseChain
    <2>5. Close(m, a) /\ Close(m, ua) /\ Close(m, aua)
      BY <2>1, <2>3, ACloseChain
    <2>7. Close(m, m)
      BY DEF Close
    <2> QED  BY <1>9, <2>4, <2>5, <2>7
  <1> QED  BY <1>10, <1>11, <1>12 DEF Small

\* Of negative samples the chain gets quieter in the worst case round after
\* round; but above every magnitude is one that neither law makes louder.
Bounds(c) == /\ c \in Int /\ 0 <= c /\ c <= 32768
             /\ ULevel(c) <= c /\ NegativeALevel(c) <= c

Larger(m, l) == IF m < l THEN l ELSE m

LEMMA LevelsBounded ==
  ASSUME NEW m \in Int, 1 <= m, m <= 32768,
         NEW k \in Int, NEW l \in Int, NEW n \in Int, NEW p \in Int, NEW q \in Int,
         NEW r \in Int, NEW s \in Int, NEW c \in Int,
         IsNegativeALevel(m, k), l = Larger(m, k), IsULevel(l, n), p = Larger(l, n),
         IsNegativeALevel(p, q), c = Larger(p, q), IsULevel(c, r), IsNegativeALevel(c, s)
  PROVE  /\ m <= c /\ c <= 32768 /\ r <= c /\ s <= c
         /\ 16 * (c - m) <= m + 120
  BY SMTT(60) DEF IsULevel, IsALevel, IsNegativeALevel, Larger

LEMMA Bounded ==
  ASSUME NEW m \in Int, 1 <= m, m <= 32768
  PROVE  \E c : Bounds(c) /\ m <= c /\ 16 * (c - m) <= m + 120
  <1> DEFINE Magn(n) == n \in Int /\ 0 <= n /\ n <= 32768
  <1>1. ASSUME NEW n, Magn(n)
        PROVE  /\ ULevel(n) \in Int /\ 0 <= ULevel(n) /\ ULevel(n) <= 32768
               /\ NegativeALevel(n) \in Int /\ 0 <= NegativeALevel(n) /\ NegativeALevel(n) <= 32768
               /\ IsULevel(n, ULevel(n)) /\ IsNegativeALevel(n, NegativeALevel(n))
    BY <1>1, LevelBounds, NegativeBounds, LevelCells
  <1> DEFINE k == NegativeALevel(m)  l == Larger(m, k)  n == ULevel(l)
             p == Larger(l, n)  q == NegativeALevel(p)  c == Larger(p, q)
             r == ULevel(c)  s == NegativeALevel(c)
  <1>2. Magn(m)
    OBVIOUS
  <1>3. Magn(k) /\ IsNegativeALevel(m, k)
    BY <1>1, <1>2
  <1> HIDE DEF k
  <1>4. Magn(l)
    BY <1>2, <1>3 DEF Larger
  <1> HIDE DEF l
  <1>5. Magn(n) /\ IsULevel(l, n)
    BY <1>1, <1>4
  <1> HIDE DEF n
  <1>6. Magn(p)
    BY <1>4, <1>5 DEF Larger
  <1> HIDE DEF p
  <1>7. Magn(q) /\ IsNegativeALevel(p, q)
    BY <1>1, <1>6
  <1> HIDE DEF q
  <1>8. Magn(c)
    BY <1>6, <1>7 DEF Larger
  <1> HIDE DEF c
  <1>9. Magn(r) /\ IsULevel(c, r) /\ Magn(s) /\ IsNegativeALevel(c, s)
    BY <1>1, <1>8
  <1> HIDE DEF r, s
  <1>10. /\ m <= c /\ c <= 32768 /\ r <= c /\ s <= c
         /\ 16 * (c - m) <= m + 120
    BY <1>2, <1>3, <1>4, <1>5, <1>6, <1>7, <1>8, <1>9, LevelsBounded DEF l, p, c
  <1>11. Bounds(c)
    BY <1>8, <1>10 DEF Bounds, r, s
  <1> QED  BY <1>10, <1>11

\* y is what a chain of laws may have made of the sample x.
Reached(x, y) ==
  IF x >= 0 THEN y \in Orbit(x)
  ELSE \/ y \in {0, 8}
       \/ y < 0 /\ \E c : Bounds(c) /\ -x <= c /\ 16 * (c + x) <= -x + 120 /\ -y <= c

LEMMA ReachedFirst ==
  ASSUME NEW x \in Int, -32768 <= x, x <= 32767
  PROVE  Reached(x, x)
  <1>1. CASE x >= 0
    BY <1>1 DEF Reached, Orbit
  <1>2. CASE x < 0
    <2> DEFINE m == -x
    <2>1. m \in Int /\ 1 <= m /\ m <= 32768 /\ x = -m
      BY <1>2
    <2> HIDE DEF m
    <2>2. PICK c : Bounds(c) /\ m <= c /\ 16 * (c - m) <= m + 120
      BY <2>1, Bounded
    <2>3. c \in Int
      BY <2>2 DEF Bounds
    <2>4. -x <= c /\ 16 * (c + x) <= -x + 120
      BY <2>1, <2>2, <2>3
    <2>5. ~(x >= 0)
      BY <1>2
    <2> QED  BY <1>2, <2>2, <2>4, <2>5 DEF Reached
  <1> QED  BY <1>1, <1>2

LEMMA ReachedNext ==
  ASSUME NEW c \in PcmLaws, NEW x \in Int, -32768 <= x, x <= 32767,
         NEW y \in Int, -32768 <= y, y <= 32767, Reached(x, y)
  PROVE  Reached(x, Value(c, y))
  <1>1. CASE x >= 0
    <2>1. y \in Orbit(x)
      BY <1>1 DEF Reached
    <2>2. /\ 0 <= y
          /\ ULevel(y) \in Orbit(x) /\ ALevel(y) \in Orbit(x)
      BY <1>1, <2>1, OrbitFacts
    <2>3. Value(c, y) = IF c = "PcmU" THEN ULevel(y) ELSE ALevel(y)
      BY <2>2 DEF Value, UValue, AValue
    <2>4. Value(c, y) \in Orbit(x)
      BY <2>2, <2>3
    <2> QED  BY <1>1, <2>4 DEF Reached
  <1>2. CASE x < 0 /\ y \in {0, 8}
    <2>1. Value(c, y) \in {0, 8}
      <3>1. ULevel(0) = 0 /\ ULevel(8) = 8
        BY DEF ULevel, Level, Cell
      <3>2. ALevel(0) = 8 /\ ALevel(8) = 8
        BY DEF ALevel, Cell
      <3>3. Value(c, y) = IF c = "PcmU" THEN ULevel(y) ELSE ALevel(y)
        BY <1>2 DEF Value, UValue, AValue
      <3>4. CASE y = 0
        BY <3>1, <3>2, <3>3, <3>4
      <3>5. CASE y = 8
        BY <3>1, <3>2, <3>3, <3>5
      <3> QED  BY <1>2, <3>4, <3>5
    <2>2. ~(x >= 0)
      BY <1>2
    <2> QED  BY <2>1, <2>2 DEF Reached
  <1>3. CASE x < 0 /\ y \notin {0, 8}
    <2>1. ~(x >= 0)
      BY <1>3
    <2>2. PICK b : y < 0 /\ Bounds(b) /\ -x <= b /\ 16 * (b + x) <= -x + 120 /\ -y <= b
      BY <1>3, <2>1 DEF Reached
    <2> DEFINE m == -y
    <2>3. m \in Int /\ 0 <= m /\ m <= 32768 /\ m <= b
      BY <2>2
    <2>4. Value(c, y) = IF c = "PcmU" THEN -ULevel(m) ELSE -NegativeALevel(m)
      BY <2>2 DEF Value, UValue, AValue
    <2> HIDE DEF m
    <2>5. /\ b \in Int /\ 0 <= b /\ b <= 32768
          /\ ULevel(b) <= b /\ NegativeALevel(b) <= b
      BY <2>2 DEF Bounds
    <2>6. ULevel(m) <= ULevel(b) /\ NegativeALevel(m) <= NegativeALevel(b)
      BY <2>3, <2>5, LevelsAscend
    <2>7. /\ ULevel(m) \in Int /\ 0 <= ULevel(m) /\ ULevel(b) \in Int
          /\ NegativeALevel(m) \in Int /\ 8 <= NegativeALevel(m) /\ NegativeALevel(b) \in Int
      BY <2>3, <2>5, LevelBounds, NegativeBounds
    <2> DEFINE v == Value(c, y)
    <2>8. v \in Int /\ v <= 0 /\ -v <= b
      BY <2>4, <2>5, <2>6, <2>7
    <2> HIDE DEF v
    <2>9. CASE v = 0
      BY <2>1, <2>9 DEF Reached, v
    <2>10. CASE v < 0
      BY <2>1, <2>2, <2>8, <2>10 DEF Reached, v
    <2> QED  BY <2>8, <2>9, <2>10
  <1> QED  BY <1>1, <1>2, <1>3

LEMMA ReachedNear ==
  ASSUME NEW x \in Int, -32768 <= x, x <= 32767, NEW y \in Int, Reached(x, y)
  PROVE  IF x >= 0 THEN 16 * Magnitude(y - x) <= x + 256
                   ELSE y <= 8 /\ 16 * (-y + x) <= -x + 120
  <1>1. CASE x >= 0
    <2>1. Close(x, y)
      BY <1>1, OrbitFacts DEF Reached
    <2>2. 16 * (y - x) <= x + 256 /\ 16 * (x - y) <= x + 256
      BY <2>1 DEF Close
    <2>3. CASE y - x < 0
      BY <1>1, <2>2, <2>3 DEF Magnitude
    <2>4. CASE ~(y - x < 0)
      BY <1>1, <2>2, <2>4 DEF Magnitude
    <2> QED  BY <2>3, <2>4
  <1>2. CASE x < 0 /\ y \in {0, 8}
    BY <1>2
  <1>3. CASE x < 0 /\ y \notin {0, 8}
    <2>1. ~(x >= 0)
      BY <1>3
    <2>2. PICK b : y < 0 /\ Bounds(b) /\ 16 * (b + x) <= -x + 120 /\ -y <= b
      BY <1>3, <2>1 DEF Reached
    <2>3. b \in Int
      BY <2>2 DEF Bounds
    <2> QED  BY <2>1, <2>2, <2>3
  <1> QED  BY <1>1, <1>2, <1>3

----------------------------------------------------------------------------
(***************************************************************************)
(* Two neighbouring samples and their codes.                               *)
(***************************************************************************)
Bits16(x) == x \in Int /\ -32768 <= x /\ x <= 32767
Bits8(x) == x \in Int /\ 0 <= x /\ x <= 255

LEMMA Range ==
  ASSUME NEW a \in Int, NEW b \in Int, NEW x
  PROVE  x \in a .. b <=> x \in Int /\ a <= x /\ x <= b
  OBVIOUS

LEMMA BitRanges ==
  ASSUME NEW x
  PROVE  /\ x \in Int16 <=> Bits16(x)
         /\ x \in Octet <=> Bits8(x)
  <1> DEFINE low == -32768  high == 32767  least == 0  most == 255
  <1>0. low = -32768 /\ high = 32767
    OBVIOUS
  <1>1. low \in Int /\ high \in Int /\ least \in Int /\ most \in Int
    OBVIOUS
  <1> HIDE DEF low, high, least, most
  <1>2. /\ x \in low .. high <=> x \in Int /\ low <= x /\ x <= high
        /\ x \in least .. most <=> x \in Int /\ least <= x /\ x <= most
    BY <1>1, Range
  <1>3. x \in Int16 <=> Bits16(x)
    <2>1. Int16 = low .. high
      BY <1>0 DEF Int16
    <2>2. Bits16(x) <=> x \in Int /\ low <= x /\ x <= high
      BY DEF Bits16, low, high
    <2> QED  BY <1>2, <2>1, <2>2
  <1>4. x \in Octet <=> Bits8(x)
    BY <1>2, Zenon DEF Octet, Bits8, least, most
  <1> QED  BY <1>3, <1>4

LEMMA PairIs ==
  ASSUME NEW S, NEW p \in S \X S
  PROVE  /\ p[1] \in S /\ p[2] \in S /\ p # <<>>
         /\ DOMAIN p = {1, 2}
         /\ p = <<p[1], p[2]>>
  OBVIOUS

LEMMA PairMap ==
  ASSUME NEW S, NEW f, DOMAIN f = {1, 2}, f[1] \in S, f[2] \in S, f = [i \in {1, 2} |-> f[i]]
  PROVE  f \in S \X S /\ f # <<>>
  <1>1. f = <<f[1], f[2]>>
    OBVIOUS
  <1> QED  BY <1>1

\* The value a code stands for, and the sample itself before it is encoded.
Meaning(c, x) == IF c = "PcmU" THEN ULawDecode(x)
                 ELSE IF c = "PcmA" THEN ALawDecode(x) ELSE x

LEMMA EncodedPair ==
  ASSUME NEW c \in PcmLaws, NEW p \in Int16 \X Int16
  PROVE  /\ Encoded(c, p) \in Octet \X Octet /\ Encoded(c, p) # <<>>
         /\ \A i \in {1, 2} : Meaning(c, Encoded(c, p)[i]) = Value(c, p[i])
  <1>1. Bits16(p[1]) /\ Bits16(p[2]) /\ DOMAIN p = {1, 2}
    BY PairIs, BitRanges
  <1> DEFINE E(x) == IF c = "PcmU" THEN ULawEncode(x) ELSE ALawEncode(x)
             e == Encoded(c, p)
  <1>2. e = [i \in {1, 2} |-> E(p[i])]
    BY <1>1, Zenon DEF Encoded
  <1>3. ASSUME NEW x, Bits16(x)
        PROVE  Bits8(E(x)) /\ Meaning(c, E(x)) = Value(c, x)
    <2>1. x \in Int /\ -32768 <= x /\ x <= 32767
      BY <1>3 DEF Bits16
    <2>2. CASE c = "PcmU"
      BY <2>1, <2>2, ULawRoundTrip DEF Meaning, Value, Bits8
    <2>3. CASE c = "PcmA"
      BY <2>1, <2>3, ALawRoundTrip DEF Meaning, Value, Bits8
    <2> QED  BY <2>2, <2>3 DEF PcmLaws
  <1> HIDE DEF E, e
  <1>4. e[1] = E(p[1]) /\ e[2] = E(p[2]) /\ DOMAIN e = {1, 2} /\ e = [i \in {1, 2} |-> e[i]]
    BY <1>2
  <1>5. e[1] \in Octet /\ e[2] \in Octet
    BY <1>1, <1>3, <1>4, BitRanges
  <1>6. e \in Octet \X Octet /\ e # <<>>
    BY <1>4, <1>5, PairMap
  <1>7. \A i \in {1, 2} : Meaning(c, e[i]) = Value(c, p[i])
    BY <1>1, <1>3, <1>4
  <1> QED  BY <1>6, <1>7 DEF e

LEMMA DecodedPair ==
  ASSUME NEW c \in PcmLaws, NEW p \in Octet \X Octet,
         Bits16(Meaning(c, p[1])), Bits16(Meaning(c, p[2]))
  PROVE  /\ Decoded(c, p) \in Int16 \X Int16 /\ Decoded(c, p) # <<>>
         /\ \A i \in {1, 2} : Decoded(c, p)[i] = Meaning(c, p[i])
  <1> DEFINE d == Decoded(c, p)
  <1>1. DOMAIN p = {1, 2}
    BY PairIs
  <1>2. c # "PcmU" => c = "PcmA"
    BY DEF PcmLaws
  <1>3. d = [i \in {1, 2} |-> Meaning(c, p[i])]
    BY <1>1, <1>2 DEF Decoded, Meaning
  <1> HIDE DEF d
  <1>4. /\ d[1] = Meaning(c, p[1]) /\ d[2] = Meaning(c, p[2])
        /\ DOMAIN d = {1, 2} /\ d = [i \in {1, 2} |-> d[i]]
    BY <1>3
  <1>5. d[1] \in Int16 /\ d[2] \in Int16
    BY <1>4, BitRanges
  <1>6. d \in Int16 \X Int16 /\ d # <<>>
    BY <1>4, <1>5, PairMap
  <1> QED  BY <1>4, <1>6 DEF d

----------------------------------------------------------------------------
(***************************************************************************)
(* The invariant: where the media are tells which codec they have, and     *)
(* what is left of every sample is something a chain of laws makes of it.  *)
(***************************************************************************)
Stages ==
  /\ pc = "pcm" => codec = "pcm"
  /\ pc = "coded" => codec \in Codecs
  /\ pc = "amr_encode" => codec = "AMR_WB"
  /\ pc = "amr_decode" => codec = "pcm" /\ origin.amr
  /\ codec = "AMR_WB" => origin.amr
  /\ pc \in {"amr_encode", "amr_decode"} \/ codec \in {"AMR_WB", "Codec2"} => pair = <<>>
  /\ origin = [bytes |-> origin.bytes, pair |-> origin.pair, amr |-> origin.amr]

Sample(i) == Meaning(codec, pair[i])

Sounds ==
  pair # <<>> =>
    \A i \in {1, 2} : /\ Bits16(origin.pair[i]) /\ Bits16(Sample(i))
                      /\ Reached(origin.pair[i], Sample(i))

CInv == TypeOK /\ Stages /\ Sounds

LEMMA InitCInv == Init => CInv
  <1> SUFFICES ASSUME Init PROVE CInv
    OBVIOUS
  <1>1. pair \in Int16 \X Int16 /\ bytes \in Nat
    BY CoderAssumption DEF Init
  <1>2. TypeOK
    BY <1>1 DEF Init, TypeOK, Codecs, PcmLaws, Users
  <1>3. Stages
    BY DEF Init, Stages
  <1>4. Sounds
    <2> SUFFICES ASSUME NEW i \in {1, 2}
                 PROVE  /\ Bits16(origin.pair[i]) /\ Bits16(Sample(i))
                        /\ Reached(origin.pair[i], Sample(i))
      BY DEF Sounds
    <2>1. origin.pair[i] = pair[i] /\ Sample(i) = pair[i]
      BY DEF Init, Sample, Meaning
    <2>2. Bits16(pair[i])
      BY <1>1, PairIs, BitRanges
    <2>3. Reached(pair[i], pair[i])
      BY <2>2, ReachedFirst DEF Bits16
    <2> QED  BY <2>1, <2>2, <2>3
  <1> QED  BY <1>2, <1>3, <1>4 DEF CInv

\* One of the two laws codes two samples: their values have one more cell.
LEMMA EncodeLawStep ==
  ASSUME CInv, NEW c \in PcmLaws, EncodeLaw(c)
  PROVE  CInv' /\ \A i \in {1, 2} : pair # <<>> => Sample(i)' = Value(c, Sample(i))
  <1> USE DEF CInv
  <1>1. pc = "pcm" /\ codec = "pcm" /\ pc' = "coded" /\ codec' = c /\ origin' = origin
    BY DEF EncodeLaw, Stages
  <1>2. bytes \in Nat /\ bytes' \in Nat
    BY DEF EncodeLaw, TypeOK, LawLength
  <1>3. pair = <<>> => pair' = <<>>
    BY DEF EncodeLaw, Encoded
  <1>4. pair # <<>> => pair \in Int16 \X Int16
    BY <1>1 DEF TypeOK
  <1>5. pair # <<>> => /\ pair' \in Octet \X Octet /\ pair' # <<>>
                       /\ \A i \in {1, 2} : Meaning(c, pair'[i]) = Value(c, pair[i])
    BY <1>4, EncodedPair DEF EncodeLaw
  <1>6. \A i \in {1, 2} : pair # <<>> => Sample(i)' = Value(c, Sample(i))
    BY <1>1, <1>5 DEF Sample, Meaning
  <1>7. TypeOK'
    BY <1>1, <1>2, <1>3, <1>5 DEF EncodeLaw, TypeOK, Codecs, PcmLaws
  <1>8. Stages'
    BY <1>1 DEF Stages, Codecs, PcmLaws
  <1>9. Sounds'
    <2> SUFFICES ASSUME pair' # <<>>, NEW i \in {1, 2}
                 PROVE  /\ Bits16(origin.pair[i]) /\ Bits16(Sample(i)')
                        /\ Reached(origin.pair[i], Sample(i)')
      BY <1>1 DEF Sounds
    <2> DEFINE x == origin.pair[i]  y == Sample(i)
    <2>1. Bits16(x) /\ Bits16(y) /\ Reached(x, y) /\ Sample(i)' = Value(c, y)
      BY <1>3, <1>6 DEF Sounds
    <2> HIDE DEF x, y
    <2>2. Bits16(Value(c, y))
      <3>1. y \in Int /\ -32768 <= y /\ y <= 32767
        BY <2>1 DEF Bits16
      <3>2. Value(c, y) \in Int /\ -32256 <= Value(c, y) /\ Value(c, y) <= 32256
        BY <3>1, ValueType
      <3> QED  BY <3>2 DEF Bits16
    <2>3. Reached(x, Value(c, y))
      BY <2>1, ReachedNext DEF Bits16
    <2> QED  BY <2>1, <2>2, <2>3 DEF x
  <1> QED  BY <1>6, <1>7, <1>8, <1>9

\* A decoder leaves the meaning of the codes.
LEMMA DecodeLawStep ==
  ASSUME CInv, NEW u \in Users, DecodeLaw(u)
  PROVE  CInv' /\ \A i \in {1, 2} : pair # <<>> => Sample(i)' = Sample(i)
  <1> USE DEF CInv
  <1>1. /\ codec \in PcmLaws /\ codec # "pcm"
        /\ pc' = "pcm" /\ codec' = "pcm" /\ origin' = origin
    BY DEF DecodeLaw, PcmLaws
  <1>2. bytes \in Nat /\ bytes' \in Nat
    BY DEF DecodeLaw, TypeOK
  <1>3. pair = <<>> => pair' = <<>>
    BY DEF DecodeLaw, Decoded
  <1>4. pair # <<>> => pair \in Octet \X Octet
    BY <1>1 DEF TypeOK
  <1>5. pair # <<>> => \A i \in {1, 2} : Bits16(Meaning(codec, pair[i]))
    BY DEF Sounds, Sample
  <1>6. pair # <<>> => /\ pair' \in Int16 \X Int16 /\ pair' # <<>>
                       /\ \A i \in {1, 2} : pair'[i] = Meaning(codec, pair[i])
    BY <1>1, <1>4, <1>5, DecodedPair DEF DecodeLaw
  <1>7. \A i \in {1, 2} : pair # <<>> => Sample(i)' = Sample(i)
    BY <1>1, <1>6 DEF Sample, Meaning
  <1>8. TypeOK'
    BY <1>1, <1>2, <1>3, <1>6 DEF DecodeLaw, TypeOK, Codecs, PcmLaws
  <1>9. Stages'
    BY <1>1 DEF Stages, Codecs, PcmLaws
  <1>10. Sounds'
    BY <1>1, <1>3, <1>7 DEF Sounds
  <1> QED  BY <1>7, <1>8, <1>9, <1>10

LEMMA BlockSizes == \A mode \in 0 .. 15 : BlockSize(mode) \in Nat
  BY DEF BlockSize, kAmrBlockSize

\* The other steps lose the samples or leave them alone.
LEMMA OtherStep ==
  ASSUME CInv, [Next]_vars,
         \A c \in PcmLaws : ~EncodeLaw(c), \A u \in Users : ~DecodeLaw(u)
  PROVE  CInv' /\ (pair' = <<>> \/ UNCHANGED <<codec, pair>>)
  <1> USE DEF CInv
  <1>1. ASSUME TypeOK', Stages', pair' = <<>>
        PROVE  CInv' /\ (pair' = <<>> \/ UNCHANGED <<codec, pair>>)
    BY <1>1 DEF Sounds
  <1>2. ASSUME UNCHANGED <<codec, bytes, pair, user, remain, place, origin>>,
               pc' \in {pc, "refused", "undefined"}
        PROVE  CInv' /\ (pair' = <<>> \/ UNCHANGED <<codec, pair>>)
    <2>1. TypeOK'
      BY <1>2 DEF TypeOK
    <2>2. Stages'
      BY <1>2 DEF Stages
    <2>3. Sounds'
      BY <1>2 DEF Sounds, Sample
    <2> QED  BY <1>2, <2>1, <2>2, <2>3
  <1>3. CASE EncodeCodec2
    <2>1. TypeOK'
      BY <1>3 DEF EncodeCodec2, TypeOK, Codecs, kPcmFrameLength, kCodec2FrameLength
    <2>2. Stages'
      BY <1>3 DEF EncodeCodec2, Stages, Codecs
    <2> QED  BY <1>1, <1>3, <2>1, <2>2 DEF EncodeCodec2
  <1>4. ASSUME NEW u \in Users, DecodeCodec2(u)
        PROVE  CInv' /\ (pair' = <<>> \/ UNCHANGED <<codec, pair>>)
    <2>1. pair = <<>> /\ pair' = <<>>
      BY <1>4 DEF DecodeCodec2, Stages
    <2>2. TypeOK'
      BY <1>4, <2>1 DEF DecodeCodec2, TypeOK, kPcmFrameLength, kCodec2FrameLength
    <2>3. Stages'
      BY <1>4, <2>1 DEF DecodeCodec2, Stages
    <2> QED  BY <1>1, <2>1, <2>2, <2>3
  <1>5. ASSUME NEW u \in Users, AmrDecode(u)
        PROVE  CInv' /\ (pair' = <<>> \/ UNCHANGED <<codec, pair>>)
    <2>1. pair = <<>> /\ pair' = <<>>
      BY <1>5 DEF AmrDecode, Stages
    <2>2. TypeOK'
      BY <1>5, <2>1 DEF AmrDecode, TypeOK
    <2>3. Stages'
      BY <1>5, <2>1 DEF AmrDecode, Stages
    <2> QED  BY <1>1, <2>1, <2>2, <2>3
  <1>6. CASE DropLength \/ EncoderFails \/ AmrEncodeFails \/ \E u \in Users : DecoderFails(u)
    BY <1>2, <1>6 DEF DropLength, EncoderFails, AmrEncodeFails, DecoderFails, Refuse
  <1>7. CASE AmrEncode
    <2>1. TypeOK'
      BY <1>7 DEF AmrEncode, TypeOK, Codecs
    <2>2. Stages'
      BY <1>7 DEF AmrEncode, Stages
    <2> QED  BY <1>1, <1>7, <2>1, <2>2 DEF AmrEncode
  <1>8. ASSUME NEW size \in AmrPackets, AmrEncodeFrame(size)
        PROVE  CInv' /\ (pair' = <<>> \/ UNCHANGED <<codec, pair>>)
    <2>1. pair = <<>> /\ pair' = <<>>
      BY <1>8 DEF AmrEncodeFrame, Stages
    <2>2. size \in Nat
      BY <1>8 DEF AmrPackets
    <2>3. TypeOK'
      BY <1>8, <2>1, <2>2 DEF AmrEncodeFrame, TypeOK, kAmrWbFrameSample
    <2>4. Stages'
      BY <1>8, <2>1 DEF AmrEncodeFrame, Stages
    <2> QED  BY <1>1, <2>1, <2>3, <2>4
  <1>9. CASE AmrEncodeEnd
    <2>1. pair = <<>> /\ pair' = <<>> /\ codec = "AMR_WB"
      BY <1>9 DEF AmrEncodeEnd, Stages
    <2>2. TypeOK'
      BY <1>9, <2>1 DEF AmrEncodeEnd, TypeOK
    <2>3. Stages'
      BY <1>9, <2>1 DEF AmrEncodeEnd, Stages, Codecs
    <2> QED  BY <1>1, <2>1, <2>2, <2>3
  <1>10. ASSUME NEW mode \in 0 .. 15, AmrDecodeBlock(mode)
         PROVE  CInv' /\ (pair' = <<>> \/ UNCHANGED <<codec, pair>>)
    <2>1. pair = <<>> /\ pair' = <<>>
      BY <1>10 DEF AmrDecodeBlock, Stages
    <2>2. remain' \in Nat /\ place' \in 0 .. 2 /\ bytes' \in Nat
      <3> DEFINE size == BlockSize(mode)
      <3>1. size \in Nat /\ remain \in Nat /\ place \in 0 .. 2 /\ bytes \in Nat
        BY <1>10, BlockSizes DEF TypeOK
      <3>2. /\ remain >= size /\ remain' = remain - size
            /\ place' = IF place + size > 1 THEN 2 ELSE place + size
            /\ bytes' = bytes + 320
        BY <1>10 DEF AmrDecodeBlock, kPcmFrameLength
      <3> HIDE DEF size
      <3> QED  BY <3>1, <3>2
    <2>3. TypeOK'
      BY <1>10, <2>1, <2>2 DEF AmrDecodeBlock, TypeOK
    <2>4. Stages'
      BY <1>10, <2>1 DEF AmrDecodeBlock, Stages
    <2> QED  BY <1>1, <2>1, <2>3, <2>4
  <1>11. ASSUME NEW mode \in 0 .. 15, AmrDecodePastRoom(mode)
         PROVE  CInv' /\ (pair' = <<>> \/ UNCHANGED <<codec, pair>>)
    BY <1>2, <1>11 DEF AmrDecodePastRoom
  <1>12. CASE AmrDecodeEnd
    <2>1. pair = <<>> /\ pair' = <<>> /\ codec = "pcm"
      BY <1>12 DEF AmrDecodeEnd, Stages
    <2>2. TypeOK'
      BY <1>12, <2>1 DEF AmrDecodeEnd, TypeOK
    <2>3. Stages'
      BY <1>12, <2>1 DEF AmrDecodeEnd, Stages
    <2> QED  BY <1>1, <2>1, <2>2, <2>3
  <1>13. CASE UNCHANGED vars
    BY <1>2, <1>13 DEF vars
  <1> QED  BY <1>3, <1>4, <1>5, <1>6, <1>7, <1>8, <1>9, <1>10, <1>11, <1>12, <1>13 DEF Next

LEMMA NextCInv == CInv /\ [Next]_vars => CInv'
  <1> SUFFICES ASSUME CInv, [Next]_vars PROVE CInv'
    OBVIOUS
  <1>1. CASE \E c \in PcmLaws : EncodeLaw(c)
    BY <1>1, EncodeLawStep
  <1>2. CASE \E u \in Users : DecodeLaw(u)
    BY <1>2, DecodeLawStep
  <1>3. CASE (\A c \in PcmLaws : ~EncodeLaw(c)) /\ \A u \in Users : ~DecodeLaw(u)
    BY <1>3, OtherStep
  <1> QED  BY <1>1, <1>2, <1>3

THEOREM CodersInvariant == Spec => []CInv
  BY InitCInv, NextCInv, PTL DEF Spec

\* Codes fit an octet and samples 16 bits, whatever the chain, and no loop
\* consumes more than there is.
THEOREM CodersType == Spec => []TypeOK
  <1>1. CInv => TypeOK
    BY DEF CInv
  <1> QED  BY <1>1, CodersInvariant, PTL

\* Error does not add up in a chain of laws of any length, for any sample.
THEOREM ChainNoDrift == Spec => []NoDrift
  <1>1. CInv => NoDrift
    <2> DEFINE Near(x, y) == IF x >= 0 THEN 16 * Magnitude(y - x) <= x + 256
                             ELSE y <= 8 /\ 16 * (-y + x) <= -x + 120
    <2>1. ASSUME CInv, IsPcm, NEW i \in {1, 2}
          PROVE  Near(origin.pair[i], pair[i])
      <3>1. pair # <<>> /\ codec = "pcm"
        BY <2>1 DEF IsPcm, CInv, Stages
      <3>2. Sample(i) = pair[i]
        BY <3>1 DEF Sample, Meaning
      <3> DEFINE x == origin.pair[i]  y == pair[i]
      <3>3. Bits16(x) /\ Bits16(y) /\ Reached(x, y)
        BY <2>1, <3>1, <3>2 DEF CInv, Sounds
      <3> HIDE DEF x, y
      <3>4. Near(x, y)
        BY <3>3, ReachedNear DEF Bits16
      <3> QED  BY <3>4 DEF x, y
    <2>2. 1 .. 2 = {1, 2}
      OBVIOUS
    <2>3. NoDrift <=> (IsPcm => \A i \in 1 .. 2 : Near(origin.pair[i], pair[i]))
      BY DEF NoDrift
    <2> HIDE DEF Near
    <2> QED  BY <2>1, <2>2, <2>3
  <1> QED  BY <1>1, CodersInvariant, PTL

----------------------------------------------------------------------------
(***************************************************************************)
(* The order of two neighbouring samples.                                  *)
(***************************************************************************)
InOrder == pair # <<>> => Sample(1) <= Sample(2)

LEMMA NextInOrder == CInv /\ InOrder /\ [Next]_vars => InOrder'
  <1> SUFFICES ASSUME CInv, InOrder, [Next]_vars PROVE InOrder'
    OBVIOUS
  <1>1. ASSUME NEW c \in PcmLaws, EncodeLaw(c) PROVE InOrder'
    <2> SUFFICES ASSUME pair' # <<>> PROVE Sample(1)' <= Sample(2)'
      BY DEF InOrder
    <2>1. pair # <<>>
      BY <1>1 DEF EncodeLaw, Encoded
    <2>2. Sample(1)' = Value(c, Sample(1)) /\ Sample(2)' = Value(c, Sample(2))
      BY <1>1, <2>1, EncodeLawStep
    <2>3. Bits16(Sample(1)) /\ Bits16(Sample(2)) /\ Sample(1) <= Sample(2)
      BY <2>1 DEF InOrder, CInv, Sounds
    <2> DEFINE x == Sample(1)  y == Sample(2)
    <2>4. /\ x \in Int /\ y \in Int
          /\ -32768 <= x /\ x <= y /\ y <= 32767
      BY <2>3 DEF Bits16
    <2> HIDE DEF x, y
    <2>5. Value(c, x) <= Value(c, y)
      BY <2>4, LawsKeepOrder
    <2> QED  BY <2>2, <2>5 DEF x, y
  <1>2. ASSUME NEW u \in Users, DecodeLaw(u) PROVE InOrder'
    <2>1. pair = <<>> => pair' = <<>>
      BY <1>2 DEF DecodeLaw, Decoded
    <2>2. pair # <<>> => Sample(1)' = Sample(1) /\ Sample(2)' = Sample(2)
      BY <1>2, DecodeLawStep
    <2> QED  BY <2>1, <2>2 DEF InOrder
  <1>3. CASE (\A c \in PcmLaws : ~EncodeLaw(c)) /\ \A u \in Users : ~DecodeLaw(u)
    <2>1. pair' = <<>> \/ UNCHANGED <<codec, pair>>
      BY <1>3, OtherStep
    <2> QED  BY <2>1 DEF InOrder, Sample
  <1> QED  BY <1>1, <1>2, <1>3

\* Of samples that were in order to begin with, no chain of laws swaps two.
THEOREM ChainKeepsOrder ==
  ASSUME \A p \in Pairs : p[1] <= p[2]
  PROVE  Spec => []OrderKept
  <1>1. Init => InOrder
    BY DEF Init, InOrder, Sample, Meaning
  <1>2. CInv /\ InOrder => OrderKept
    <2> SUFFICES ASSUME CInv, InOrder, IsPcm PROVE pair[1] <= pair[2]
      BY DEF OrderKept
    <2>1. pair # <<>> /\ codec = "pcm"
      BY DEF IsPcm, CInv, Stages
    <2> QED  BY <2>1 DEF InOrder, Sample, Meaning
  <1> QED  BY <1>1, <1>2, NextInOrder, CodersInvariant, PTL DEF Spec

----------------------------------------------------------------------------
(***************************************************************************)
(* The duration of media made of whole samples.                            *)
(***************************************************************************)
Whole == ~origin.amr => origin.bytes % 2 = 0

Duration == SameDuration /\ Whole

LEMMA NextDuration == CInv /\ Duration /\ [Next]_vars => Duration'
  <1> SUFFICES ASSUME CInv, Duration, [Next]_vars PROVE Duration'
    OBVIOUS
  <1> USE DEF CInv, Duration
  <1>0. bytes \in Nat
    BY DEF TypeOK
  <1>1. ASSUME UNCHANGED <<codec, bytes, origin>>
        PROVE  Duration'
    BY <1>1 DEF SameDuration, Whole
  <1>2. ASSUME origin'.amr
        PROVE  Duration'
    BY <1>2 DEF SameDuration, Whole
  <1>3. ASSUME NEW c \in PcmLaws, EncodeLaw(c) PROVE Duration'
    <2>1. codec = "pcm" /\ codec' = c /\ origin' = origin /\ bytes' = bytes \div 2
      BY <1>3 DEF EncodeLaw, Stages, LawLength
    <2>2. ~origin.amr => origin.bytes = bytes /\ bytes % 2 = 0
      <3>1. ~origin.amr => origin.bytes = bytes
        BY <2>1 DEF SameDuration, PcmLaws
      <3> QED  BY <3>1 DEF Whole
    <2>3. ~origin.amr => origin.bytes = bytes' * 2
      BY <1>0, <2>1, <2>2
    <2> QED  BY <2>1, <2>3 DEF SameDuration, Whole, PcmLaws
  <1>4. ASSUME NEW u \in Users, DecodeLaw(u) PROVE Duration'
    <2>1. codec \in PcmLaws /\ codec' = "pcm" /\ origin' = origin /\ bytes' = bytes * 2
      BY <1>4 DEF DecodeLaw
    <2> QED  BY <2>1 DEF SameDuration, Whole, PcmLaws
  <1>5. CASE EncodeCodec2
    <2>1. /\ codec = "pcm" /\ codec' = "Codec2"
          /\ bytes % 320 = 0 /\ bytes' = (bytes \div 320) * 6
          /\ origin'.amr = origin.amr /\ origin'.bytes = origin.bytes
      BY <1>5 DEF EncodeCodec2, Stages, kPcmFrameLength, kCodec2FrameLength
    <2>2. (bytes' \div 6) * 320 = bytes
      BY <1>0, <2>1
    <2> QED  BY <2>1, <2>2 DEF SameDuration, Whole, PcmLaws
  <1>6. ASSUME NEW u \in Users, DecodeCodec2(u) PROVE Duration'
    <2>1. /\ codec = "Codec2" /\ codec' = "pcm" /\ origin' = origin
          /\ bytes' = (bytes \div 6) * 320
      BY <1>6 DEF DecodeCodec2, kPcmFrameLength, kCodec2FrameLength
    <2> QED  BY <2>1 DEF SameDuration, Whole, PcmLaws
  <1>7. CASE DropLength \/ EncoderFails \/ AmrEncodeFails \/ \E u \in Users : DecoderFails(u)
    BY <1>1, <1>7 DEF DropLength, EncoderFails, AmrEncodeFails, DecoderFails, Refuse
  <1>8. CASE AmrEncode
    BY <1>2, <1>8 DEF AmrEncode
  <1>9. ASSUME NEW u \in Users, AmrDecode(u) PROVE Duration'
    BY <1>2, <1>9 DEF AmrDecode, Stages
  <1>10. ASSUME NEW size \in AmrPackets, AmrEncodeFrame(size) PROVE Duration'
    BY <1>2, <1>10 DEF AmrEncodeFrame, Stages
  <1>11. CASE AmrEncodeEnd
    BY <1>1, <1>11 DEF AmrEncodeEnd
  <1>12. ASSUME NEW mode \in 0 .. 15, AmrDecodeBlock(mode) \/ AmrDecodePastRoom(mode)
         PROVE  Duration'
    BY <1>2, <1>12 DEF AmrDecodeBlock, AmrDecodePastRoom, Stages
  <1>13. CASE AmrDecodeEnd
    BY <1>1, <1>13 DEF AmrDecodeEnd
  <1>14. CASE UNCHANGED vars
    BY <1>1, <1>14 DEF vars
  <1> QED  BY <1>3, <1>4, <1>5, <1>6, <1>7, <1>8, <1>9, <1>10, <1>11, <1>12, <1>13, <1>14 DEF Next

\* Media made of whole samples keep their duration through any chain of
\* u-law, A-law and Codec2 coders, whatever room their users give them.
THEOREM ChainKeepsDuration ==
  ASSUME \A n \in Lengths : n % 2 = 0
  PROVE  Spec => []SameDuration
  <1>1. Init => Duration
    <2> SUFFICES ASSUME Init PROVE Duration
      OBVIOUS
    <2>1. codec = "pcm" /\ origin.bytes = bytes /\ bytes \in Lengths
      BY DEF Init
    <2>2. SameDuration
      BY <2>1 DEF SameDuration, PcmLaws
    <2>3. Whole
      BY <2>1 DEF Whole
    <2> QED  BY <2>2, <2>3 DEF Duration
  <1>2. Duration => SameDuration
    BY DEF Duration
  <1> QED  BY <1>1, <1>2, NextDuration, CodersInvariant, PTL DEF Spec
===============================================================================
