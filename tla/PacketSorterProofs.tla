------------------------- MODULE PacketSorterProofs --------------------------
(***************************************************************************)
(* Invariants of PacketSorter for any width of the sequence numbers, any   *)
(* set of buffers and any arguments.                                       *)
(***************************************************************************)
EXTENDS PacketSorter, SequenceTheorems, TLAPS

----------------------------------------------------------------------------
(***************************************************************************)
(* Numbers that wrap around.                                               *)
(***************************************************************************)
\* Quotient and remainder.
LEMMA Division ==
  ASSUME NEW space \in Nat \ {0}, NEW n \in Int
  PROVE  /\ n = space * (n \div space) + (n % space)
         /\ n \div space \in Int
         /\ n % space \in 0 .. space - 1
  BY Z3

\* They are the only ones.
LEMMA Remainder ==
  ASSUME NEW space \in Nat \ {0}, NEW q \in Int, NEW r \in 0 .. space - 1
  PROVE  /\ (space * q + r) % space = r
         /\ (space * q + r) \div space = q
  <1> DEFINE n == space * q + r  p == n \div space  m == n % space  d == q - p
  <1>1. n \in Int
    BY Z3
  <1> HIDE DEF n
  <1>2. n = space * p + m /\ p \in Int /\ m \in 0 .. space - 1
    BY <1>1, Division
  <1>3. space * q + r = space * p + m
    BY <1>2 DEF n
  <1> HIDE DEF p, m
  <1>4. d \in Int /\ space * d = m - r
    BY <1>2, <1>3, Z3
  <1> HIDE DEF d
  <1>5. d = 0
    <2>1. CASE d >= 1
      <3>1. space * d >= space
        BY <1>4, <2>1, Z3
      <3> QED  BY <1>2, <1>4, <3>1
    <2>2. CASE d <= -1
      <3>1. space * d <= -space
        BY <1>4, <2>2, Z3
      <3> QED  BY <1>2, <1>4, <3>1
    <2> QED  BY <1>4, <2>1, <2>2
  <1>6. q = p /\ m = r
    BY <1>2, <1>4, <1>5 DEF d
  <1> QED  BY <1>6 DEF n, p, m

\* Remainders do not see multiples of what is divided by.
LEMMA SameRemainder ==
  ASSUME NEW space \in Nat \ {0}, NEW a \in Int, NEW b \in Int, NEW k \in Int,
         a = b + space * k
  PROVE  a % space = b % space
  <1> DEFINE p == b \div space  r == b % space  q == p + k
  <1>1. b = space * p + r /\ p \in Int /\ r \in 0 .. space - 1
    BY Division
  <1> HIDE DEF p, r
  <1>2. q \in Int /\ a = space * q + r
    BY <1>1, Z3
  <1> HIDE DEF q
  <1>3. (space * q + r) % space = r
    BY <1>1, <1>2, Remainder
  <1> QED  BY <1>2, <1>3 DEF r

\* A number may be reduced before something is added to it.
LEMMA SumRemainder ==
  ASSUME NEW space \in Nat \ {0}, NEW a \in Nat, NEW k \in Nat
  PROVE  ((a % space) + k) % space = (a + k) % space
  <1> DEFINE q == a \div space  r == a % space  x == a + k  y == r + k
  <1>1. a = space * q + r /\ q \in Int /\ r \in 0 .. space - 1
    BY Division
  <1> HIDE DEF q, r
  <1>2. x \in Int /\ y \in Int /\ x = y + space * q
    <2>1. space * q \in Int
      BY <1>1, Z3
    <2> QED  BY <1>1, <2>1
  <1> HIDE DEF x, y
  <1>3. x % space = y % space
    BY <1>1, <1>2, SameRemainder
  <1> QED  BY <1>3 DEF r, x, y

----------------------------------------------------------------------------
(***************************************************************************)
(* PacketSorter::Less, for sequence numbers of any width.                  *)
(***************************************************************************)
\* uint32_t(sn + increase) is a sequence number (utils.cpp:56, 60, 86).
LEMMA AddType ==
  ASSUME NEW sn \in Nat, NEW increase \in Nat
  PROVE  Add(sn, increase) \in SN
  BY SerialAssumption DEF Add, SN, Space

\* An increment other than 0 moves every number (utils.cpp:50, 56).
LEMMA AddMoves ==
  ASSUME NEW sn \in SN, NEW increase \in SN
  PROVE  /\ increase # 0 => Add(sn, increase) # sn
         /\ Add(0, increase) = increase
  <1>1. Space \in Nat \ {0} /\ sn \in Nat /\ sn < Space /\ increase \in Nat /\ increase < Space
    BY SerialAssumption DEF SN, Space
  <1> DEFINE n == sn + increase
  <1>2. n = Space * (n \div Space) + (n % Space) /\ n \div Space \in Int
    BY <1>1, Z3
  <1>3. increase # 0 => n % Space # sn
    <2> SUFFICES ASSUME increase # 0, n % Space = sn PROVE FALSE
      OBVIOUS
    <2> DEFINE q == n \div Space
    <2>1. q \in Int /\ Space * q = increase
      BY <1>1, <1>2
    <2> HIDE DEF q
    <2>2. CASE q <= 0
      <3>1. Space * q <= 0
        BY <1>1, <2>1, <2>2, Z3
      <3> QED  BY <1>1, <2>1, <3>1
    <2>3. CASE q >= 1
      <3>1. Space * q >= Space
        BY <1>1, <2>1, <2>3, Z3
      <3> QED  BY <1>1, <2>1, <3>1
    <2> QED  BY <2>1, <2>2, <2>3
  <1> QED  BY <1>1, <1>3 DEF Add

\* In either build no number comes before itself.
LEMMA LessIrreflexive ==
  ASSUME NEW a \in SN
  PROVE  ~Less(a, a)
  BY SerialAssumption DEF Less, Wrap, Signed, SN, Space

\* Two numbers that are not ordered are the same: the last return of Insert
\* (utils.cpp:71) is unreachable and the map never takes two numbers for one.
THEOREM LessConnected ==
  ASSUME NEW a \in SN, NEW b \in SN, ~Less(a, b), ~Less(b, a)
  PROVE  a = b
  BY SerialAssumption DEF Less, Wrap, Signed, SN, Space

\* Where the build compares, Less is a strict order: std::map may rely on it.
THEOREM LessTransitive ==
  ASSUME NEW a \in SN, NEW b \in SN, NEW c \in SN,
         ~OverflowWraps, Less(a, b), Less(b, c)
  PROVE  Less(a, c)
  BY SerialAssumption DEF Less, Signed, SN, Space

THEOREM LessAsymmetric ==
  ASSUME NEW a \in SN, NEW b \in SN, ~OverflowWraps, Less(a, b)
  PROVE  ~Less(b, a)
  BY SerialAssumption DEF Less, Signed, SN, Space

\* Where the build wraps, Less looks only at the distance: b comes after a
\* when b is 1 to Half steps further round the circle of numbers.
LEMMA WrapDistance ==
  ASSUME NEW a \in SN, NEW b \in SN, OverflowWraps
  PROVE  Less(a, b) <=> IF a <= b THEN b - a \in 1 .. Half
                                  ELSE b + Space - a \in 1 .. Half
  BY SerialAssumption DEF Less, Wrap, Signed, SN, Space

\* Numbers of packets less than Half apart are ordered as the packets are,
\* wherever the wire numbers wrap around (utils.h:81-83 with -O0).
THEOREM SerialLess ==
  ASSUME NEW m \in Nat, NEW n \in Nat, OverflowWraps,
         m - n < Half, n - m < Half
  PROVE  Less(m % Space, n % Space) <=> m < n
  <1> DEFINE r == m % Space  s == n % Space
             q == m \div Space  p == n \div Space
  <1>1. Space \in Nat /\ Space > 0 /\ Space = 2 * Half /\ Half \in Nat /\ Half > 0
    BY SerialAssumption DEF Space
  <1>2. m = Space * q + r /\ r \in SN /\ q \in Nat
    BY <1>1 DEF SN
  <1>3. n = Space * p + s /\ s \in SN /\ p \in Nat
    BY <1>1 DEF SN
  <1> HIDE DEF r, s, q, p
  <1>4. r \in 0 .. Space - 1 /\ s \in 0 .. Space - 1
    BY <1>2, <1>3 DEF SN
  <1>5. CASE p = q
    <2>1. m - n = r - s
      BY <1>1, <1>2, <1>3, <1>4, <1>5
    <2>2. Less(r, s) <=> r < s
      BY <1>1, <1>2, <1>3, <1>4, <2>1, WrapDistance
    <2> QED  BY <1>1, <1>4, <2>1, <2>2 DEF r, s
  <1>6. CASE p = q + 1
    <2>1. n - m = Space + s - r
      <3>1. Space * p = Space * q + Space
        BY <1>1, <1>2, <1>6
      <3>2. Space * p \in Nat /\ Space * q \in Nat
        BY <1>1, <1>2, <1>3
      <3> QED  BY <1>1, <1>2, <1>3, <1>4, <3>1, <3>2
    <2>2. Less(r, s) /\ m < n
      BY <1>1, <1>2, <1>3, <1>4, <2>1, WrapDistance
    <2> QED  BY <2>2 DEF r, s
  <1>7. CASE q = p + 1
    <2>1. m - n = Space + r - s
      <3>1. Space * q = Space * p + Space
        BY <1>1, <1>3, <1>7
      <3>2. Space * p \in Nat /\ Space * q \in Nat
        BY <1>1, <1>2, <1>3
      <3> QED  BY <1>1, <1>2, <1>3, <1>4, <3>1, <3>2
    <2>2. ~Less(r, s) /\ ~(m < n)
      BY <1>1, <1>2, <1>3, <1>4, <2>1, WrapDistance
    <2> QED  BY <2>2 DEF r, s
  <1>8. CASE p >= q + 2
    <2>1. Space * p >= Space * q + 2 * Space
      <3>1. PICK d \in Nat : p = q + 2 + d
        BY <1>2, <1>3, <1>8
      <3>2. Space * p = Space * q + 2 * Space + Space * d /\ Space * d \in Nat
        BY <1>1, <1>2, <3>1
      <3> QED  BY <1>1, <1>2, <3>2
    <2>2. n - m > Space
      BY <1>1, <1>2, <1>3, <1>4, <2>1
    <2> QED  BY <1>1, <2>2
  <1>9. CASE q >= p + 2
    <2>1. Space * q >= Space * p + 2 * Space
      <3>1. PICK d \in Nat : q = p + 2 + d
        BY <1>2, <1>3, <1>9
      <3>2. Space * q = Space * p + 2 * Space + Space * d /\ Space * d \in Nat
        BY <1>1, <1>3, <3>1
      <3> QED  BY <1>1, <1>3, <3>2
    <2>2. m - n > Space
      BY <1>1, <1>2, <1>3, <1>4, <2>1
    <2> QED  BY <1>1, <2>2
  <1> QED  BY <1>2, <1>3, <1>5, <1>6, <1>7, <1>8, <1>9

----------------------------------------------------------------------------
(***************************************************************************)
(* PacketSorter.                                                           *)
(***************************************************************************)
\* What InsertAt returns: its length and each of its elements.
LEMMA InsertAtFacts ==
  ASSUME NEW S, NEW s \in Seq(S), NEW e \in S, NEW i \in 1 .. Len(s) + 1
  PROVE  /\ InsertAt(s, i, e) \in Seq(S)
         /\ Len(InsertAt(s, i, e)) = Len(s) + 1
         /\ \A j \in 1 .. Len(s) + 1 :
              InsertAt(s, i, e)[j] = IF j < i THEN s[j]
                                     ELSE IF j = i THEN e ELSE s[j - 1]
  <1> DEFINE front == SubSeq(s, 1, i - 1)  back == SubSeq(s, i, Len(s))
  <1>0. Len(s) \in Nat
    BY LenProperties
  <1>1. /\ front \in Seq(S) /\ Len(front) = i - 1
        /\ \A j \in 1 .. i - 1 : front[j] = s[j]
    <2>1. \A j \in 1 .. i - 1 : s[j] \in S
      BY <1>0, ElementOfSeq
    <2> QED  BY <1>0, <2>1, SubSeqProperties
  <1>2. /\ back \in Seq(S) /\ Len(back) = Len(s) + 1 - i
        /\ \A j \in 1 .. Len(s) + 1 - i : back[j] = s[i + j - 1]
    <2>1. \A j \in i .. Len(s) : s[j] \in S
      BY <1>0, ElementOfSeq
    <2> QED  BY <1>0, <2>1, SubSeqProperties
  <1>3. <<e>> \in Seq(S) /\ Len(<<e>>) = 1 /\ <<e>>[1] = e
    OBVIOUS
  <1> HIDE DEF front, back
  <1>4. /\ front \o <<e>> \in Seq(S) /\ Len(front \o <<e>>) = i
        /\ \A j \in 1 .. i : (front \o <<e>>)[j] = IF j < i THEN s[j] ELSE e
    BY <1>0, <1>1, <1>3, ConcatProperties
  <1>5. /\ (front \o <<e>>) \o back \in Seq(S)
        /\ Len((front \o <<e>>) \o back) = Len(s) + 1
        /\ \A j \in 1 .. Len(s) + 1 :
             ((front \o <<e>>) \o back)[j] =
                IF j < i THEN s[j] ELSE IF j = i THEN e ELSE s[j - 1]
    <2> DEFINE most == front \o <<e>>
    <2>0. /\ most \in Seq(S) /\ Len(most) = i
          /\ \A j \in 1 .. i : most[j] = IF j < i THEN s[j] ELSE e
      BY <1>4
    <2> HIDE DEF most
    <2>1. /\ most \o back \in Seq(S)
          /\ Len(most \o back) = i + (Len(s) + 1 - i)
          /\ \A j \in 1 .. i + (Len(s) + 1 - i) :
               (most \o back)[j] = IF j <= i THEN most[j] ELSE back[j - i]
      <3>1. Len(most) = i /\ Len(back) = Len(s) + 1 - i
        BY <1>2, <2>0
      <3> HIDE DEF back
      <3>2. /\ most \o back \in Seq(S)
            /\ Len(most \o back) = Len(most) + Len(back)
            /\ \A j \in 1 .. Len(most) + Len(back) :
                 (most \o back)[j] =
                    IF j <= Len(most) THEN most[j] ELSE back[j - Len(most)]
        BY <1>2, <2>0, ConcatProperties
      <3> QED  BY <3>1, <3>2
    <2>2. i + (Len(s) + 1 - i) = Len(s) + 1
      BY <1>0
    <2>3. ASSUME NEW j \in 1 .. Len(s) + 1
          PROVE  (most \o back)[j] =
                    IF j < i THEN s[j] ELSE IF j = i THEN e ELSE s[j - 1]
      <3>1. CASE j <= i
        BY <1>0, <2>0, <2>1, <2>2, <3>1
      <3>2. CASE j > i
        <4>1. j - i \in 1 .. Len(s) + 1 - i /\ i + (j - i) - 1 = j - 1
          BY <1>0, <3>2
        <4>2. (most \o back)[j] = back[j - i]
          BY <1>0, <2>1, <2>2, <3>2
        <4> QED  BY <1>2, <3>2, <4>1, <4>2
      <3>3. j <= i \/ j > i
        BY <1>0
      <3> QED  BY <3>1, <3>2, <3>3
    <2> QED  BY <2>1, <2>2, <2>3 DEF most
  <1>6. InsertAt(s, i, e) = (front \o <<e>>) \o back
    BY DEF InsertAt, front, back
  <1> QED  BY <1>5, <1>6

\* What remains of a sequence without its first n elements.
LEMMA DropFacts ==
  ASSUME NEW S, NEW s \in Seq(S), NEW n \in 0 .. Len(s)
  PROVE  /\ SubSeq(s, n + 1, Len(s)) \in Seq(S)
         /\ Len(SubSeq(s, n + 1, Len(s))) = Len(s) - n
         /\ \A i \in 1 .. Len(s) - n : SubSeq(s, n + 1, Len(s))[i] = s[n + i]
  <1>1. Len(s) \in Nat
    BY LenProperties
  <1>2. \A i \in n + 1 .. Len(s) : s[i] \in S
    BY <1>1, ElementOfSeq
  <1> QED  BY <1>1, <1>2, SubSeqProperties

----------------------------------------------------------------------------
(***************************************************************************)
(* The inductive invariant: the types, who owns each buffer, and that the  *)
(* map is empty until the first packet fixes the position.                 *)
(***************************************************************************)
IInv == TypeOK /\ Ownership /\ FirstMeansEmpty

LEMMA DataFacts ==
  ASSUME TypeOK
  PROVE  /\ Len(data_) \in Nat
         /\ DOMAIN data_ = 1 .. Len(data_)
         /\ \A i \in 1 .. Len(data_) :
              /\ data_[i] \in Entry
              /\ data_[i].sn \in SN
              /\ data_[i].buf \in Buffers
  <1>1. data_ \in Seq(Entry)
    BY DEF TypeOK
  <1>2. /\ Len(data_) \in Nat
        /\ DOMAIN data_ = 1 .. Len(data_)
        /\ \A i \in 1 .. Len(data_) : data_[i] \in Entry
    BY <1>1, LenProperties, ElementOfSeq
  <1> QED  BY <1>2 DEF Entry

\* Nothing of the state before the first call is owned or waiting.
LEMMA InitIInv == Init => IInv
  <1> SUFFICES ASSUME Init PROVE IInv
    OBVIOUS
  <1>1. 0 \in SN
    BY SerialAssumption DEF SN, Space
  <1> QED
    BY <1>1 DEF Init, IInv, TypeOK, Ownership, FirstMeansEmpty, Stored

\* An insertion stores the offered buffer and nothing else.
LEMMA StoredByInsert ==
  ASSUME TypeOK, NEW sn \in SN, NEW buf \in Buffers,
         NEW i \in 1 .. Len(data_) + 1,
         data_' = InsertAt(data_, i, [sn |-> sn, buf |-> buf])
  PROVE  /\ data_' \in Seq(Entry)
         /\ Len(data_') = Len(data_) + 1
         /\ DOMAIN data_' = 1 .. Len(data_) + 1
         /\ \A j \in 1 .. Len(data_) + 1 :
              data_'[j] = IF j < i THEN data_[j]
                          ELSE IF j = i THEN [sn |-> sn, buf |-> buf]
                          ELSE data_[j - 1]
         /\ Stored' = Stored \cup {buf}
  <1>0. [sn |-> sn, buf |-> buf] \in Entry /\ data_ \in Seq(Entry)
    BY DEF Entry, TypeOK
  <1>d. Len(data_) \in Nat /\ DOMAIN data_ = 1 .. Len(data_)
    BY DataFacts
  <1>1. /\ data_' \in Seq(Entry)
        /\ Len(data_') = Len(data_) + 1
        /\ \A j \in 1 .. Len(data_) + 1 :
              data_'[j] = IF j < i THEN data_[j]
                          ELSE IF j = i THEN [sn |-> sn, buf |-> buf]
                          ELSE data_[j - 1]
    BY <1>0, InsertAtFacts
  <1>2. DOMAIN data_' = 1 .. Len(data_) + 1
    BY <1>1, LenProperties
  <1>3. Stored' \subseteq Stored \cup {buf}
    <2> SUFFICES ASSUME NEW j \in DOMAIN data_'
                 PROVE  data_'[j].buf \in Stored \cup {buf}
      BY DEF Stored
    <2>1. CASE j < i
      <3>1. j \in DOMAIN data_ /\ data_'[j] = data_[j]
        BY <1>1, <1>2, <1>d, <2>1
      <3> QED  BY <3>1 DEF Stored
    <2>2. CASE j = i
      <3>1. data_'[j] = [sn |-> sn, buf |-> buf]
        BY <1>1, <1>2, <1>d, <2>2
      <3> QED  BY <3>1
    <2>3. CASE j > i
      <3>1. j - 1 \in DOMAIN data_ /\ data_'[j] = data_[j - 1]
        BY <1>1, <1>2, <1>d, <2>3
      <3> QED  BY <3>1 DEF Stored
    <2> QED  BY <1>2, <1>d, <2>1, <2>2, <2>3
  <1>4. buf \in Stored'
    <2>1. i \in DOMAIN data_' /\ data_'[i].buf = buf
      BY <1>1, <1>2, <1>d
    <2> QED  BY <2>1 DEF Stored
  <1>5. ASSUME NEW k \in DOMAIN data_ PROVE data_[k].buf \in Stored'
    <2>1. CASE k < i
      <3>1. k \in DOMAIN data_' /\ data_'[k] = data_[k]
        BY <1>1, <1>2, <2>1, <1>d
      <3> QED  BY <3>1 DEF Stored
    <2>2. CASE k >= i
      <3>1. k + 1 \in DOMAIN data_' /\ data_'[k + 1] = data_[k]
        BY <1>1, <1>2, <2>2, <1>d
      <3> QED  BY <3>1 DEF Stored
    <2> QED  BY <2>1, <2>2, <1>d
  <1>6. Stored \subseteq Stored'
    BY <1>5 DEF Stored
  <1> QED  BY <1>1, <1>2, <1>3, <1>4, <1>6

\* Dropping the first n nodes drops exactly their buffers.
LEMMA StoredByDrop ==
  ASSUME TypeOK, Ownership, NEW n \in 0 .. Len(data_),
         data_' = SubSeq(data_, n + 1, Len(data_))
  PROVE  /\ data_' \in Seq(Entry)
         /\ Len(data_') = Len(data_) - n
         /\ DOMAIN data_' = 1 .. Len(data_) - n
         /\ \A i \in 1 .. Len(data_) - n : data_'[i] = data_[n + i]
         /\ Stored' = Stored \ {data_[i].buf : i \in 1 .. n}
  <1>0. data_ \in Seq(Entry)
    BY DEF TypeOK
  <1>d. Len(data_) \in Nat /\ DOMAIN data_ = 1 .. Len(data_)
    BY DataFacts
  <1>1. /\ data_' \in Seq(Entry)
        /\ Len(data_') = Len(data_) - n
        /\ \A i \in 1 .. Len(data_) - n : data_'[i] = data_[n + i]
    BY <1>0, DropFacts
  <1>2. DOMAIN data_' = 1 .. Len(data_) - n
    BY <1>1, LenProperties
  <1>3. ASSUME NEW i \in DOMAIN data_'
        PROVE  data_'[i].buf \in Stored \ {data_[k].buf : k \in 1 .. n}
    <2>1. n + i \in DOMAIN data_ /\ data_'[i] = data_[n + i]
      <3>1. i \in 1 .. Len(data_) - n /\ n + i \in 1 .. Len(data_)
        BY <1>2, <1>d
      <3> QED  BY <1>1, <1>d, <3>1
    <2>2. \A k \in 1 .. n : k \in DOMAIN data_ /\ k # n + i
      BY <1>2, <1>d
    <2> QED  BY <2>1, <2>2 DEF Stored, Ownership
  <1>4. ASSUME NEW k \in 1 .. Len(data_), k > n
        PROVE  data_[k].buf \in Stored'
    <2>1. k - n \in DOMAIN data_' /\ data_'[k - n] = data_[k]
      <3>1. k - n \in 1 .. Len(data_) - n /\ n + (k - n) = k
        BY <1>4, <1>d
      <3> QED  BY <1>1, <1>2, <3>1
    <2> QED  BY <2>1 DEF Stored
  <1>5. Stored' \subseteq Stored \ {data_[i].buf : i \in 1 .. n}
    BY <1>3 DEF Stored
  <1>6. Stored \ {data_[i].buf : i \in 1 .. n} \subseteq Stored'
    <2> SUFFICES ASSUME NEW k \in DOMAIN data_,
                        data_[k].buf \notin {data_[i].buf : i \in 1 .. n}
                 PROVE  data_[k].buf \in Stored'
      BY DEF Stored
    <2>1. k \in 1 .. Len(data_) /\ k > n
      BY <1>d
    <2> QED  BY <1>4, <2>1
  <1> QED  BY <1>1, <1>2, <1>5, <1>6

\* Dropping everything leaves no buffer stored.
LEMMA StoredByClear ==
  ASSUME data_' = <<>>
  PROVE  data_' \in Seq(Entry) /\ DOMAIN data_' = {} /\ Stored' = {}
  BY DEF Stored

----------------------------------------------------------------------------
\* The invariant survives each call.
LEMMA SorterInitIInv ==
  ASSUME IInv, NEW increase \in Increases, SorterInit(increase)
  PROVE  IInv'
  <1>1. TypeOK'
    BY StoredByClear, SerialAssumption, SorterAssumption
       DEF IInv, TypeOK, SorterInit, SN, Space
  <1>2. Ownership'
    BY StoredByClear DEF IInv, Ownership, SorterInit
  <1>3. FirstMeansEmpty'
    BY DEF SorterInit, FirstMeansEmpty
  <1> QED  BY <1>1, <1>2, <1>3 DEF IInv

LEMMA InsertNowIInv ==
  ASSUME IInv, NEW sn \in SN, NEW buf \in Buffers, InsertNow(sn, buf)
  PROVE  IInv'
  <1>1. now_sn_' \in SN
    BY AddType, SerialAssumption DEF InsertNow, IInv, TypeOK, SN, Space
  <1>2. is_first_' \in BOOLEAN
    BY DEF InsertNow
  <1>3. TypeOK'
    BY <1>1, <1>2 DEF IInv, TypeOK, InsertNow
  <1>4. Ownership'
    BY DEF IInv, Ownership, InsertNow, Stored
  <1>5. FirstMeansEmpty'
    BY DEF IInv, FirstMeansEmpty, InsertNow
  <1> QED  BY <1>3, <1>4, <1>5 DEF IInv

LEMMA InsertNextIInv ==
  ASSUME IInv, NEW sn \in SN, NEW buf \in Buffers, InsertNext(sn, buf)
  PROVE  IInv'
  <1>0. TypeOK /\ Ownership /\ ~is_first_ /\ buf \in caller
    BY DEF IInv, InsertNext, IsNext, IsNow
  <1>1. PICK i \in 1 .. Len(data_) + 1 :
          data_' = IF Taken(sn, i) THEN data_
                   ELSE InsertAt(data_, i, [sn |-> sn, buf |-> buf])
    BY DEF InsertNext
  <1>2. FirstMeansEmpty'
    BY <1>0 DEF FirstMeansEmpty, InsertNext
  <1>3. CASE Taken(sn, i)
    <2>1. TypeOK'
      BY <1>0, <1>1, <1>3 DEF TypeOK, InsertNext
    <2>2. Ownership'
      BY <1>0, <1>1, <1>3 DEF Ownership, InsertNext, Stored
    <2> QED  BY <1>2, <2>1, <2>2 DEF IInv
  <1>4. CASE ~Taken(sn, i)
    <2>0. data_' = InsertAt(data_, i, [sn |-> sn, buf |-> buf])
      BY <1>1, <1>4
    <2>1. TypeOK'
      BY <1>0, <2>0, StoredByInsert DEF TypeOK, InsertNext
    <2>2. Stored' = Stored \cup {buf} /\ buf \notin Stored
      BY <1>0, <2>0, StoredByInsert DEF Ownership
    <2>3. ASSUME NEW j \in DOMAIN data_', NEW k \in DOMAIN data_',
                 data_'[j].buf = data_'[k].buf
          PROVE  j = k
      <3> DEFINE before(x) == IF x < i THEN x ELSE x - 1
      <3>1. Len(data_) \in Nat /\ DOMAIN data_ = 1 .. Len(data_)
        BY <1>0, DataFacts
      <3>2. ASSUME NEW x \in DOMAIN data_', x # i
            PROVE  /\ before(x) \in DOMAIN data_
                   /\ data_'[x] = data_[before(x)]
                   /\ data_'[x].buf # buf
        <4>1. before(x) \in DOMAIN data_ /\ data_'[x] = data_[before(x)]
          BY <1>0, <2>0, <3>1, <3>2, StoredByInsert
        <4> QED  BY <2>2, <4>1 DEF Stored
      <3>3. data_'[i].buf = buf
        BY <1>0, <2>0, StoredByInsert
      <3>4. j \in Int /\ k \in Int
        BY <1>0, <2>0, <3>1, StoredByInsert
      <3>5. CASE j = i \/ k = i
        BY <2>3, <3>2, <3>3, <3>5
      <3>6. CASE j # i /\ k # i
        <4>1. before(j) = before(k)
          BY <1>0, <2>3, <3>2, <3>6 DEF Ownership
        <4> QED  BY <3>4, <3>6, <4>1
      <3> QED  BY <3>5, <3>6
    <2>4. Ownership'
      BY <1>0, <2>2, <2>3 DEF Ownership, InsertNext
    <2> QED  BY <1>2, <2>1, <2>4 DEF IInv
  <1> QED  BY <1>3, <1>4

LEMMA GetIInv ==
  ASSUME IInv, Get
  PROVE  IInv'
  <1>0. TypeOK /\ Ownership
    BY DEF IInv
  <1>1. Len(data_) \in Nat /\ Len(data_) > 0 /\ Head(data_) = data_[1]
    BY <1>0, EmptySeq DEF Get, TypeOK
  <1>2. data_' = SubSeq(data_, 1 + 1, Len(data_))
    BY <1>0, <1>1, TailIsSubSeq DEF Get, TypeOK
  <1>3. /\ data_' \in Seq(Entry)
        /\ DOMAIN data_' = 1 .. Len(data_) - 1
        /\ \A i \in 1 .. Len(data_) - 1 : data_'[i] = data_[1 + i]
        /\ Stored' = Stored \ {data_[i].buf : i \in 1 .. 1}
    <2>1. 1 \in 0 .. Len(data_)
      BY <1>1
    <2> QED  BY <1>0, <1>2, <2>1, StoredByDrop
  <1>4. data_[1].buf \in Stored /\ data_[1].buf \in Buffers
    BY <1>0, <1>1, DataFacts DEF Stored
  <1>5. Stored' = Stored \ {data_[1].buf}
    BY <1>3
  <1>6. TypeOK'
    BY <1>0, <1>1, <1>3, <1>4 DEF TypeOK, Get
  <1>7. \A i, j \in DOMAIN data_' : data_'[i].buf = data_'[j].buf => i = j
    BY <1>0, <1>1, <1>3, DataFacts DEF Ownership
  <1>8. Ownership'
    BY <1>0, <1>1, <1>4, <1>5, <1>7 DEF Ownership, Get
  <1>9. FirstMeansEmpty'
    BY DEF IInv, FirstMeansEmpty, Get
  <1> QED  BY <1>6, <1>8, <1>9 DEF IInv

LEMMA SkipIInv ==
  ASSUME IInv, NEW num \in Nat, Skip(num)
  PROVE  IInv'
  <1>0. TypeOK /\ Ownership
    BY DEF IInv
  <1>1. PICK n \in 0 .. Len(data_) :
          /\ data_' = SubSeq(data_, n + 1, Len(data_))
          /\ heap' = heap \ {data_[i].buf : i \in 1 .. n}
    BY DEF Skip
  <1>2. /\ data_' \in Seq(Entry)
        /\ DOMAIN data_' = 1 .. Len(data_) - n
        /\ \A i \in 1 .. Len(data_) - n : data_'[i] = data_[n + i]
        /\ Stored' = Stored \ {data_[i].buf : i \in 1 .. n}
    BY <1>0, <1>1, StoredByDrop
  <1>3. now_sn_' \in SN
    <2>1. now_sn_ \in Nat /\ num * increase_ \in Nat
      BY <1>0 DEF TypeOK, SN
    <2> QED  BY <2>1, AddType DEF Skip
  <1>4. TypeOK'
    BY <1>0, <1>1, <1>2, <1>3 DEF TypeOK, Skip
  <1>5. {data_[i].buf : i \in 1 .. n} \cap caller = {}
    BY <1>0, DataFacts DEF Ownership, Stored
  <1>6. ASSUME NEW i \in DOMAIN data_', NEW j \in DOMAIN data_',
               data_'[i].buf = data_'[j].buf
        PROVE  i = j
    <2>1. Len(data_) \in Nat /\ DOMAIN data_ = 1 .. Len(data_)
      BY <1>0, DataFacts
    <2>2. n + i \in DOMAIN data_ /\ n + j \in DOMAIN data_ /\ i \in Int /\ j \in Int
      BY <1>2, <2>1
    <2>3. data_'[i] = data_[n + i] /\ data_'[j] = data_[n + j]
      BY <1>2
    <2>4. n + i = n + j
      BY <1>0, <1>6, <2>2, <2>3 DEF Ownership
    <2> QED  BY <2>2, <2>4
  <1>7. Ownership'
    BY <1>0, <1>1, <1>2, <1>5, <1>6 DEF Ownership, Skip
  <1>8. FirstMeansEmpty'
    <2> SUFFICES ASSUME is_first_ PROVE data_' = <<>>
      BY DEF FirstMeansEmpty, Skip
    <2>1. data_ = <<>>
      BY DEF IInv, FirstMeansEmpty
    <2>2. Len(data_) = 0
      BY <2>1
    <2> QED  BY <1>1, <2>1, <2>2, SubSeqEmpty
  <1> QED  BY <1>4, <1>7, <1>8 DEF IInv

LEMMA BufferIInv ==
  ASSUME IInv, NEW buf \in Buffers, NewBuffer(buf) \/ DeleteBuffer(buf)
  PROVE  IInv'
  <1>1. TypeOK'
    BY DEF IInv, TypeOK, NewBuffer, DeleteBuffer, sorter
  <1>2. Ownership'
    BY DEF IInv, Ownership, NewBuffer, DeleteBuffer, sorter, Stored
  <1>3. FirstMeansEmpty'
    BY DEF IInv, FirstMeansEmpty, NewBuffer, DeleteBuffer, sorter
  <1> QED  BY <1>1, <1>2, <1>3 DEF IInv

LEMMA StutterIInv ==
  ASSUME IInv, UNCHANGED vars
  PROVE  IInv'
  BY DEF IInv, TypeOK, Ownership, FirstMeansEmpty, Stored, vars

\* Every call of the sorter keeps the invariant.
LEMMA NextIInv ==
  ASSUME IInv, [Next]_vars
  PROVE  IInv'
  <1>1. CASE \E increase \in Increases : SorterInit(increase)
    BY <1>1, SorterInitIInv
  <1>2. ASSUME NEW sn \in SN, NEW buf \in Buffers,
               InsertNow(sn, buf) \/ InsertBehind(sn, buf) \/ InsertNext(sn, buf)
        PROVE  IInv'
    BY <1>2, InsertNowIInv, InsertNextIInv, StutterIInv DEF InsertBehind
  <1>3. CASE Get
    BY <1>3, GetIInv
  <1>4. CASE \E num \in Skips : Skip(num)
    BY <1>4, SkipIInv, SorterAssumption
  <1>5. CASE \E buf \in Buffers : NewBuffer(buf) \/ DeleteBuffer(buf)
    BY <1>5, BufferIInv
  <1>6. CASE UNCHANGED vars
    BY <1>6, StutterIInv
  <1> QED  BY <1>1, <1>2, <1>3, <1>4, <1>5, <1>6 DEF Next

\* The inductive invariant holds in every reachable state.
THEOREM SorterInvariant == Spec => []IInv
  BY InitIInv, NextIInv, PTL DEF Spec

\* The sorter never deletes a buffer twice or keeps one its caller may free,
\* whatever is called in whatever order, in either build (utils.cpp:48-50,
\* 78-80, 88-91).
THEOREM SorterOwnership == Spec => []Ownership
  <1>1. IInv => Ownership
    BY DEF IInv
  <1> QED  BY <1>1, SorterInvariant, PTL

\* The members keep their types.
THEOREM SorterTypeOK == Spec => []TypeOK
  <1>1. IInv => TypeOK
    BY DEF IInv
  <1> QED  BY <1>1, SorterInvariant, PTL

\* No packet waits before the first packet has fixed the position.
THEOREM SorterFirstMeansEmpty == Spec => []FirstMeansEmpty
  <1>1. IInv => FirstMeansEmpty
    BY DEF IInv
  <1> QED  BY <1>1, SorterInvariant, PTL

----------------------------------------------------------------------------
(***************************************************************************)
(* Buffers without an owner.  Every call but one gives each buffer it      *)
(* takes from somebody to somebody else, or frees it.                      *)
(***************************************************************************)
LEMMA InsertNextLost ==
  ASSUME IInv, NEW sn \in SN, NEW buf \in Buffers, InsertNext(sn, buf)
  PROVE  Lost' # Lost => /\ \E j \in DOMAIN data_ : data_[j].sn = sn
                         /\ UNCHANGED <<data_, heap, now_sn_>>
  <1>0. TypeOK /\ Ownership /\ buf \in caller
    BY DEF IInv, InsertNext
  <1>1. PICK i \in 1 .. Len(data_) + 1 :
          /\ Place(sn, i)
          /\ data_' = IF Taken(sn, i) THEN data_
                      ELSE InsertAt(data_, i, [sn |-> sn, buf |-> buf])
    BY DEF InsertNext
  <1>2. CASE Taken(sn, i)
    <2>1. Len(data_) \in Nat
      BY <1>0, DataFacts
    <2>2. i - 1 \in 1 .. Len(data_)
      BY <1>2, <2>1 DEF Taken
    <2>3. i - 1 \in DOMAIN data_ /\ data_[i - 1].sn \in SN
      BY <1>0, <2>2, DataFacts DEF Entry
    <2>4. ~Less(sn, data_[i - 1].sn) /\ ~Less(data_[i - 1].sn, sn)
      BY <1>1, <1>2 DEF Place, Taken
    <2>5. data_[i - 1].sn = sn
      BY <2>3, <2>4, LessConnected
    <2> QED  BY <1>1, <1>2, <2>3, <2>5 DEF InsertNext
  <1>3. CASE ~Taken(sn, i)
    <2>1. Stored' = Stored \cup {buf}
      BY <1>0, <1>1, <1>3, StoredByInsert
    <2> QED  BY <1>0, <2>1 DEF Lost, InsertNext
  <1> QED  BY <1>2, <1>3

LEMMA SkipLost ==
  ASSUME IInv, NEW num \in Nat, Skip(num)
  PROVE  Lost' = Lost
  <1>1. PICK n \in 0 .. Len(data_) :
          /\ data_' = SubSeq(data_, n + 1, Len(data_))
          /\ heap' = heap \ {data_[i].buf : i \in 1 .. n}
    BY DEF Skip
  <1> DEFINE gone == {data_[i].buf : i \in 1 .. n}
  <1>2. Stored' = Stored \ gone
    BY <1>1, StoredByDrop DEF IInv
  <1>3. gone \subseteq Stored
    BY DataFacts DEF IInv, Stored
  <1>4. heap' = heap \ gone /\ caller' = caller
    BY <1>1 DEF Skip
  <1> HIDE DEF gone
  <1> QED  BY <1>2, <1>3, <1>4 DEF Lost

LEMMA GetLost ==
  ASSUME IInv, Get
  PROVE  Lost' = Lost
  <1>0. TypeOK /\ Ownership
    BY DEF IInv
  <1>1. Len(data_) \in Nat /\ Len(data_) > 0 /\ Head(data_) = data_[1]
    BY <1>0, EmptySeq DEF Get, TypeOK
  <1>2. data_' = SubSeq(data_, 1 + 1, Len(data_))
    BY <1>0, <1>1, TailIsSubSeq DEF Get, TypeOK
  <1>3. Stored' = Stored \ {data_[i].buf : i \in 1 .. 1}
    <2>1. 1 \in 0 .. Len(data_)
      BY <1>1
    <2> QED  BY <1>0, <1>2, <2>1, StoredByDrop
  <1>4. data_[1].buf \in Stored
    BY <1>0, <1>1, DataFacts DEF Stored
  <1> QED  BY <1>1, <1>3, <1>4 DEF Lost, Get

LEMMA BufferLost ==
  ASSUME IInv, NEW buf \in Buffers, NewBuffer(buf) \/ DeleteBuffer(buf)
  PROVE  Lost' = Lost
  BY DEF IInv, Ownership, NewBuffer, DeleteBuffer, sorter, Lost, Stored

\* A buffer is abandoned only by an Insert that finds its number waiting
\* already (utils.cpp:62, session.cpp:237).
THEOREM SorterLostOnlyToDuplicate == Spec => LostOnlyToDuplicate
  <1> DEFINE Inserts == \E sn \in SN, buf \in Buffers : InsertNext(sn, buf)
  <1> DEFINE OnlyToDuplicate ==
        /\ Lost' # Lost => Inserts
        /\ \A sn \in SN, buf \in Buffers :
             InsertNext(sn, buf) /\ Lost' # Lost =>
               \E i \in DOMAIN data_ : data_[i].sn = sn
  <1>1. IInv /\ [Next]_vars => OnlyToDuplicate
    <2> SUFFICES ASSUME IInv, [Next]_vars PROVE OnlyToDuplicate
      OBVIOUS
    <2>1. ASSUME NEW increase \in Increases, SorterInit(increase)
          PROVE  Lost' = Lost
      BY <2>1, StoredByClear DEF SorterInit, Lost
    <2>2. ASSUME NEW sn \in SN, NEW buf \in Buffers,
                 InsertNow(sn, buf) \/ InsertBehind(sn, buf)
          PROVE  Lost' = Lost
      BY <2>2 DEF InsertNow, InsertBehind, vars, Lost, Stored
    <2>3. CASE Get
      BY <2>3, GetLost
    <2>4. CASE \E num \in Skips : Skip(num)
      BY <2>4, SkipLost, SorterAssumption
    <2>5. CASE \E buf \in Buffers : NewBuffer(buf) \/ DeleteBuffer(buf)
      BY <2>5, BufferLost
    <2>6. CASE UNCHANGED vars
      BY <2>6 DEF vars, Lost, Stored
    <2>7. Lost' # Lost => Inserts
      BY <2>1, <2>2, <2>3, <2>4, <2>5, <2>6 DEF Next
    <2>8. ASSUME NEW sn \in SN, NEW buf \in Buffers,
                 InsertNext(sn, buf), Lost' # Lost
          PROVE  \E i \in DOMAIN data_ : data_[i].sn = sn
      BY <2>8, InsertNextLost
    <2> QED  BY <2>7, <2>8
  <1>2. [Next]_vars /\ OnlyToDuplicate => [OnlyToDuplicate]_vars
    OBVIOUS
  <1> QED
    BY <1>1, SorterInvariant, PTL DEF Spec, LostOnlyToDuplicate

----------------------------------------------------------------------------
(***************************************************************************)
(* The order of the map.  It is kept where Less is a strict order, that is *)
(* in the build that compares.                                             *)
(***************************************************************************)
\* A new node enters after every earlier number and before every later one.
LEMMA InsertNextSorted ==
  ASSUME IInv, Sorted, ~OverflowWraps,
         NEW sn \in SN, NEW buf \in Buffers, InsertNext(sn, buf)
  PROVE  Sorted'
  <1>0. TypeOK
    BY DEF IInv
  <1>1. /\ Len(data_) \in Nat /\ DOMAIN data_ = 1 .. Len(data_)
        /\ \A k \in 1 .. Len(data_) : data_[k].sn \in SN
    BY <1>0, DataFacts
  <1>2. PICK i \in 1 .. Len(data_) + 1 :
          /\ Place(sn, i)
          /\ data_' = IF Taken(sn, i) THEN data_
                      ELSE InsertAt(data_, i, [sn |-> sn, buf |-> buf])
    BY DEF InsertNext
  <1>3. CASE Taken(sn, i)
    BY <1>2, <1>3 DEF Sorted
  <1>4. CASE ~Taken(sn, i)
    <2>1. /\ DOMAIN data_' = 1 .. Len(data_) + 1
          /\ \A j \in 1 .. Len(data_) + 1 :
               data_'[j] = IF j < i THEN data_[j]
                           ELSE IF j = i THEN [sn |-> sn, buf |-> buf]
                           ELSE data_[j - 1]
      BY <1>0, <1>2, <1>4, StoredByInsert
    <2>2. ASSUME NEW k \in 1 .. Len(data_), k < i
          PROVE  Less(data_[k].sn, sn)
      <3>1. i - 1 \in 1 .. Len(data_) /\ Less(data_[i - 1].sn, sn)
        BY <1>1, <1>4, <2>2 DEF Taken
      <3>2. k = i - 1 \/ Less(data_[k].sn, data_[i - 1].sn)
        BY <1>1, <2>2, <3>1 DEF Sorted
      <3> QED  BY <1>1, <3>1, <3>2, LessTransitive
    <2>3. ASSUME NEW k \in 1 .. Len(data_), k >= i
          PROVE  Less(sn, data_[k].sn)
      <3>1. i \in 1 .. Len(data_) /\ Less(sn, data_[i].sn)
        BY <1>1, <1>2, <2>3 DEF Place
      <3>2. k = i \/ Less(data_[i].sn, data_[k].sn)
        BY <1>1, <2>3, <3>1 DEF Sorted
      <3> QED  BY <1>1, <3>1, <3>2, LessTransitive
    <2>4. ASSUME NEW j \in DOMAIN data_', NEW l \in DOMAIN data_', j < l
          PROVE  Less(data_'[j].sn, data_'[l].sn)
      <3>1. CASE l < i
        <4>1. data_'[j] = data_[j] /\ data_'[l] = data_[l]
          BY <1>1, <2>1, <2>4, <3>1
        <4>2. j \in DOMAIN data_ /\ l \in DOMAIN data_
          BY <1>1, <2>1, <2>4, <3>1
        <4> QED  BY <2>4, <4>1, <4>2 DEF Sorted
      <3>2. CASE l = i
        <4>1. j \in 1 .. Len(data_) /\ data_'[j] = data_[j] /\ data_'[l].sn = sn
          BY <1>1, <2>1, <2>4, <3>2
        <4> QED  BY <2>2, <2>4, <3>2, <4>1
      <3>3. CASE l > i /\ j < i
        <4>1. /\ data_'[j] = data_[j] /\ j \in DOMAIN data_
              /\ data_'[l] = data_[l - 1] /\ l - 1 \in DOMAIN data_ /\ j < l - 1
          BY <1>1, <2>1, <2>4, <3>3
        <4> QED  BY <4>1 DEF Sorted
      <3>4. CASE l > i /\ j = i
        <4>1. /\ data_'[j].sn = sn /\ data_'[l] = data_[l - 1]
              /\ l - 1 \in 1 .. Len(data_) /\ l - 1 >= i
          BY <1>1, <2>1, <2>4, <3>4
        <4> QED  BY <2>3, <4>1
      <3>5. CASE l > i /\ j > i
        <4>1. /\ data_'[j] = data_[j - 1] /\ j - 1 \in DOMAIN data_
              /\ data_'[l] = data_[l - 1] /\ l - 1 \in DOMAIN data_ /\ j - 1 < l - 1
          BY <1>1, <2>1, <2>4, <3>5
        <4> QED  BY <4>1 DEF Sorted
      <3> QED  BY <2>1, <3>1, <3>2, <3>3, <3>4, <3>5
    <2> QED  BY <2>4 DEF Sorted
  <1> QED  BY <1>3, <1>4

\* A map without its first nodes is still in order.
LEMMA DropSorted ==
  ASSUME IInv, Sorted, NEW n \in 0 .. Len(data_),
         data_' = SubSeq(data_, n + 1, Len(data_))
  PROVE  Sorted'
  <1>1. TypeOK /\ Ownership
    BY DEF IInv
  <1>2. /\ DOMAIN data_' = 1 .. Len(data_) - n
        /\ \A i \in 1 .. Len(data_) - n : data_'[i] = data_[n + i]
    BY <1>1, StoredByDrop
  <1>3. Len(data_) \in Nat /\ DOMAIN data_ = 1 .. Len(data_)
    BY <1>1, DataFacts
  <1>4. ASSUME NEW i \in DOMAIN data_', NEW j \in DOMAIN data_', i < j
        PROVE  Less(data_'[i].sn, data_'[j].sn)
    <2>1. n + i \in DOMAIN data_ /\ n + j \in DOMAIN data_ /\ n + i < n + j
      BY <1>2, <1>3, <1>4
    <2> QED  BY <1>2, <2>1 DEF Sorted
  <1> QED  BY <1>4 DEF Sorted

LEMMA NextSorted ==
  ASSUME IInv, Sorted, ~OverflowWraps, [Next]_vars
  PROVE  Sorted'
  <1>1. CASE \E increase \in Increases : SorterInit(increase)
    BY <1>1, StoredByClear DEF SorterInit, Sorted
  <1>2. ASSUME NEW sn \in SN, NEW buf \in Buffers,
               InsertNow(sn, buf) \/ InsertBehind(sn, buf) \/ InsertNext(sn, buf)
        PROVE  Sorted'
    <2>1. CASE InsertNow(sn, buf) \/ InsertBehind(sn, buf)
      BY <2>1 DEF InsertNow, InsertBehind, vars, Sorted
    <2> QED  BY <1>2, <2>1, InsertNextSorted
  <1>3. CASE Get
    <2>1. data_ \in Seq(Entry)
      BY DEF IInv, TypeOK
    <2>2. 1 \in 0 .. Len(data_) /\ data_' = SubSeq(data_, 1 + 1, Len(data_))
      BY <1>3, <2>1, EmptySeq, TailIsSubSeq DEF Get
    <2> QED  BY <2>2, DropSorted
  <1>4. CASE \E num \in Skips : Skip(num)
    BY <1>4, DropSorted DEF Skip
  <1>5. CASE \E buf \in Buffers : NewBuffer(buf) \/ DeleteBuffer(buf)
    BY <1>5 DEF NewBuffer, DeleteBuffer, sorter, Sorted
  <1>6. CASE UNCHANGED vars
    BY <1>6 DEF vars, Sorted
  <1> QED  BY <1>1, <1>2, <1>3, <1>4, <1>5, <1>6 DEF Next

\* In the build that compares, begin() is always the earliest waiting packet
\* and no number waits twice (utils.h:81-88).
THEOREM SorterSorted ==
  ASSUME ~OverflowWraps
  PROVE  Spec => []Sorted
  <1>1. Init => Sorted
    BY DEF Init, Sorted
  <1>2. IInv /\ Sorted /\ [Next]_vars => Sorted'
    BY NextSorted
  <1> QED  BY <1>1, <1>2, SorterInvariant, PTL DEF Spec

\* In that build Skip deletes every packet behind the new position although
\* its loop stops at the first that is not (utils.cpp:85-96).
THEOREM SorterSkipPurges ==
  ASSUME ~OverflowWraps
  PROVE  Spec => SkipPurges
  <1>1. ASSUME IInv, Sorted, NEW num \in Skips, Skip(num)
        PROVE  \A i \in DOMAIN data_' : ~Less(data_'[i].sn, now_sn_')
    <2>0. TypeOK /\ Ownership
      BY <1>1 DEF IInv
    <2>1. PICK n \in 0 .. Len(data_) :
            /\ Purges(n, now_sn_')
            /\ data_' = SubSeq(data_, n + 1, Len(data_))
      BY <1>1 DEF Skip
    <2>2. /\ DOMAIN data_' = 1 .. Len(data_) - n
          /\ \A i \in 1 .. Len(data_) - n : data_'[i] = data_[n + i]
      BY <2>0, <2>1, StoredByDrop
    <2>3. /\ Len(data_) \in Nat /\ DOMAIN data_ = 1 .. Len(data_)
          /\ \A k \in 1 .. Len(data_) : data_[k].sn \in SN
      BY <2>0, DataFacts
    <2>4. now_sn_' \in SN
      BY <1>1, SkipIInv, SorterAssumption DEF IInv, TypeOK
    <2>5. SUFFICES ASSUME NEW i \in DOMAIN data_', Less(data_'[i].sn, now_sn_')
                   PROVE  FALSE
      OBVIOUS
    <2>6. n + i \in 1 .. Len(data_) /\ n + 1 \in 1 .. Len(data_) /\ n < Len(data_)
      BY <2>2, <2>3
    <2>7. ~Less(data_[n + 1].sn, now_sn_') /\ Less(data_[n + i].sn, now_sn_')
      BY <2>1, <2>2, <2>5, <2>6 DEF Purges
    <2>8. n + 1 = n + i \/ Less(data_[n + 1].sn, data_[n + i].sn)
      BY SMTT(30), <1>1, <2>2, <2>3, <2>6 DEF Sorted
    <2> QED  BY <1>1, <2>3, <2>4, <2>6, <2>7, <2>8, LessTransitive
  <1>2. IInv /\ Sorted /\ [Next]_vars =>
          [\A num \in Skips : Skip(num) =>
             \A i \in DOMAIN data_' : ~Less(data_'[i].sn, now_sn_')]_vars
    BY <1>1
  <1> QED  BY <1>2, SorterInvariant, SorterSorted, PTL DEF Spec, SkipPurges
==============================================================================
