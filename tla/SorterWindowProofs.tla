------------------------- MODULE SorterWindowProofs --------------------------
(***************************************************************************)
(* SorterWindow for any width of the numbers on the wire, any number of    *)
(* buffers and packets and any increases but 0: in the build whose         *)
(* subtraction wraps, PacketSorter implements IdealSorter.                 *)
(***************************************************************************)
EXTENDS SorterWindow, PacketSorterProofs

\* uint32_t(sn + increase) of a number on the wire.
LEMMA AddReduced ==
  ASSUME NEW a \in Nat, NEW k \in Nat
  PROVE  Add(a % Space, k) = (a + k) % Space
  <1>1. Space \in Nat \ {0}
    BY SerialAssumption DEF Space
  <1> QED  BY <1>1, SumRemainder DEF Add

\* Less orders the numbers on the wire as the packets, and tells them apart.
LEMMA WireLess ==
  ASSUME OverflowWraps, increase_ \in Nat \ {0}, NEW m \in Nat, NEW n \in Nat,
         Abs(m - n) * increase_ < Half
  PROVE  /\ Wire(m) \in SN
         /\ Less(Wire(m), Wire(n)) <=> m < n
         /\ Less(Wire(n), Wire(m)) <=> n < m
         /\ Wire(m) = Wire(n) => m = n
  <1> DEFINE a == m * increase_  b == n * increase_
  <1>0. Half \in Nat
    BY SerialAssumption
  <1>1. a \in Nat /\ b \in Nat
    OBVIOUS
  <1>2. a - b < Half /\ b - a < Half
    <2>1. CASE m >= n
      <3>1. (m - n) * increase_ < Half /\ (m - n) * increase_ >= 0
        BY <2>1 DEF Abs
      <3>2. (m - n) * increase_ = a - b
        BY Z3
      <3> QED  BY <1>0, <1>1, <3>1, <3>2
    <2>2. CASE m < n
      <3>1. (n - m) * increase_ < Half /\ (n - m) * increase_ >= 0
        BY <2>2 DEF Abs
      <3>2. (n - m) * increase_ = b - a
        BY Z3
      <3> QED  BY <1>0, <1>1, <3>1, <3>2
    <2> QED  BY <2>1, <2>2
  <1>3. (a < b <=> m < n) /\ (b < a <=> n < m)
    <2>1. m < n => a < b
      BY Z3
    <2>2. n < m => b < a
      BY Z3
    <2>3. m = n => a = b
      OBVIOUS
    <2> QED  BY <1>1, <2>1, <2>2, <2>3
  <1> HIDE DEF a, b
  <1>4. a % Space \in SN /\ b % Space \in SN
    BY <1>1, SerialAssumption DEF SN, Space
  <1>5. Less(a % Space, b % Space) <=> a < b
    BY <1>1, <1>2, SerialLess
  <1>6. Less(b % Space, a % Space) <=> b < a
    BY <1>1, <1>2, SerialLess
  <1>7. a % Space = b % Space => m = n
    BY <1>3, <1>4, <1>5, <1>6, LessIrreflexive
  <1> QED  BY <1>3, <1>4, <1>5, <1>6, <1>7 DEF Wire, a, b

\* now_sn_ + k * increase_ is the number of the packet k farther on.
LEMMA WireNext ==
  ASSUME increase_ \in Nat, NEW n \in Nat, NEW k \in Nat
  PROVE  Add(Wire(n), k * increase_) = Wire(n + k)
  <1>1. n * increase_ \in Nat /\ k * increase_ \in Nat
    OBVIOUS
  <1>2. n * increase_ + k * increase_ = (n + k) * increase_
    BY Z3
  <1> QED  BY <1>1, <1>2, AddReduced DEF Wire

----------------------------------------------------------------------------
(***************************************************************************)
(* The inductive invariant adds to that of PacketSorter: every number in   *)
(* its members is that of a packet (OnTheWire); the nodes ascend as the    *)
(* packets (Ascending), which follows from Less only because all packets   *)
(* alive are near each other (Near); and the packet handed over last is    *)
(* before the position, or at it until the Skip that follows Get.          *)
(***************************************************************************)
Held(i) == number[data_[i].buf]

WTypes ==
  /\ position \in Nat
  /\ number \in [Buffers -> Number \cup {None}]
  /\ handed \in Number \cup {None}
  /\ owesSkip \in BOOLEAN
  /\ resets \in Nat

Started ==
  /\ resets = 0 => is_first_
  /\ resets > 0 => increase_ \in Increases

OnTheWire ==
  /\ ~is_first_ => now_sn_ = Wire(position)
  /\ \A i \in DOMAIN data_ : Held(i) \in Number /\ data_[i].sn = Wire(Held(i))

Ascending == \A i, j \in DOMAIN data_ : i < j => Held(i) < Held(j)

Near ==
  ~is_first_ =>
    \A m, l \in Waiting \cup {position} : Abs(m - l) * increase_ < Half

HandedBefore ==
  /\ is_first_ => handed = None
  /\ ~is_first_ => handed < position \/ (handed = position /\ owesSkip)

WInv == /\ IInv
        /\ WTypes
        /\ Started
        /\ OnTheWire
        /\ Ascending
        /\ Near
        /\ HandedBefore

----------------------------------------------------------------------------
\* The waiting packets are those of the nodes.
LEMMA WaitingHeld ==
  ASSUME NEW m
  PROVE  m \in Waiting <=> \E i \in DOMAIN data_ : m = Held(i)
  BY DEF Waiting, Stored, Held

\* Init was called: the increase is one of its arguments.
LEMMA IncreaseFacts ==
  ASSUME Started, resets > 0, 0 \notin Increases
  PROVE  increase_ \in Nat \ {0}
  <1>1. increase_ \in Increases
    BY DEF Started
  <1>2. increase_ \in SN /\ increase_ # 0
    BY <1>1, SorterAssumption
  <1> QED  BY <1>2 DEF SN

\* What holds of a started sorter, in one place.
LEMMA StartedFacts ==
  ASSUME WInv, ~is_first_, 0 \notin Increases
  PROVE  /\ increase_ \in Nat \ {0}
         /\ resets > 0
         /\ position \in Nat
         /\ now_sn_ = Wire(position)
         /\ Waiting \subseteq Number
         /\ Waiting \subseteq Nat
         /\ Len(data_) \in Nat
         /\ DOMAIN data_ = 1 .. Len(data_)
         /\ \A i \in 1 .. Len(data_) :
              /\ Held(i) \in Nat
              /\ Held(i) \in Waiting
              /\ data_[i].sn = Wire(Held(i))
              /\ data_[i].buf \in Stored
  <1>1. resets > 0
    BY DEF WInv, WTypes, Started
  <1>2. increase_ \in Nat \ {0}
    BY <1>1, IncreaseFacts DEF WInv
  <1>3. Len(data_) \in Nat /\ DOMAIN data_ = 1 .. Len(data_)
    BY DataFacts DEF WInv, IInv
  <1>4. Waiting \subseteq Number
    BY WaitingHeld DEF WInv, OnTheWire
  <1>5. Number \subseteq Nat
    BY DEF Number
  <1>6. \A i \in 1 .. Len(data_) :
          /\ Held(i) \in Number
          /\ Held(i) \in Waiting
          /\ data_[i].sn = Wire(Held(i))
          /\ data_[i].buf \in Stored
    BY <1>3, WaitingHeld DEF WInv, OnTheWire, Stored
  <1>7. position \in Nat /\ now_sn_ = Wire(position)
    BY DEF WInv, WTypes, OnTheWire
  <1> QED  BY <1>1, <1>2, <1>3, <1>4, <1>5, <1>6, <1>7

\* The answers of Insert follow from where n is, as AnswersTruly states it.
LEMMA AnswersFromPosition ==
  ASSUME WInv, OverflowWraps, 0 \notin Increases, ~is_first_,
         NEW n \in Number, InWindow(n)
  PROVE  /\ IsNow(Wire(n)) <=> n = position
         /\ IsBehind(Wire(n)) <=> n < position
         /\ IsNext(Wire(n)) <=> n > position
  <1>1. n \in Nat
    BY DEF Number
  <1>2. /\ increase_ \in Nat \ {0} /\ position \in Nat
        /\ now_sn_ = Wire(position)
    BY StartedFacts
  <1>3. Abs(n - position) * increase_ < Half
    BY DEF InWindow
  <1>4. /\ Less(Wire(n), now_sn_) <=> n < position
        /\ Less(now_sn_, Wire(n)) <=> position < n
        /\ Wire(n) = now_sn_ => n = position
    BY <1>1, <1>2, <1>3, WireLess
  <1> QED  BY <1>1, <1>2, <1>4 DEF IsNow, IsBehind, IsNext

\* A step that leaves the nodes alone leaves the waiting packets alone.
LEMMA SameWaiting ==
  ASSUME data_' = data_, number' = number
  PROVE  /\ Waiting' = Waiting
         /\ \A i : Held(i)' = Held(i)
  BY DEF Waiting, Stored, Held

----------------------------------------------------------------------------
\* The invariant survives each action; each action implements one of the
\* ideal sorter, or none.
LEMMA ResetStep ==
  ASSUME WInv, WReset
  PROVE  WInv' /\ Ideal!Reset
  <1>1. PICK increase \in Increases : SorterInit(increase)
    BY DEF WReset
  <1>2. IInv'
    BY <1>1, SorterInitIInv DEF WInv
  <1>3. /\ is_first_' = TRUE /\ increase_' = increase
        /\ data_' = <<>> /\ DOMAIN data_' = {} /\ Stored' = {}
    BY <1>1, StoredByClear DEF SorterInit
  <1>4. Waiting' = {}
    BY <1>3 DEF Waiting
  <1>5. WTypes'
    <2>1. resets \in Nat
      BY DEF WInv, WTypes
    <2>2. number' \in [Buffers -> Number \cup {None}] /\ handed' \in Number \cup {None}
      BY DEF WReset
    <2>3. position' \in Nat /\ resets' \in Nat
      BY <2>1 DEF WReset
    <2>4. owesSkip' \in BOOLEAN
      BY DEF WReset
    <2> QED  BY <2>2, <2>3, <2>4 DEF WTypes
  <1>6. Started'
    BY <1>3, <1>1 DEF WReset, Started, WInv, WTypes
  <1>7. OnTheWire' /\ Ascending' /\ Near' /\ HandedBefore'
    BY <1>3 DEF WReset, OnTheWire, Ascending, Near, HandedBefore
  <1>8. Ideal!Reset
    BY <1>3, <1>4 DEF WReset, Ideal!Reset, None
  <1> QED  BY <1>2, <1>5, <1>6, <1>7, <1>8 DEF WInv

\* The first packet, and later the one whose turn it is.
LEMMA InsertNowStep ==
  ASSUME WInv, OverflowWraps, 0 \notin Increases, NEW n \in Number,
         resets > 0, ~owesSkip, is_first_ \/ InWindow(n), NotZeroFirst(n),
         WInsertNow(n)
  PROVE  /\ WInv'
         /\ Ideal!First(n) \/ Ideal!Arrive(n)
         /\ handed' > handed
  <1>0. PICK buf \in Buffers : InsertNow(Wire(n), buf)
    BY DEF WInsertNow
  <1>1. n \in Nat /\ increase_ \in Nat \ {0} /\ Wire(n) \in SN
    <2>1. n \in Nat
      BY DEF Number
    <2>2. increase_ \in Nat \ {0}
      BY IncreaseFacts DEF WInv
    <2>3. n * increase_ \in Nat
      BY <2>1, <2>2
    <2> QED  BY <2>1, <2>2, <2>3, SerialAssumption DEF Wire, SN, Space
  <1>2. IInv'
    BY <1>0, <1>1, InsertNowIInv DEF WInv
  <1>3. /\ ~is_first_' /\ data_' = data_ /\ increase_' = increase_
        /\ now_sn_' = Add(Wire(n), increase_)
        /\ number' = number /\ handed' = n /\ owesSkip' = owesSkip /\ resets' = resets
    BY <1>0 DEF WInsertNow, InsertNow, NotZeroFirst
  <1>4. Waiting' = Waiting /\ \A i : Held(i)' = Held(i)
    BY <1>3, SameWaiting
  <1>5. is_first_ => data_ = <<>> /\ Waiting = {}
    BY DEF WInv, IInv, FirstMeansEmpty, Waiting, Stored
  <1>6. position' = n + 1 /\ (~is_first_ => n = position)
    <2>1. CASE is_first_
      BY <2>1 DEF WInsertNow
    <2>2. CASE ~is_first_
      BY <1>0, <2>2, AnswersFromPosition DEF WInsertNow, InsertNow
    <2> QED  BY <2>1, <2>2
  <1>7. WTypes' /\ Started'
    BY <1>1, <1>3, <1>6 DEF WInv, WTypes, Started
  <1>8. OnTheWire'
    <2>1. now_sn_' = Wire(n + 1)
      <3>1. increase_ = 1 * increase_
        BY <1>1
      <3> QED  BY <1>1, <1>3, <3>1, WireNext
    <2>2. \A x : Wire(x)' = Wire(x)
      BY <1>3 DEF Wire
    <2> QED  BY <1>3, <1>4, <1>6, <2>1, <2>2 DEF WInv, OnTheWire
  <1>9. Ascending'
    BY <1>3, <1>4 DEF WInv, Ascending
  <1>10. Near'
    <2> SUFFICES ASSUME NEW m \in Waiting \cup {n + 1}, NEW l \in Waiting \cup {n + 1}
                 PROVE  Abs(m - l) * increase_ < Half
      BY <1>3, <1>4, <1>6 DEF Near
    <2>1. CASE is_first_
      <3>1. m = n + 1 /\ l = n + 1
        BY <1>5, <2>1
      <3>2. Abs(m - l) = 0
        BY <1>1, <3>1 DEF Abs
      <3> QED  BY <1>1, <3>2, SerialAssumption
    <2>2. CASE ~is_first_
      BY <1>6, <2>2 DEF InWindow
    <2> QED  BY <2>1, <2>2
  <1>11. HandedBefore'
    BY <1>1, <1>3, <1>6 DEF HandedBefore
  <1>12. Ideal!First(n) \/ Ideal!Arrive(n)
    BY <1>3, <1>4, <1>6 DEF Ideal!First, Ideal!Arrive
  <1>13. handed' > handed
    BY <1>1, <1>3, <1>6 DEF WInv, HandedBefore, None
  <1> QED
    BY <1>2, <1>7, <1>8, <1>9, <1>10, <1>11, <1>12, <1>13 DEF WInv

LEMMA InsertNextStep ==
  ASSUME WInv, OverflowWraps, 0 \notin Increases, NEW n \in Number,
         is_first_ \/ InWindow(n), WInsertNext(n)
  PROVE  WInv' /\ Ideal!Wait(n)
  <1>0. PICK buf \in Buffers :
          /\ InsertNext(Wire(n), buf)
          /\ number' = [number EXCEPT ![buf] = n]
    BY DEF WInsertNext
  <1>1. /\ ~is_first_ /\ ~is_first_' /\ buf \in caller
        /\ increase_' = increase_ /\ now_sn_' = now_sn_
        /\ position' = position /\ handed' = handed
        /\ owesSkip' = owesSkip /\ resets' = resets
    BY <1>0 DEF InsertNext, IsNext, IsNow, WInsertNext, WInv, IInv, TypeOK
  <1>2. /\ increase_ \in Nat \ {0} /\ position \in Nat
        /\ Waiting \subseteq Number /\ Waiting \subseteq Nat
        /\ Len(data_) \in Nat /\ DOMAIN data_ = 1 .. Len(data_)
        /\ \A i \in 1 .. Len(data_) :
             /\ Held(i) \in Nat /\ Held(i) \in Waiting
             /\ data_[i].sn = Wire(Held(i)) /\ data_[i].buf \in Stored
    BY <1>1, StartedFacts
  <1>3. n \in Nat /\ n > position
    BY <1>0, <1>1, AnswersFromPosition DEF InsertNext, Number
  <1>4. ASSUME NEW m \in Waiting
        PROVE  /\ Wire(n) \in SN /\ m \in Nat
               /\ Less(Wire(m), Wire(n)) <=> m < n
               /\ Less(Wire(n), Wire(m)) <=> n < m
    <2>1. Abs(n - m) * increase_ < Half
      BY <1>1 DEF InWindow
    <2> QED  BY <1>2, <1>3, <2>1, WireLess
  <1>5. Wire(n) \in SN
    <2>1. Abs(n - position) * increase_ < Half
      BY <1>1 DEF InWindow
    <2> QED  BY <1>2, <1>3, <2>1, WireLess
  <1>6. IInv'
    BY <1>0, <1>5, InsertNextIInv DEF WInv
  <1>7. TypeOK /\ Ownership /\ number \in [Buffers -> Number \cup {None}]
    BY DEF WInv, IInv, WTypes
  \* The buffer that is offered holds no waiting packet.
  <1>8. /\ number'[buf] = n
        /\ \A b \in Stored : b # buf /\ number'[b] = number[b]
    <2>1. Stored \subseteq Buffers /\ buf \notin Stored
      BY <1>1, <1>7, DataFacts DEF Ownership, Stored
    <2> QED  BY <1>0, <1>7, <2>1
  <1>9. PICK i \in 1 .. Len(data_) + 1 :
          /\ Place(Wire(n), i)
          /\ data_' = IF Taken(Wire(n), i) THEN data_
                      ELSE InsertAt(data_, i, [sn |-> Wire(n), buf |-> buf])
    BY <1>0 DEF InsertNext
  <1>10. /\ Waiting' = Waiting \cup {n}
         /\ Ascending'
         /\ \A j \in DOMAIN data_' : Held(j)' \in Number /\ data_'[j].sn = Wire(Held(j)')
    <2>1. CASE Taken(Wire(n), i)
      <3>1. data_' = data_ /\ Stored' = Stored
        BY <1>9, <2>1 DEF Stored
      <3>2. i - 1 \in 1 .. Len(data_) /\ Held(i - 1) = n
        <4>1. i - 1 \in 1 .. Len(data_)
          BY <1>2, <2>1 DEF Taken
        <4>2. /\ ~Less(Wire(n), Wire(Held(i - 1)))
              /\ ~Less(Wire(Held(i - 1)), Wire(n))
          BY <1>2, <1>9, <2>1, <4>1 DEF Place, Taken
        <4> QED  BY <1>2, <1>3, <1>4, <4>1, <4>2
      <3>3. n \in Waiting
        BY <1>2, <3>2
      <3>4. Waiting' = Waiting
        BY <1>8, <3>1 DEF Waiting
      <3>5. \A j \in DOMAIN data_ : Held(j)' = Held(j)
        BY <1>2, <1>8, <3>1 DEF Held
      <3>6. Ascending'
        BY <3>1, <3>5 DEF WInv, Ascending
      <3>7. \A j \in DOMAIN data_' : Held(j)' \in Number /\ data_'[j].sn = Wire(Held(j)')
        BY <3>1, <3>5 DEF WInv, OnTheWire
      <3> QED  BY <3>3, <3>4, <3>6, <3>7
    <2>2. CASE ~Taken(Wire(n), i)
      <3>1. /\ DOMAIN data_' = 1 .. Len(data_) + 1
            /\ \A j \in 1 .. Len(data_) + 1 :
                 data_'[j] = IF j < i THEN data_[j]
                             ELSE IF j = i THEN [sn |-> Wire(n), buf |-> buf]
                             ELSE data_[j - 1]
            /\ Stored' = Stored \cup {buf}
        BY <1>5, <1>7, <1>9, <2>2, StoredByInsert
      <3>2. Waiting' = Waiting \cup {n}
        BY <1>8, <3>1 DEF Waiting
      <3>3. /\ Held(i)' = n /\ data_'[i].sn = Wire(n)
            /\ \A j \in 1 .. Len(data_) + 1 :
                 /\ j < i => /\ j \in 1 .. Len(data_)
                             /\ Held(j)' = Held(j) /\ data_'[j].sn = data_[j].sn
                 /\ j > i => /\ j - 1 \in 1 .. Len(data_)
                             /\ Held(j)' = Held(j - 1) /\ data_'[j].sn = data_[j - 1].sn
        <4>1. Held(i)' = n /\ data_'[i].sn = Wire(n)
          BY <1>8, <3>1 DEF Held
        <4>2. ASSUME NEW j \in 1 .. Len(data_) + 1, j < i
              PROVE  /\ j \in 1 .. Len(data_)
                     /\ Held(j)' = Held(j) /\ data_'[j].sn = data_[j].sn
          <5>1. j \in 1 .. Len(data_) /\ data_'[j] = data_[j]
            BY <1>2, <3>1, <4>2
          <5> QED  BY <1>2, <1>8, <5>1 DEF Held
        <4>3. ASSUME NEW j \in 1 .. Len(data_) + 1, j > i
              PROVE  /\ j - 1 \in 1 .. Len(data_)
                     /\ Held(j)' = Held(j - 1) /\ data_'[j].sn = data_[j - 1].sn
          <5>1. j - 1 \in 1 .. Len(data_) /\ data_'[j] = data_[j - 1]
            BY <1>2, <3>1, <4>3
          <5> QED  BY <1>2, <1>8, <5>1 DEF Held
        <4> QED  BY <4>1, <4>2, <4>3
      <3>4. ASSUME NEW k \in 1 .. Len(data_)
            PROVE  /\ k < i => Held(k) < n
                   /\ k >= i => n < Held(k)
        <4>1. ASSUME k < i PROVE Held(k) < n
          <5>1. i - 1 \in 1 .. Len(data_) /\ Less(Wire(Held(i - 1)), Wire(n))
            BY <1>2, <2>2, <4>1 DEF Taken
          <5>2. Held(i - 1) < n
            BY <1>2, <1>4, <5>1
          <5>3. k = i - 1 \/ Held(k) < Held(i - 1)
            BY <1>2, <4>1, <5>1 DEF WInv, Ascending
          <5> QED  BY <1>2, <1>3, <5>1, <5>2, <5>3
        <4>2. ASSUME k >= i PROVE n < Held(k)
          <5>1. i \in 1 .. Len(data_) /\ Less(Wire(n), Wire(Held(i)))
            BY <1>2, <1>9, <4>2 DEF Place
          <5>2. n < Held(i)
            BY <1>2, <1>4, <5>1
          <5>3. k = i \/ Held(i) < Held(k)
            BY <1>2, <4>2, <5>1 DEF WInv, Ascending
          <5> QED  BY <1>2, <1>3, <5>1, <5>2, <5>3
        <4> QED  BY <4>1, <4>2
      <3>5. ASSUME NEW j \in DOMAIN data_', NEW k \in DOMAIN data_', j < k
            PROVE  Held(j)' < Held(k)'
        <4>1. CASE k < i
          <5>1. /\ j \in DOMAIN data_ /\ k \in DOMAIN data_
                /\ Held(j)' = Held(j) /\ Held(k)' = Held(k)
            BY <1>2, <3>1, <3>3, <3>5, <4>1
          <5> QED  BY <3>5, <5>1 DEF WInv, Ascending
        <4>2. CASE k = i
          <5>1. j \in 1 .. Len(data_) /\ Held(j)' = Held(j) /\ Held(k)' = n
            BY <1>2, <3>1, <3>3, <3>5, <4>2
          <5> QED  BY <3>4, <3>5, <4>2, <5>1
        <4>3. CASE k > i /\ j < i
          <5>1. /\ j \in 1 .. Len(data_) /\ Held(j)' = Held(j) /\ Held(j) < n
                /\ k - 1 \in 1 .. Len(data_) /\ Held(k)' = Held(k - 1)
                /\ n < Held(k - 1)
            BY <1>2, <3>1, <3>3, <3>4, <4>3
          <5> QED  BY <1>2, <1>3, <5>1
        <4>4. CASE k > i /\ j = i
          <5>1. /\ Held(j)' = n
                /\ k - 1 \in 1 .. Len(data_) /\ Held(k)' = Held(k - 1)
                /\ n < Held(k - 1)
            BY <1>2, <3>1, <3>3, <3>4, <4>4
          <5> QED  BY <5>1
        <4>5. CASE k > i /\ j > i
          <5>1. /\ j - 1 \in DOMAIN data_ /\ Held(j)' = Held(j - 1)
                /\ k - 1 \in DOMAIN data_ /\ Held(k)' = Held(k - 1) /\ j - 1 < k - 1
            BY <1>2, <3>1, <3>3, <3>5, <4>5
          <5> QED  BY <5>1 DEF WInv, Ascending
        <4> QED  BY <3>1, <4>1, <4>2, <4>3, <4>4, <4>5
      <3>6. ASSUME NEW j \in DOMAIN data_'
            PROVE  Held(j)' \in Number /\ data_'[j].sn = Wire(Held(j)')
        <4>1. CASE j = i
          BY <3>3, <4>1
        <4>2. CASE j < i
          <5>1. j \in DOMAIN data_ /\ Held(j)' = Held(j) /\ data_'[j].sn = data_[j].sn
            BY <1>2, <3>1, <3>3, <4>2
          <5> QED  BY <5>1 DEF WInv, OnTheWire
        <4>3. CASE j > i
          <5>1. /\ j - 1 \in DOMAIN data_ /\ Held(j)' = Held(j - 1)
                /\ data_'[j].sn = data_[j - 1].sn
            BY <1>2, <3>1, <3>3, <4>3
          <5> QED  BY <5>1 DEF WInv, OnTheWire
        <4> QED  BY <3>1, <4>1, <4>2, <4>3
      <3>7. Ascending'
        BY <3>5 DEF Ascending
      <3> QED  BY <3>2, <3>6, <3>7
    <2> QED  BY <2>1, <2>2
  <1>11. WTypes' /\ Started' /\ HandedBefore'
    BY <1>0, <1>1 DEF WInv, WTypes, Started, HandedBefore
  <1>12. OnTheWire'
    <2>1. \A x : Wire(x)' = Wire(x)
      BY <1>1 DEF Wire
    <2> QED  BY <1>1, <1>10, <2>1 DEF WInv, OnTheWire
  <1>13. Near'
    BY <1>1, <1>10 DEF Near, InWindow
  <1>14. Ideal!Wait(n)
    BY <1>1, <1>3, <1>10 DEF Ideal!Wait
  <1> QED
    BY <1>6, <1>10, <1>11, <1>12, <1>13, <1>14 DEF WInv

\* A refusal, and what the caller does with its buffers.
LEMMA StutterStep ==
  ASSUME WInv, IInv', UNCHANGED <<sorter, history>>
  PROVE  WInv' /\ UNCHANGED Ideal!vars
  <1>1. /\ data_' = data_ /\ number' = number /\ is_first_' = is_first_
        /\ increase_' = increase_ /\ now_sn_' = now_sn_
        /\ position' = position /\ handed' = handed
        /\ owesSkip' = owesSkip /\ resets' = resets
    BY DEF sorter, history
  <1>2. Waiting' = Waiting /\ \A i : Held(i)' = Held(i)
    BY <1>1, SameWaiting
  <1>3. \A x : Wire(x)' = Wire(x)
    BY <1>1 DEF Wire
  <1>4. WTypes' /\ Started' /\ HandedBefore'
    BY <1>1 DEF WInv, WTypes, Started, HandedBefore
  <1>5. OnTheWire'
    BY <1>1, <1>2, <1>3 DEF WInv, OnTheWire
  <1>6. Ascending' /\ Near'
    BY <1>1, <1>2 DEF WInv, Ascending, Near
  <1>7. UNCHANGED Ideal!vars
    BY <1>1, <1>2 DEF Ideal!vars
  <1> QED  BY <1>4, <1>5, <1>6, <1>7 DEF WInv

\* The first n nodes leave the map: so do their packets, and no others.
LEMMA DropStep ==
  ASSUME WInv, NEW n \in 0 .. Len(data_),
         data_' = SubSeq(data_, n + 1, Len(data_)),
         number' = number, increase_' = increase_
  PROVE  /\ Waiting' = Waiting \ {Held(i) : i \in 1 .. n}
         /\ Ascending'
         /\ \A i \in DOMAIN data_' : Held(i)' \in Number /\ data_'[i].sn = Wire(Held(i)')
  <1>1. TypeOK /\ Ownership
    BY DEF WInv, IInv
  <1>2. /\ DOMAIN data_' = 1 .. Len(data_) - n
        /\ \A i \in 1 .. Len(data_) - n : data_'[i] = data_[n + i]
    BY <1>1, StoredByDrop
  <1>3. Len(data_) \in Nat /\ DOMAIN data_ = 1 .. Len(data_)
    BY <1>1, DataFacts
  <1>4. ASSUME NEW i \in DOMAIN data_'
        PROVE  /\ n + i \in DOMAIN data_ /\ i \in Nat
               /\ Held(i)' = Held(n + i) /\ data_'[i] = data_[n + i]
    <2>1. n + i \in DOMAIN data_ /\ i \in Nat
      BY <1>2, <1>3
    <2> QED  BY <1>2, <2>1 DEF Held
  <1>5. Ascending'
    <2> SUFFICES ASSUME NEW i \in DOMAIN data_', NEW j \in DOMAIN data_', i < j
                 PROVE  Held(i)' < Held(j)'
      BY DEF Ascending
    <2>1. n + i < n + j
      BY <1>4
    <2> QED  BY <1>4, <2>1 DEF WInv, Ascending
  <1>6. \A i \in DOMAIN data_' : Held(i)' \in Number /\ data_'[i].sn = Wire(Held(i)')
    BY <1>4 DEF WInv, OnTheWire
  \* The packets ascend, so none of the first n is among the rest.
  <1>7. ASSUME NEW i \in DOMAIN data_', NEW k \in 1 .. n
        PROVE  Held(i)' # Held(k)
    <2>1. k \in DOMAIN data_ /\ k < n + i
      BY <1>2, <1>3
    <2>2. Held(k) < Held(n + i)
      BY <1>4, <2>1 DEF WInv, Ascending
    <2>3. Held(k) \in Int /\ Held(n + i) \in Int
      BY <1>4, <2>1 DEF WInv, OnTheWire, Number
    <2> QED  BY <1>4, <2>2, <2>3
  <1>8. ASSUME NEW k \in DOMAIN data_, k \notin 1 .. n
        PROVE  \E i \in DOMAIN data_' : Held(k) = Held(i)'
    <2>1. k - n \in DOMAIN data_' /\ n + (k - n) = k
      BY <1>2, <1>3, <1>8
    <2> QED  BY <1>4, <2>1
  <1>9. \A m : m \in Waiting' <=> \E i \in DOMAIN data_' : m = Held(i)'
    BY DEF Waiting, Stored, Held
  <1>10. Waiting' = Waiting \ {Held(i) : i \in 1 .. n}
    <2>1. ASSUME NEW m \in Waiting' PROVE m \in Waiting \ {Held(i) : i \in 1 .. n}
      <3>1. PICK i \in DOMAIN data_' : m = Held(i)'
        BY <1>9
      <3>2. m \in Waiting
        BY <1>4, <3>1, WaitingHeld
      <3> QED  BY <1>7, <3>1, <3>2
    <2>2. ASSUME NEW m \in Waiting \ {Held(i) : i \in 1 .. n} PROVE m \in Waiting'
      <3>1. PICK k \in DOMAIN data_ : m = Held(k)
        BY WaitingHeld
      <3>2. k \notin 1 .. n
        BY <3>1
      <3> QED  BY <1>8, <1>9, <3>1, <3>2
    <2> QED  BY <2>1, <2>2
  <1> QED  BY <1>5, <1>6, <1>10

LEMMA GetStep ==
  ASSUME WInv, OverflowWraps, 0 \notin Increases, WGet
  PROVE  /\ WInv'
         /\ Ideal!Take
         /\ handed' > handed
  <1>0. /\ TypeOK /\ data_ # <<>> /\ Head(data_).sn = now_sn_ /\ data_' = Tail(data_)
        /\ is_first_' = is_first_ /\ increase_' = increase_ /\ now_sn_' = now_sn_
        /\ ~owesSkip /\ owesSkip' /\ handed' = number[Head(data_).buf]
        /\ position' = position /\ number' = number /\ resets' = resets
    BY DEF WInv, IInv, WGet, Get
  <1>1. ~is_first_
    BY <1>0 DEF WInv, IInv, FirstMeansEmpty
  <1>2. /\ increase_ \in Nat \ {0} /\ position \in Nat /\ now_sn_ = Wire(position)
        /\ Waiting \subseteq Number /\ Waiting \subseteq Nat
        /\ Len(data_) \in Nat /\ DOMAIN data_ = 1 .. Len(data_)
        /\ \A i \in 1 .. Len(data_) :
             /\ Held(i) \in Nat /\ Held(i) \in Waiting
             /\ data_[i].sn = Wire(Held(i)) /\ data_[i].buf \in Stored
    BY <1>1, StartedFacts
  <1>3. /\ Head(data_) = data_[1] /\ 1 \in 1 .. Len(data_) /\ 1 \in 0 .. Len(data_)
        /\ data_' = SubSeq(data_, 1 + 1, Len(data_))
    BY <1>0, <1>2, EmptySeq, TailIsSubSeq DEF TypeOK
  <1>4. Held(1) = position /\ handed' = position
    <2>1. Wire(Held(1)) = Wire(position)
      BY <1>0, <1>2, <1>3
    <2>2. Abs(Held(1) - position) * increase_ < Half
      BY <1>1, <1>2, <1>3 DEF WInv, Near
    <2>3. Held(1) = position
      BY <1>2, <1>3, <2>1, <2>2, WireLess
    <2> QED  BY <1>0, <1>3, <2>3 DEF Held
  <1>5. /\ Waiting' = Waiting \ {Held(i) : i \in 1 .. 1}
        /\ Ascending'
        /\ \A i \in DOMAIN data_' : Held(i)' \in Number /\ data_'[i].sn = Wire(Held(i)')
    BY <1>0, <1>3, DropStep
  <1>6. {Held(i) : i \in 1 .. 1} = {position}
    BY <1>4
  <1>7. IInv'
    BY GetIInv DEF WInv, WGet
  <1>8. position \in Number
    BY <1>2, <1>3, <1>4
  <1>9. WTypes' /\ Started'
    BY <1>0, <1>4, <1>8 DEF WInv, WTypes, Started
  <1>10. OnTheWire'
    <2>1. \A x : Wire(x)' = Wire(x)
      BY <1>0 DEF Wire
    <2> QED  BY <1>0, <1>2, <1>5, <2>1 DEF OnTheWire
  <1>11. Near'
    BY <1>0, <1>5 DEF WInv, Near
  <1>12. HandedBefore'
    BY <1>0, <1>1, <1>4 DEF HandedBefore
  <1>13. Ideal!Take
    BY <1>0, <1>2, <1>3, <1>4, <1>5, <1>6 DEF Ideal!Take
  <1>14. handed' > handed
    BY <1>0, <1>1, <1>2, <1>4 DEF WInv, HandedBefore
  <1> QED  BY <1>5, <1>7, <1>9, <1>10, <1>11, <1>12, <1>13, <1>14 DEF WInv

\* Skip drops exactly the waiting packets that the position passes.
LEMMA SkipStep ==
  ASSUME WInv, OverflowWraps, 0 \notin Increases, WSkip
  PROVE  WInv' /\ \E num \in Skips : Ideal!Advance(num)
  <1>0. PICK num \in Skips :
          /\ owesSkip => num = 1
          /\ \A m \in Waiting \cup {position} :
               Abs(position + num - m) * increase_ < Half
          /\ Skip(num)
          /\ position' = position + num
    BY DEF WSkip
  <1>1. PICK n \in 0 .. Len(data_) :
          /\ Purges(n, now_sn_')
          /\ data_' = SubSeq(data_, n + 1, Len(data_))
    BY <1>0 DEF Skip
  <1>2. /\ ~is_first_ /\ is_first_' = is_first_ /\ increase_' = increase_
        /\ number' = number /\ handed' = handed /\ resets' = resets
        /\ owesSkip' = FALSE
        /\ now_sn_' = Add(now_sn_, num * increase_)
    BY <1>0 DEF WSkip, Skip
  <1>3. /\ increase_ \in Nat \ {0} /\ position \in Nat /\ now_sn_ = Wire(position)
        /\ Waiting \subseteq Nat
        /\ Len(data_) \in Nat /\ DOMAIN data_ = 1 .. Len(data_)
        /\ \A i \in 1 .. Len(data_) :
             /\ Held(i) \in Nat /\ Held(i) \in Waiting
             /\ data_[i].sn = Wire(Held(i))
    BY <1>2, StartedFacts
  <1>4. num \in Nat /\ position' \in Nat
    BY <1>0, <1>3, SorterAssumption
  <1>5. now_sn_' = Wire(position')
    BY <1>0, <1>2, <1>3, <1>4, WireNext
  <1>6. ASSUME NEW i \in 1 .. Len(data_)
        PROVE  Less(data_[i].sn, now_sn_') <=> Held(i) < position'
    <2>1. Held(i) \in Waiting /\ Held(i) \in Nat /\ data_[i].sn = Wire(Held(i))
      BY <1>3
    <2>2. Abs(position + num - Held(i)) * increase_ < Half
      BY <1>0, <2>1
    <2>3. position' - Held(i) = position + num - Held(i)
      BY <1>0, <1>3, <1>4, <2>1
    <2>4. Abs(position' - Held(i)) * increase_ < Half
      BY <2>2, <2>3
    <2> QED  BY <1>3, <1>4, <1>5, <2>1, <2>4, WireLess
  <1>7. /\ Waiting' = Waiting \ {Held(i) : i \in 1 .. n}
        /\ Ascending'
        /\ \A i \in DOMAIN data_' : Held(i)' \in Number /\ data_'[i].sn = Wire(Held(i)')
    BY <1>1, <1>2, DropStep
  <1>8. ASSUME NEW i \in 1 .. Len(data_)
        PROVE  i \in 1 .. n <=> Held(i) < position'
    <2>1. CASE i \in 1 .. n
      BY <1>1, <1>6, <2>1 DEF Purges
    <2>2. CASE i \notin 1 .. n
      <3>1. n + 1 \in 1 .. Len(data_) /\ n < Len(data_) /\ n + 1 <= i
        BY <1>3, <2>2
      <3>2. ~(Held(n + 1) < position')
        BY <1>1, <1>6, <3>1 DEF Purges
      <3>3. n + 1 = i \/ Held(n + 1) < Held(i)
        BY <1>3, <3>1 DEF WInv, Ascending
      <3> QED  BY <1>3, <1>4, <2>2, <3>1, <3>2, <3>3
    <2> QED  BY <2>1, <2>2
  <1>9. Waiting' = {m \in Waiting : m >= position'}
    <2>1. ASSUME NEW m \in Waiting
          PROVE  m \in {Held(i) : i \in 1 .. n} <=> m < position'
      <3>1. PICK k \in 1 .. Len(data_) : m = Held(k)
        BY <1>3, WaitingHeld
      <3>2. ASSUME NEW i \in 1 .. n, m = Held(i) PROVE m < position'
        BY <1>3, <1>8, <3>2
      <3> QED  BY <1>8, <3>1, <3>2
    <2>2. \A m \in Waiting : m >= position' <=> ~(m < position')
      BY <1>3, <1>4
    <2> QED  BY <1>7, <2>1, <2>2
  <1>10. IInv'
    BY <1>0, <1>4, SkipIInv DEF WInv
  <1>11. WTypes'
    <2>1. owesSkip' \in BOOLEAN
      BY <1>2
    <2> QED  BY <1>2, <1>4, <2>1 DEF WInv, WTypes
  <1>12. Started'
    BY <1>2 DEF WInv, Started
  <1>13. OnTheWire'
    <2>1. \A x : Wire(x)' = Wire(x)
      BY <1>2 DEF Wire
    <2> QED  BY <1>5, <1>7, <2>1 DEF OnTheWire
  <1>14. Near'
    <2> DEFINE p == position + num
    <2>0. p \in Nat /\ position' = p
      BY <1>0, <1>3, <1>4
    <2>a. ASSUME NEW m \in Waiting PROVE Abs(p - m) * increase_ < Half
      <3>1. p - m = position + num - m
        BY <1>3, <1>4
      <3> QED  BY <1>0, <3>1
    <2> HIDE DEF p
    <2> SUFFICES ASSUME NEW m \in Waiting' \cup {p}, NEW l \in Waiting' \cup {p}
                 PROVE  Abs(m - l) * increase_ < Half
      BY <1>2, <2>0 DEF Near
    <2>1. CASE m \in Waiting /\ l \in Waiting
      BY <1>2, <2>1 DEF WInv, Near
    <2>2. CASE m = p /\ l = p
      <3>1. Abs(m - l) = 0
        BY <2>0, <2>2 DEF Abs
      <3> QED  BY <1>3, <3>1, SerialAssumption
    <2>3. CASE m = p /\ l \in Waiting
      BY <2>a, <2>3
    <2>4. CASE m \in Waiting /\ l = p
      <3>1. Abs(m - l) = Abs(l - m)
        BY <1>3, <2>0, <2>4 DEF Abs
      <3> QED  BY <2>a, <2>4, <3>1
    <2> QED  BY <1>9, <2>1, <2>2, <2>3, <2>4
  <1>15. HandedBefore'
    <2>1. handed \in Int
      BY DEF WInv, WTypes, Number, None
    <2>2. handed < position \/ (handed = position /\ num = 1)
      BY <1>0, <1>2 DEF WInv, HandedBefore
    <2>3. handed < position'
      BY <1>0, <1>3, <1>4, <2>1, <2>2
    <2> QED  BY <1>2, <2>3 DEF HandedBefore
  <1>16. Ideal!Advance(num)
    BY <1>0, <1>2, <1>9 DEF Ideal!Advance
  <1> QED
    BY <1>7, <1>10, <1>11, <1>12, <1>13, <1>14, <1>15, <1>16 DEF WInv

----------------------------------------------------------------------------
LEMMA WInitInv == WInit => WInv /\ Ideal!Init
  <1> SUFFICES ASSUME WInit PROVE WInv /\ Ideal!Init
    OBVIOUS
  <1>1. Init /\ IInv
    BY InitIInv DEF WInit
  <1>2. is_first_ = TRUE /\ data_ = <<>> /\ Waiting = {}
    BY <1>1 DEF Init, Waiting, Stored
  <1>3. WTypes
    <2>1. number \in [Buffers -> Number \cup {None}] /\ handed \in Number \cup {None}
      BY DEF WInit
    <2>2. position \in Nat /\ resets \in Nat
      BY DEF WInit
    <2>3. owesSkip \in BOOLEAN
      BY DEF WInit
    <2> QED  BY <2>1, <2>2, <2>3 DEF WTypes
  <1>4. Started /\ OnTheWire /\ Ascending /\ Near /\ HandedBefore
    BY <1>2 DEF WInit, Started, OnTheWire, Ascending, Near, HandedBefore
  <1>5. Ideal!Init
    BY <1>2 DEF WInit, Ideal!Init, None
  <1> QED  BY <1>1, <1>3, <1>4, <1>5 DEF WInv

LEMMA WNextStep ==
  ASSUME WInv, OverflowWraps, 0 \notin Increases, [WNext]_windowVars
  PROVE  WInv' /\ [Ideal!Next]_(Ideal!vars)
  <1>1. CASE WReset
    BY <1>1, ResetStep DEF Ideal!Next
  <1>2. ASSUME NEW n \in Number, WInsert(n)
        PROVE  WInv' /\ [Ideal!Next]_(Ideal!vars)
    <2>1. CASE WInsertNow(n)
      BY <1>2, <2>1, InsertNowStep DEF WInsert, Ideal!Next
    <2>2. CASE WInsertNext(n)
      BY <1>2, <2>2, InsertNextStep DEF WInsert, Ideal!Next
    <2>3. CASE WInsertBehind(n)
      <3>1. UNCHANGED vars /\ UNCHANGED history
        BY <2>3 DEF WInsertBehind, InsertBehind
      <3>2. IInv'
        BY <3>1, StutterIInv DEF WInv
      <3> QED  BY <3>1, <3>2, StutterStep DEF vars, sorter
    <2> QED  BY <1>2, <2>1, <2>2, <2>3 DEF WInsert
  <1>3. CASE WGet
    BY <1>3, GetStep DEF Ideal!Next
  <1>4. CASE WSkip
    BY <1>4, SkipStep DEF Ideal!Next
  <1>5. CASE WBuffers
    <2>1. PICK buf \in Buffers : NewBuffer(buf) \/ DeleteBuffer(buf)
      BY <1>5 DEF WBuffers
    <2>2. IInv'
      BY <2>1, BufferIInv DEF WInv
    <2>3. UNCHANGED <<sorter, history>>
      BY <1>5, <2>1 DEF WBuffers, NewBuffer, DeleteBuffer
    <2> QED  BY <2>2, <2>3, StutterStep
  <1>6. CASE UNCHANGED windowVars
    <2>1. UNCHANGED vars /\ UNCHANGED history
      BY <1>6 DEF windowVars
    <2>2. IInv'
      BY <2>1, StutterIInv DEF WInv
    <2> QED  BY <2>1, <2>2, StutterStep DEF vars, sorter
  <1> QED  BY <1>1, <1>2, <1>3, <1>4, <1>5, <1>6 DEF WNext

\* The inductive invariant holds in every reachable state.
THEOREM WindowInvariant ==
  ASSUME OverflowWraps, 0 \notin Increases
  PROVE  WSpec => []WInv
  <1>1. WInit => WInv
    BY WInitInv
  <1>2. WInv /\ [WNext]_windowVars => WInv'
    BY WNextStep
  <1> QED  BY <1>1, <1>2, PTL DEF WSpec

\* In the wrapping build PacketSorter implements the ideal sorter of packets
\* without end, however often the numbers on the wire wrap around
\* (utils.cpp:44-96, utils.h:81-88).
THEOREM WindowImplementsIdeal ==
  ASSUME OverflowWraps, 0 \notin Increases
  PROVE  WSpec => ImplementsIdeal
  <1>1. WInit => Ideal!Init
    BY WInitInv
  <1>2. WInv /\ [WNext]_windowVars => [Ideal!Next]_(Ideal!vars)
    BY WNextStep
  <1> QED
    BY <1>1, <1>2, WindowInvariant, PTL DEF WSpec, ImplementsIdeal, Ideal!Spec

\* Insert tells past packets from those to come although it sees their
\* numbers modulo the width only (utils.cpp:55-71).
THEOREM WindowAnswersTruly ==
  ASSUME OverflowWraps, 0 \notin Increases
  PROVE  WSpec => []AnswersTruly
  <1>1. WInv => AnswersTruly
    BY AnswersFromPosition DEF AnswersTruly
  <1> QED  BY <1>1, WindowInvariant, PTL

\* Insert and Get hand every packet over at most once and in the sender's
\* order (utils.cpp:55-61, 74-83).
THEOREM WindowHandedInOrder ==
  ASSUME OverflowWraps, 0 \notin Increases
  PROVE  WSpec => HandedInOrder
  <1> DEFINE InOrder ==
        (\E n \in Number : WInsert(n) /\ WInsertNow(n)) \/ WGet => handed' > handed
  <1>1. WInv => InOrder
    <2> SUFFICES ASSUME WInv,
                        \/ \E n \in Number : WInsert(n) /\ WInsertNow(n)
                        \/ WGet
                 PROVE  handed' > handed
      OBVIOUS
    <2>1. ASSUME NEW n \in Number, WInsert(n), WInsertNow(n)
          PROVE  handed' > handed
      BY <2>1, InsertNowStep DEF WInsert
    <2> QED  BY <2>1, GetStep
  <1>2. WInv /\ [WNext]_windowVars => [InOrder]_windowVars
    BY <1>1
  <1> QED  BY <1>2, WindowInvariant, PTL DEF WSpec, HandedInOrder

\* Within the window the map is in order in the wrapping build, too: Less
\* itself is no order there, but on the packets alive it is one, so that
\* begin() is the earliest of them (utils.h:81-88).
THEOREM WindowSorted ==
  ASSUME OverflowWraps, 0 \notin Increases
  PROVE  WSpec => []Sorted
  <1>1. ASSUME WInv PROVE Sorted
    <2>1. CASE is_first_
      BY <1>1, <2>1 DEF WInv, IInv, FirstMeansEmpty, Sorted
    <2>2. CASE ~is_first_
      <3> SUFFICES ASSUME NEW i \in DOMAIN data_, NEW j \in DOMAIN data_, i < j
                   PROVE  Less(data_[i].sn, data_[j].sn)
        BY DEF Sorted
      <3>1. /\ increase_ \in Nat \ {0}
            /\ Held(i) \in Nat /\ Held(i) \in Waiting /\ data_[i].sn = Wire(Held(i))
            /\ Held(j) \in Nat /\ Held(j) \in Waiting /\ data_[j].sn = Wire(Held(j))
        BY <1>1, <2>2, StartedFacts
      <3>2. Abs(Held(i) - Held(j)) * increase_ < Half
        BY <1>1, <2>2, <3>1 DEF WInv, Near
      <3>3. Held(i) < Held(j)
        BY <1>1 DEF WInv, Ascending
      <3> QED  BY <3>1, <3>2, <3>3, WireLess
    <2> QED  BY <2>1, <2>2
  <1> QED  BY <1>1, WindowInvariant, PTL
==============================================================================
