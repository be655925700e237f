--------------------------- MODULE TimerWheelProof ---------------------------
(****************************************************************************)
(* Proofs about TimerWheel for wheels of every size, any number of timers   *)
(* and every run of the clock: a timer is always in the slot where it will  *)
(* be found in time, so the wheel implements exact timers.                  *)
(****************************************************************************)
EXTENDS TimerWheel, MailboxProof

LEMMA DivMod ==
    ASSUME NEW t, t \in Nat, NEW n, n \in Nat \ {0}
    PROVE  /\ t \div n \in Nat /\ t % n \in 0..n - 1
           /\ t = n * (t \div n) + (t % n)
  OBVIOUS

LEMMA DivUnique ==
    ASSUME NEW q, q \in Nat, NEW n, n \in Nat \ {0}, NEW r, r \in 0..n - 1
    PROVE  (n * q + r) \div n = q /\ (n * q + r) % n = r
  OBVIOUS

LEMMA TimesLE ==
    ASSUME NEW a, a \in Nat, NEW b, b \in Nat, NEW c, c \in Nat
    PROVE  a * b \in Nat /\ (b <= c => a * b <= a * c)
  OBVIOUS

LEMMA Assoc ==
    ASSUME NEW a, a \in Nat, NEW b, b \in Nat, NEW q, q \in Nat, NEW r, r \in Nat, NEW s, s \in Nat
    PROVE  a * (b * q + r) + s = (a * b) * q + (a * r + s)
  OBVIOUS

LEMMA DivDiv ==
    ASSUME NEW t, t \in Nat, NEW a, a \in Nat \ {0}, NEW b, b \in Nat \ {0}
    PROVE  t \div (a * b) = (t \div a) \div b
<1> DEFINE q == t \div a
           r == t % a
           u == q \div b
           v == q % b
           n == a * b
           w == a * v + r
<1>1. q \in Nat /\ r \in 0..a - 1 /\ t = a * q + r
  BY DivMod
<1>2. u \in Nat /\ v \in 0..b - 1 /\ q = b * u + v
  BY <1>1, DivMod
<1>3. t = n * u + w
  <2> HIDE DEF q, r, u, v
  <2>1. t = a * (b * u + v) + r
    BY <1>1, <1>2
  <2> QED
    BY <1>1, <1>2, <2>1, Assoc
<1>4. n \in Nat \ {0} /\ w \in 0..n - 1
  <2> HIDE DEF q, r, u, v
  <2>1. a * v \in Nat /\ a * v <= a * (b - 1)
    BY <1>2, TimesLE
  <2>2. a * (b - 1) = a * b - a
    OBVIOUS
  <2>3. a * b \in Nat
    BY TimesLE
  <2> QED
    BY ONLY <1>1, <2>1, <2>2, <2>3, a \in Nat \ {0}
<1> HIDE DEF q, r, u, v, n, w
<1>5. t \div n = u
  BY <1>2, <1>3, <1>4, DivUnique
<1> QED
  BY <1>5 DEF n, q, u

LEMMA DivStep ==
    ASSUME NEW t, t \in Nat, NEW n, n \in Nat \ {0}
    PROVE  IF (t + 1) % n = 0 THEN (t + 1) \div n = t \div n + 1
           ELSE (t + 1) \div n = t \div n
<1> DEFINE q == t \div n
           r == t % n
<1>1. q \in Nat /\ r \in 0..n - 1 /\ t = n * q + r
  BY DivMod
<1>2. CASE r = n - 1
  <2> DEFINE p == q + 1
  <2>1. t + 1 = n * p + 0 /\ p \in Nat /\ 0 \in 0..n - 1
    BY <1>1, <1>2
  <2> HIDE DEF p, r
  <2>2. (t + 1) \div n = p /\ (t + 1) % n = 0
    BY <2>1, DivUnique
  <2> QED
    BY <2>2 DEF p
<1>3. CASE r # n - 1
  <2> HIDE DEF q, r
  <2>1. r + 1 \in 0..n - 1 /\ t + 1 = n * q + (r + 1)
    BY <1>1, <1>3
  <2>2. (t + 1) \div n = q /\ (t + 1) % n = r + 1
    BY <1>1, <2>1, DivUnique
  <2>3. r + 1 # 0
    BY <1>1
  <2> QED
    BY <2>2, <2>3 DEF q
<1> QED
  BY <1>2, <1>3

LEMMA DivLE ==
    ASSUME NEW s, s \in Nat, NEW t, t \in Nat, NEW n, n \in Nat \ {0}, s <= t
    PROVE  s \div n <= t \div n
  OBVIOUS

LEMMA DivNear ==
    ASSUME NEW s, s \in Nat, NEW t, t \in Nat, NEW n, n \in Nat \ {0},
           s \div n = t \div n
    PROVE  t - s < n
<1>1. s = n * (s \div n) + (s % n) /\ (s % n) \in 0..n - 1
  BY DivMod
<1>2. t = n * (t \div n) + (t % n) /\ (t % n) \in 0..n - 1
  BY DivMod
<1> DEFINE x == n * (t \div n)
<1>3. s = x + (s % n) /\ t = x + (t % n)
  BY <1>1, <1>2
<1>4. x \in Nat
  OBVIOUS
<1> HIDE DEF x
<1> QED
  BY <1>1, <1>2, <1>3, <1>4

LEMMA UnitFacts ==
    /\ Unit(0) = 1 /\ Unit(5) = Span
    /\ \A l \in 0..4 : /\ Size(l) \in Nat \ {0, 1}
                       /\ Unit(l) \in Nat \ {0}
                       /\ Unit(l + 1) = Unit(l) * Size(l)
    /\ Span \in Nat \ {0} /\ 2 * Unit(4) <= Span
    /\ \A l \in 0..4 : Unit(l) <= Unit(4)
<1> DEFINE a == TVR_SIZE
           b == a * TVN_SIZE
           c == b * TVN_SIZE
           d == c * TVN_SIZE
           e == d * TVN_SIZE
<1>0. \A x \in Nat \ {0} : /\ x * TVN_SIZE \in Nat \ {0} /\ x <= x * TVN_SIZE
                           /\ 2 * x <= x * TVN_SIZE
  <2> SUFFICES ASSUME NEW x \in Nat \ {0}
               PROVE  /\ x * TVN_SIZE \in Nat \ {0} /\ x <= x * TVN_SIZE
                      /\ 2 * x <= x * TVN_SIZE
    OBVIOUS
  <2>1. TVN_SIZE \in Nat /\ 2 <= TVN_SIZE
    BY WheelAssumption
  <2>2. x * TVN_SIZE \in Nat /\ x * 2 <= x * TVN_SIZE
    BY <2>1, TimesLE
  <2> QED
    BY <2>2
<1>1. a \in Nat \ {0, 1} /\ TVN_SIZE \in Nat \ {0, 1}
  BY WheelAssumption
<1>2. /\ Unit(0) = 1 /\ Unit(1) = a /\ Unit(2) = b /\ Unit(3) = c /\ Unit(4) = d
      /\ Unit(5) = e
  BY DEF Unit, Units
<1>3. Size(0) = a /\ Size(1) = TVN_SIZE /\ Size(2) = TVN_SIZE /\ Size(3) = TVN_SIZE
      /\ Size(4) = TVN_SIZE
  BY DEF Size
<1>4. 1 * a = a
  BY <1>1
<1> HIDE DEF a
<1>5. b \in Nat \ {0} /\ a <= b
  BY <1>0, <1>1
<1> HIDE DEF b
<1>6. c \in Nat \ {0} /\ b <= c
  BY <1>0, <1>5
<1> HIDE DEF c
<1>7. d \in Nat \ {0} /\ c <= d
  BY <1>0, <1>6
<1> HIDE DEF d
<1>8. e \in Nat \ {0} /\ 2 * d <= e
  BY <1>0, <1>7
<1>9. \A l \in 0..4 : /\ Size(l) \in Nat \ {0, 1}
                      /\ Unit(l) \in Nat \ {0}
                      /\ Unit(l) <= Unit(4)
                      /\ Unit(l + 1) = Unit(l) * Size(l)
  <2> SUFFICES ASSUME NEW l \in 0..4
               PROVE  /\ Size(l) \in Nat \ {0, 1} /\ Unit(l) \in Nat \ {0}
                      /\ Unit(l) <= Unit(4) /\ Unit(l + 1) = Unit(l) * Size(l)
    OBVIOUS
  <2>1. CASE l = 0
    BY <1>1, <1>2, <1>3, <1>4, <1>5, <1>6, <1>7, <2>1
  <2>2. CASE l = 1
    BY <1>1, <1>2, <1>3, <1>5, <1>6, <1>7, <2>2 DEF b
  <2>3. CASE l = 2
    BY <1>1, <1>2, <1>3, <1>5, <1>6, <1>7, <2>3 DEF c
  <2>4. CASE l = 3
    BY <1>1, <1>2, <1>3, <1>5, <1>6, <1>7, <2>4 DEF d
  <2>5. CASE l = 4
    BY <1>1, <1>2, <1>3, <1>5, <1>6, <1>7, <1>8, <2>5 DEF e
  <2> QED
    BY <2>1, <2>2, <2>3, <2>4, <2>5
<1> QED
  BY <1>2, <1>8, <1>9 DEF Span

(* The prefixes of a time: what time_ >> (TVR_BITS + i * TVN_BITS) is.      *)
Prefix(l, t) == t \div Unit(l)

LEMMA PrefixFacts ==
    ASSUME NEW t \in 0..Span - 1
    PROVE  /\ Prefix(0, t) = t /\ Prefix(5, t) = 0
           /\ \A l \in 0..4 : /\ Prefix(l, t) \in Nat
                              /\ Prefix(l + 1, t) = Prefix(l, t) \div Size(l)
                              /\ Index(l, t) = Prefix(l, t) % Size(l)
                              /\ Index(l, t) \in 0..Size(l) - 1
<1>1. t \in Nat /\ t < Span /\ Span \in Nat \ {0}
  BY UnitFacts
<1>2. Prefix(0, t) = t
  BY <1>1, UnitFacts DEF Prefix
<1>3. Prefix(5, t) = 0
  <2>1. t = Span * 0 + t /\ t \in 0..Span - 1
    BY <1>1
  <2>2. t \div Span = 0
    BY <1>1, <2>1, DivUnique
  <2> QED
    BY <2>2, UnitFacts DEF Prefix
<1>4. ASSUME NEW l \in 0..4
      PROVE  /\ Prefix(l, t) \in Nat
             /\ Prefix(l + 1, t) = Prefix(l, t) \div Size(l)
             /\ Index(l, t) = Prefix(l, t) % Size(l)
             /\ Index(l, t) \in 0..Size(l) - 1
  <2>1. Unit(l) \in Nat \ {0} /\ Size(l) \in Nat \ {0} /\ Unit(l + 1) = Unit(l) * Size(l)
    BY UnitFacts
  <2>2. Prefix(l, t) \in Nat
    BY <1>1, <2>1, DivMod DEF Prefix
  <2>3. t \div (Unit(l) * Size(l)) = (t \div Unit(l)) \div Size(l)
    <3> DEFINE a == Unit(l)
               b == Size(l)
    <3>1. a \in Nat \ {0} /\ b \in Nat \ {0} /\ t \in Nat
      BY <1>1, <2>1
    <3> HIDE DEF a, b
    <3>2. t \div (a * b) = (t \div a) \div b
      BY <3>1, DivDiv
    <3> QED
      BY <3>2 DEF a, b
  <2>4. Index(l, t) = Prefix(l, t) % Size(l)
    BY DEF Index, Prefix
  <2>5. Prefix(l, t) % Size(l) \in 0..Size(l) - 1
    BY <2>1, <2>2, DivMod
  <2> QED
    BY <2>1, <2>2, <2>3, <2>4, <2>5 DEF Prefix
<1> QED
  BY <1>2, <1>3, <1>4

(* What has to be known of the prefixes of two times: that they are equal   *)
(* is what SamePrefix says, and an equal prefix makes the higher ones equal *)
LEMMA SamePrefixFacts ==
    ASSUME NEW s \in 0..Span - 1, NEW t \in 0..Span - 1
    PROVE  /\ SamePrefix(5, s, t)
           /\ SamePrefix(0, s, t) <=> s = t
           /\ \A l \in 0..4 :
                SamePrefix(l, s, t)
                <=> SamePrefix(l + 1, s, t) /\ Index(l, s) = Index(l, t)
           /\ \A l \in 0..5 : \A k \in l..5 : SamePrefix(l, s, t) => SamePrefix(k, s, t)
<1>1. \A l \in 0..5 : SamePrefix(l, s, t) <=> Prefix(l, s) = Prefix(l, t)
  BY DEF SamePrefix, Prefix
<1>2. SamePrefix(5, s, t) /\ (SamePrefix(0, s, t) <=> s = t)
  BY <1>1, PrefixFacts
<1>3. ASSUME NEW l \in 0..4
      PROVE  SamePrefix(l, s, t)
             <=> SamePrefix(l + 1, s, t) /\ Index(l, s) = Index(l, t)
  <2> DEFINE n == Size(l)
             a == Prefix(l, s)
             b == Prefix(l, t)
  <2>1. n \in Nat \ {0} /\ a \in Nat /\ b \in Nat
    BY UnitFacts, PrefixFacts
  <2>2. /\ Prefix(l + 1, s) = a \div n /\ Index(l, s) = a % n
        /\ Prefix(l + 1, t) = b \div n /\ Index(l, t) = b % n
    BY PrefixFacts
  <2>3. l \in 0..5 /\ l + 1 \in 0..5
    OBVIOUS
  <2> HIDE DEF n, a, b
  <2>4. a = n * (a \div n) + (a % n) /\ b = n * (b \div n) + (b % n)
    BY <2>1, DivMod
  <2>5. a = b <=> a \div n = b \div n /\ a % n = b % n
    BY <2>4
  <2> QED
    BY <1>1, <2>2, <2>3, <2>5 DEF a, b
<1>4. ASSUME NEW l \in 0..5, NEW k \in l..5, SamePrefix(l, s, t)
      PROVE  SamePrefix(k, s, t)
  <2>1. \A i \in 0..4 : SamePrefix(i, s, t) => SamePrefix(i + 1, s, t)
    BY <1>3
  <2> DEFINE B(i) == SamePrefix(i, s, t)
  <2>2. (B(0) => B(1)) /\ (B(1) => B(2)) /\ (B(2) => B(3)) /\ (B(3) => B(4)) /\ (B(4) => B(5))
    BY <2>1
  <2> HIDE DEF B
  <2>3. l \in {0, 1, 2, 3, 4, 5} /\ k \in {0, 1, 2, 3, 4, 5} /\ l <= k
    OBVIOUS
  <2>4. B(l)
    BY <1>4 DEF B
  <2>5. B(k)
    BY <2>2, <2>3, <2>4
  <2> QED
    BY <2>5 DEF B
<1> QED
  BY <1>2, <1>3, <1>4

(* The level of a timer.                                                    *)
Level(s, t) == Min({4} \cup { i \in 0..3 : SamePrefix(i + 1, s, t) })

LEMMA LevelFacts ==
    ASSUME NEW s \in 0..Span - 1, NEW t \in 0..Span - 1
    PROVE  /\ Level(s, t) \in 0..4
           /\ Slot(s, t) = <<Level(s, t), Index(Level(s, t), s)>>
           /\ \A l \in 0..4 : Level(s, t) = l <=>
                SamePrefix(l + 1, s, t) /\ (l > 0 => ~SamePrefix(l, s, t))
<1> DEFINE L == {4} \cup { i \in 0..3 : SamePrefix(i + 1, s, t) }
           k == Level(s, t)
<1>1. L \subseteq Nat /\ L # {}
  OBVIOUS
<1>2. \E x \in L : \A y \in L : x <= y
  BY <1>1, LeastNumber
<1>3. k \in L /\ \A y \in L : k <= y
  BY <1>2 DEF Level, Min
<1>4. Slot(s, t) = <<k, Index(k, s)>>
  BY DEF Slot, Level
<1>5. \A i \in 0..4 : i \in L <=> SamePrefix(i + 1, s, t)
  <2>1. SamePrefix(5, s, t)
    BY SamePrefixFacts
  <2> QED
    BY <2>1
<1>6. k \in 0..4
  BY <1>3
<1>7. \A i \in 0..4 : \A j \in i..4 : i \in L => j \in L
  <2> SUFFICES ASSUME NEW i \in 0..4, NEW j \in i..4, i \in L PROVE j \in L
    OBVIOUS
  <2>1. i + 1 \in 0..5 /\ j + 1 \in (i + 1)..5 /\ j \in 0..4
    OBVIOUS
  <2>2. SamePrefix(i + 1, s, t)
    BY <1>5
  <2>3. SamePrefix(j + 1, s, t)
    BY <2>1, <2>2, SamePrefixFacts
  <2> QED
    BY <1>5, <2>1, <2>3
<1> HIDE DEF L, k
<1>8. ASSUME NEW l \in 0..4
      PROVE  k = l <=> SamePrefix(l + 1, s, t) /\ (l > 0 => ~SamePrefix(l, s, t))
  <2>1. SamePrefix(l + 1, s, t) <=> l \in L
    BY <1>5
  <2>2. l > 0 => (SamePrefix(l, s, t) <=> l - 1 \in L)
    <3>1. SUFFICES ASSUME l > 0 PROVE SamePrefix(l, s, t) <=> l - 1 \in L
      OBVIOUS
    <3>2. l - 1 \in 0..4 /\ (l - 1) + 1 = l
      BY <3>1
    <3> QED
      BY <1>5, <3>2
  <2>3. k = l => l \in L /\ (l > 0 => l - 1 \notin L)
    BY <1>3, <1>6
  <2>4. ASSUME l \in L, l > 0 => l - 1 \notin L
        PROVE  k = l
    <3>1. k <= l
      BY <1>3, <2>4
    <3>2. ASSUME k < l PROVE FALSE
      <4>1. l - 1 \in k..4 /\ l > 0
        BY <1>6, <3>2
      <4>2. l - 1 \in L
        BY <1>3, <1>6, <1>7, <4>1
      <4> QED
        BY <2>4, <4>1, <4>2
    <3> QED
      BY <1>6, <3>1, <3>2
  <2> QED
    BY <2>1, <2>2, <2>3, <2>4
<1> QED
  BY <1>4, <1>6, <1>8 DEF k

LEMMA SlotType ==
    ASSUME NEW s \in 0..Span - 1, NEW t \in 0..Span - 1
    PROVE  Slot(s, t) \in Slots
<1>1. Level(s, t) \in 0..4
  BY LevelFacts
<1>2. Index(Level(s, t), s) \in 0..Size(Level(s, t)) - 1
  BY <1>1, PrefixFacts
<1>3. ASSUME NEW l \in 0..4, NEW i, i \in 0..Size(l) - 1 PROVE <<l, i>> \in Slots
  <2>1. CASE l = 0
    BY <1>3, <2>1 DEF Slots, Size
  <2>2. CASE l # 0
    BY <1>3, <2>2 DEF Slots, Size
  <2> QED
    BY <2>1, <2>2
<1> QED
  BY <1>1, <1>2, <1>3, LevelFacts

-----------------------------------------------------------------------------
(* One tick on.                                                             *)

(* The ticks that are left of a timer that fires at s.                      *)
Left(s, t) == (s - t) % Span

LEMMA LeftFacts ==
    ASSUME NEW s \in 0..Span - 1, NEW t \in 0..Span - 1
    PROVE  /\ Left(s, t) = IF s >= t THEN s - t ELSE s - t + Span
           /\ Left(s, t) = 0 <=> s = t
<1>1. Span \in Nat \ {0}
  BY UnitFacts
<1>2. CASE s >= t
  <2>1. s - t \in 0..Span - 1
    BY <1>1, <1>2
  <2> DEFINE d == s - t
  <2> HIDE DEF d
  <2>2. d % Span = d
    BY <1>1, <2>1 DEF d
  <2> QED
    BY <1>1, <1>2, <2>2 DEF d, Left
<1>3. CASE s < t
  <2> DEFINE d == s - t
  <2>1. d \in Int /\ d + Span \in 0..Span - 1
    BY <1>1, <1>3
  <2> HIDE DEF d
  <2>2. d % Span = d + Span
    BY <1>1, <2>1
  <2>3. d # 0 /\ d + Span # 0 /\ s # t
    BY <1>1, <1>3 DEF d
  <2> QED
    BY <1>1, <1>3, <2>2, <2>3 DEF d, Left
<1> QED
  BY <1>2, <1>3

(* A timer that fires after time_ has wrapped around has no prefix in       *)
(* common with time_.                                                       *)
LEMMA NotSame ==
    ASSUME NEW s \in 0..Span - 1, NEW t \in 0..Span - 1, s < t, Left(s, t) \in 1..MaxTime,
           NEW l \in 0..4
    PROVE  ~SamePrefix(l, s, t)
<1>1. /\ Span \in Nat \ {0} /\ Unit(l) \in Nat \ {0} /\ Unit(l) <= Unit(4)
      /\ Unit(4) \in Nat /\ 2 * Unit(4) <= Span
  BY UnitFacts
<1>2. s - t + Span <= MaxTime
  BY <1>1, LeftFacts
<1>3. 2 * (Span \div 2) <= Span
  BY <1>1
<1>4. MaxTime \in Int /\ 2 * MaxTime <= Span - 2
  BY <1>1, <1>3 DEF MaxTime
<1>5. ASSUME SamePrefix(l, s, t) PROVE FALSE
  <2>1. t - s < Unit(l)
    BY <1>1, <1>5, DivNear DEF SamePrefix
  <2> QED
    BY ONLY <1>1, <1>2, <1>4, <2>1, s \in Int, t \in Int
<1> QED
  BY <1>5

NextTick(t) == (t + 1) % Span

LEMMA NextFacts ==
    ASSUME NEW t \in 0..Span - 1
    PROVE  /\ NextTick(t) = IF t = Span - 1 THEN 0 ELSE t + 1
           /\ NextTick(t) \in 0..Span - 1
<1>1. Span \in Nat \ {0}
  BY UnitFacts
<1>2. CASE t = Span - 1
  <2>1. t + 1 = Span * 1 + 0 /\ 0 \in 0..Span - 1
    BY <1>1, <1>2
  <2>2. (t + 1) % Span = 0
    BY <1>1, <2>1, DivUnique
  <2> QED
    BY <1>1, <1>2, <2>2 DEF NextTick
<1>3. CASE t # Span - 1
  <2>1. t + 1 = Span * 0 + (t + 1) /\ t + 1 \in 0..Span - 1
    BY <1>1, <1>3
  <2>2. (t + 1) % Span = t + 1
    BY <1>1, <2>1, DivUnique
  <2> QED
    BY <1>1, <1>3, <2>1, <2>2 DEF NextTick
<1> QED
  BY <1>2, <1>3

(* How the prefixes change: from the level at which the wheel is turned on. *)
LEMMA PrefixStep ==
    ASSUME NEW t \in 0..Span - 1, t # Span - 1, NEW l \in 0..4
    PROVE  /\ Prefix(l, t + 1) = Prefix(l, t) + 1 /\ Index(l, t + 1) = 0
                => Prefix(l + 1, t + 1) = Prefix(l + 1, t) + 1
           /\ Prefix(l, t + 1) = Prefix(l, t) + 1 /\ Index(l, t + 1) # 0
                => Prefix(l + 1, t + 1) = Prefix(l + 1, t)
           /\ Prefix(l, t + 1) = Prefix(l, t) => Prefix(l + 1, t + 1) = Prefix(l + 1, t)
<1>0. t + 1 \in 0..Span - 1
  BY UnitFacts
<1> DEFINE n == Size(l)
           a == Prefix(l, t)
           u == t + 1
           b == Prefix(l, u)
<1>1. n \in Nat \ {0} /\ a \in Nat
  BY UnitFacts, PrefixFacts
<1>2. /\ Prefix(l + 1, t) = a \div n
      /\ Prefix(l + 1, u) = b \div n /\ Index(l, u) = b % n
  BY <1>0, PrefixFacts
<1> HIDE DEF n, a, b, u
<1>3. IF (a + 1) % n = 0 THEN (a + 1) \div n = a \div n + 1
      ELSE (a + 1) \div n = a \div n
  BY <1>1, DivStep
<1>4. /\ b = a + 1 /\ Index(l, u) = 0 => Prefix(l + 1, u) = Prefix(l + 1, t) + 1
      /\ b = a + 1 /\ Index(l, u) # 0 => Prefix(l + 1, u) = Prefix(l + 1, t)
      /\ b = a => Prefix(l + 1, u) = Prefix(l + 1, t)
  BY <1>2, <1>3
<1> QED
  BY <1>4 DEF a, b, u

(* The level whose slot is spread when tv1_ begins a new turn.              *)
Turning(now) == IF now = 0 THEN 4 ELSE Min({ l \in 1..4 : Index(l, now) # 0 })

LEMMA TurningStep ==
    ASSUME NEW t \in 0..Span - 1, t # Span - 1, Index(0, t + 1) = 0
    PROVE  LET k == Turning(t + 1)
           IN  /\ k \in 1..4 /\ Index(k, t + 1) # 0
               /\ \A i \in 0..k : Prefix(i, t + 1) = Prefix(i, t) + 1
               /\ \A i \in (k + 1)..5 : Prefix(i, t + 1) = Prefix(i, t)
<1> DEFINE u == t + 1
           k == Turning(u)
           L == { l \in 1..4 : Index(l, u) # 0 }
           Q(i) == Prefix(i, u) = Prefix(i, t) + 1
           R(i) == Prefix(i, u) = Prefix(i, t)
           Z(i) == Index(i, u) = 0
<1>0. u \in 0..Span - 1 /\ u # 0
  BY UnitFacts
<1>1. Q(0) /\ ~Q(5)
  BY <1>0, PrefixFacts
<1>2. \A l \in 0..4 : \A m : m = l + 1 =>
         /\ Q(l) /\ Z(l) => Q(m)
         /\ Q(l) /\ ~Z(l) => R(m)
         /\ R(l) => R(m)
  BY PrefixStep
<1> HIDE DEF Q, R, Z, k, u
<1>2a. (Q(0) /\ Z(0) => Q(1)) /\ (Q(0) /\ ~Z(0) => R(1)) /\ (R(0) => R(1))
  <2>1. 0 \in 0..4 /\ 1 = 0 + 1
    OBVIOUS
  <2> QED
    BY <1>2, <2>1, Zenon
<1>2b. (Q(1) /\ Z(1) => Q(2)) /\ (Q(1) /\ ~Z(1) => R(2)) /\ (R(1) => R(2))
  <2>1. 1 \in 0..4 /\ 2 = 1 + 1
    OBVIOUS
  <2> QED
    BY <1>2, <2>1, Zenon
<1>2c. (Q(2) /\ Z(2) => Q(3)) /\ (Q(2) /\ ~Z(2) => R(3)) /\ (R(2) => R(3))
  <2>1. 2 \in 0..4 /\ 3 = 2 + 1
    OBVIOUS
  <2> QED
    BY <1>2, <2>1, Zenon
<1>2d. (Q(3) /\ Z(3) => Q(4)) /\ (Q(3) /\ ~Z(3) => R(4)) /\ (R(3) => R(4))
  <2>1. 3 \in 0..4 /\ 4 = 3 + 1
    OBVIOUS
  <2> QED
    BY <1>2, <2>1, Zenon
<1>2e. (Q(4) /\ Z(4) => Q(5)) /\ (Q(4) /\ ~Z(4) => R(5)) /\ (R(4) => R(5))
  <2>1. 4 \in 0..4 /\ 5 = 4 + 1
    OBVIOUS
  <2> QED
    BY <1>2, <2>1, Zenon
<1>3. /\ (Q(0) /\ Z(0) => Q(1)) /\ (Q(1) /\ Z(1) => Q(2)) /\ (Q(2) /\ Z(2) => Q(3))
      /\ (Q(3) /\ Z(3) => Q(4)) /\ (Q(4) /\ Z(4) => Q(5))
      /\ (Q(1) /\ ~Z(1) => R(2)) /\ (Q(2) /\ ~Z(2) => R(3))
      /\ (Q(3) /\ ~Z(3) => R(4)) /\ (Q(4) /\ ~Z(4) => R(5))
      /\ (R(2) => R(3)) /\ (R(3) => R(4)) /\ (R(4) => R(5))
  BY <1>2a, <1>2b, <1>2c, <1>2d, <1>2e
<1>4. Z(0)
  BY DEF Z, u
<1>5. ~Z(1) \/ ~Z(2) \/ ~Z(3) \/ ~Z(4)
  BY <1>1, <1>3, <1>4, Zenon
<1>6. L # {} /\ L \subseteq Nat
  BY <1>5 DEF Z
<1>7. \E x \in L : \A y \in L : x <= y
  BY <1>6, LeastNumber
<1>8. k \in L /\ \A y \in L : k <= y
  BY <1>0, <1>7 DEF k, Turning, Min
<1>9. k \in 1..4 /\ ~Z(k)
  BY <1>8 DEF Z
<1>10. \A i \in 1..4 : i < k => Z(i)
  BY <1>8 DEF Z
<1> HIDE DEF L
<1>11. /\ \A i \in 0..k : Q(i)
       /\ \A i \in (k + 1)..5 : R(i)
  <2>1. CASE k = 1
    <3>1. Q(0) /\ Q(1) /\ R(2) /\ R(3) /\ R(4) /\ R(5)
      BY <1>1, <1>3, <1>4, <1>9, <2>1
    <3> QED
      BY <2>1, <3>1
  <2>2. CASE k = 2
    <3>0. Z(1)
      BY <1>10, <2>2
    <3>1. Q(0) /\ Q(1) /\ Q(2) /\ R(3) /\ R(4) /\ R(5)
      BY <1>1, <1>3, <1>4, <1>9, <2>2, <3>0
    <3> QED
      BY <2>2, <3>1
  <2>3. CASE k = 3
    <3>0. Z(1) /\ Z(2)
      BY <1>10, <2>3
    <3>1. Q(0) /\ Q(1) /\ Q(2) /\ Q(3) /\ R(4) /\ R(5)
      BY <1>1, <1>3, <1>4, <1>9, <2>3, <3>0
    <3> QED
      BY <2>3, <3>1
  <2>4. CASE k = 4
    <3>0. Z(1) /\ Z(2) /\ Z(3)
      BY <1>10, <2>4
    <3>1. Q(0) /\ Q(1) /\ Q(2) /\ Q(3) /\ Q(4) /\ R(5)
      BY <1>1, <1>3, <1>4, <1>9, <2>4, <3>0
    <3> QED
      BY <2>4, <3>1
  <2> QED
    BY <1>9, <2>1, <2>2, <2>3, <2>4
<1> QED
  BY <1>9, <1>11 DEF k, u, Q, R, Z

(* When the wheel is turned on at level k, no timer is below that level,    *)
(* and the higher prefixes of the time do not change.                       *)
LEMMA TurningFacts ==
    ASSUME NEW t \in 0..Span - 1, NEW u, u = NextTick(t), Index(0, u) = 0,
           NEW k, k = Turning(u)
    PROVE  /\ k \in 1..4
           /\ \A i \in (k + 1)..5 : Prefix(i, u) = Prefix(i, t)
           /\ \A s \in 0..Span - 1 :
                Left(s, t) \in 1..MaxTime => \A i \in 0..k : ~SamePrefix(i, s, t)
<1>0. u \in 0..Span - 1 /\ Span \in Nat \ {0}
  BY NextFacts, UnitFacts
<1>1. CASE t = Span - 1
  <2>1. u = 0 /\ k = 4
    BY <1>1, NextFacts DEF Turning
  <2>2. \A i \in (k + 1)..5 : Prefix(i, u) = Prefix(i, t)
    BY <1>0, <2>1, PrefixFacts
  <2>3. ASSUME NEW s \in 0..Span - 1, Left(s, t) \in 1..MaxTime, NEW i, i \in 0..k
        PROVE  ~SamePrefix(i, s, t)
    <3>1. s # t
      BY <2>3, LeftFacts
    <3>2. s < t
      BY <1>0, <1>1, <3>1
    <3> QED
      BY <2>1, <2>3, <3>2, NotSame
  <2> QED
    BY <2>1, <2>2, <2>3
<1>2. CASE t # Span - 1
  <2>1. u = t + 1
    BY <1>2, NextFacts
  <2>2. /\ k \in 1..4
        /\ \A i \in 0..k : Prefix(i, u) = Prefix(i, t) + 1
        /\ \A i \in (k + 1)..5 : Prefix(i, u) = Prefix(i, t)
    BY <1>2, <2>1, TurningStep
  <2>3. ASSUME NEW s \in 0..Span - 1, Left(s, t) \in 1..MaxTime, NEW i, i \in 0..k
        PROVE  ~SamePrefix(i, s, t)
    <3>0. i \in 0..4
      BY <2>2, <2>3
    <3>1. s # t
      BY <2>3, LeftFacts
    <3>2. CASE s < t
      BY <2>3, <3>0, <3>2, NotSame
    <3>3. CASE s > t
      <4>1. u <= s /\ u \in Nat /\ s \in Nat
        BY <1>0, <2>1, <3>3
      <4>2. Unit(i) \in Nat \ {0}
        BY <3>0, UnitFacts
      <4>3. Prefix(i, u) <= Prefix(i, s)
        BY <4>1, <4>2, DivLE DEF Prefix
      <4>4. Prefix(i, u) = Prefix(i, t) + 1 /\ Prefix(i, t) \in Nat /\ Prefix(i, s) \in Nat
        BY <2>2, <2>3, <3>0, PrefixFacts
      <4>5. Prefix(i, s) # Prefix(i, t)
        BY <4>3, <4>4
      <4> QED
        BY <4>5 DEF SamePrefix, Prefix
    <3> QED
      BY <3>1, <3>2, <3>3
  <2> QED
    BY <2>2, <2>3
<1> QED
  BY <1>1, <1>2

(* Where the armed timers belong after a tick.  No cascade: nowhere else.   *)
LEMMA SlotStays ==
    ASSUME NEW t \in 0..Span - 1, Index(0, NextTick(t)) # 0, NEW s \in 0..Span - 1
    PROVE  Slot(s, NextTick(t)) = Slot(s, t)
<1>1. t # Span - 1 /\ NextTick(t) = t + 1
  <2>1. 0 \in 0..Span - 1
    BY UnitFacts
  <2>2. Index(0, 0) = 0
    <3>1. Prefix(0, 0) = 0 /\ Index(0, 0) = 0 % Size(0) /\ Size(0) \in Nat \ {0}
      BY <2>1, PrefixFacts, UnitFacts
    <3> QED
      BY <3>1
  <2> QED
    BY <2>2, NextFacts
<1>2. t + 1 \in 0..Span - 1
  BY <1>1, NextFacts
<1>3. Prefix(1, t + 1) = Prefix(1, t)
  <2>1. Prefix(0, t + 1) = Prefix(0, t) + 1
    BY <1>2, PrefixFacts
  <2> QED
    BY <1>1, <2>1, PrefixStep
<1>4. \A l \in 1..4 : Prefix(l, t + 1) = Prefix(l, t)
  <2>1. \A l \in 0..4 : Prefix(l, t + 1) = Prefix(l, t) => Prefix(l + 1, t + 1) = Prefix(l + 1, t)
    BY <1>1, PrefixStep
  <2> DEFINE R(l) == Prefix(l, t + 1) = Prefix(l, t)
  <2>2. (R(1) => R(2)) /\ (R(2) => R(3)) /\ (R(3) => R(4))
    BY <2>1
  <2> HIDE DEF R
  <2>3. R(1) /\ R(2) /\ R(3) /\ R(4)
    BY <1>3, <2>2 DEF R
  <2>4. \A l \in 1..4 : R(l)
    BY <2>3
  <2> QED
    BY <2>4 DEF R
<1>5. \A i \in 0..3 : SamePrefix(i + 1, s, t + 1) <=> SamePrefix(i + 1, s, t)
  BY <1>4 DEF SamePrefix, Prefix
<1>6. { i \in 0..3 : SamePrefix(i + 1, s, t + 1) } = { i \in 0..3 : SamePrefix(i + 1, s, t) }
  BY <1>5
<1> QED
  BY <1>1, <1>6 DEF Slot

(* ... and with a cascade: those of the slot that is spread go further      *)
(* down, the others stay, and the slots below were empty.                   *)
LEMMA SlotSpreads ==
    ASSUME NEW t \in 0..Span - 1, NEW u, u = NextTick(t), Index(0, u) = 0,
           NEW k, k = Turning(u),
           NEW s \in 0..Span - 1, Left(s, t) \in 1..MaxTime
    PROVE  /\ Level(s, t) >= k
           /\ Slot(s, t) # <<k, Index(k, u)>> => Slot(s, u) = Slot(s, t)
           /\ Slot(s, t) = <<k, Index(k, u)>> => Level(s, u) < k
<1>0. u \in 0..Span - 1
  BY NextFacts
<1>1. /\ k \in 1..4
      /\ \A i \in (k + 1)..5 : Prefix(i, u) = Prefix(i, t)
      /\ \A i \in 0..k : ~SamePrefix(i, s, t)
  BY TurningFacts
<1> DEFINE l == Level(s, t)
<1>2. /\ l \in 0..4 /\ Slot(s, t) = <<l, Index(l, s)>>
      /\ SamePrefix(l + 1, s, t) /\ (l > 0 => ~SamePrefix(l, s, t))
  BY LevelFacts
<1> HIDE DEF l
<1>3. \A i \in (k + 1)..5 : SamePrefix(i, s, u) <=> SamePrefix(i, s, t)
  BY <1>1 DEF SamePrefix, Prefix
<1>4. l >= k
  <2>1. CASE l < k
    <3>1. l + 1 \in 0..k
      BY <1>1, <1>2, <2>1
    <3> QED
      BY <1>1, <1>2, <3>1
  <2> QED
    BY <1>1, <1>2, <2>1
<1>5. SamePrefix(l + 1, s, u)
  <2>1. l + 1 \in (k + 1)..5
    BY <1>1, <1>2, <1>4
  <2> QED
    BY <1>2, <1>3, <2>1
<1>6. ASSUME ~SamePrefix(l, s, u) PROVE Slot(s, u) = Slot(s, t)
  <2>1. Level(s, u) = l
    BY <1>0, <1>2, <1>5, <1>6, LevelFacts
  <2> QED
    BY <1>0, <1>2, <2>1, LevelFacts
<1>7. CASE l > k
  <2>1. l \in (k + 1)..5 /\ l > 0
    BY <1>1, <1>2, <1>7
  <2>2. ~SamePrefix(l, s, u)
    BY <1>2, <1>3, <2>1
  <2>3. Slot(s, t) # <<k, Index(k, u)>>
    BY <1>1, <1>2, <1>7
  <2> QED
    BY <1>4, <1>6, <2>2, <2>3 DEF l
<1>8. CASE l = k
  <2>1. SamePrefix(k, s, u) <=> Index(k, s) = Index(k, u)
    BY <1>0, <1>1, <1>5, <1>8, SamePrefixFacts
  <2>2. Slot(s, t) = <<k, Index(k, u)>> <=> Index(k, s) = Index(k, u)
    BY <1>2, <1>8
  <2>3. ASSUME SamePrefix(k, s, u) PROVE Level(s, u) < k
    <3>1. Level(s, u) \in 0..4
      BY <1>0, LevelFacts
    <3>2. Level(s, u) > 0 => ~SamePrefix(Level(s, u), s, u)
      BY <1>0, <3>1, LevelFacts
    <3>3. CASE Level(s, u) >= k
      <4>1. k \in 0..5 /\ Level(s, u) \in k..5 /\ Level(s, u) > 0
        BY <1>1, <3>1, <3>3
      <4>2. SamePrefix(Level(s, u), s, u)
        BY <1>0, <2>3, <4>1, SamePrefixFacts
      <4> QED
        BY <3>2, <4>1, <4>2
    <3> QED
      BY <1>1, <3>1, <3>3
  <2> QED
    BY <1>4, <1>6, <1>8, <2>1, <2>2, <2>3 DEF l
<1> QED
  BY <1>1, <1>2, <1>4, <1>7, <1>8

(* A timer is in tv1_'s current slot when its time has come, only then.     *)
LEMMA SlotHere ==
    ASSUME NEW s \in 0..Span - 1, NEW t \in 0..Span - 1
    PROVE  Slot(s, t) = <<0, Index(0, t)>> <=> s = t
<1>1. /\ Level(s, t) \in 0..4 /\ Slot(s, t) = <<Level(s, t), Index(Level(s, t), s)>>
      /\ Level(s, t) = 0 <=> SamePrefix(1, s, t)
  BY LevelFacts
<1>2. SamePrefix(0, s, t) <=> SamePrefix(1, s, t) /\ Index(0, s) = Index(0, t)
  BY SamePrefixFacts
<1>3. SamePrefix(0, s, t) <=> s = t
  BY SamePrefixFacts
<1>4. Slot(s, t) = <<0, Index(0, t)>> <=> Level(s, t) = 0 /\ Index(0, s) = Index(0, t)
  BY <1>1
<1> QED
  BY <1>1, <1>2, <1>3, <1>4

-----------------------------------------------------------------------------
(* The slots.                                                               *)

(* The ticks left of every armed timer are within what Timeout accepts, no  *)
(* id is armed twice, and every slot holds what belongs there.              *)
LeftOK(a, t) == \A i \in 1..Len(a) : Left(a[i].expire, t) \in 1..MaxTime
IdsOnce(a)   == \A i, j \in 1..Len(a) : a[i].id = a[j].id => i = j
Placed(a, w, t) == \A s \in Slots : w[s] = Only(a, At(s, t))

Here(t) == <<0, Index(0, t)>>

LEMMA HereIsSlot == ASSUME NEW t \in 0..Span - 1 PROVE Here(t) \in Slots
<1>1. Index(0, t) \in 0..Size(0) - 1
  BY PrefixFacts
<1> QED
  BY <1>1 DEF Here, Slots, Size

LEMMA TimerExpire ==
    ASSUME NEW a \in Seq(Timer), NEW i \in 1..Len(a)
    PROVE  a[i] \in Timer /\ a[i].expire \in 0..Span - 1
<1>1. a[i] \in Timer
  BY ElementOfSeq
<1> QED
  BY <1>1 DEF Timer

(* A cascade keeps every timer in its place.                                *)
Moved(w, m, u, s) == (IF s = m THEN <<>> ELSE w[s]) \o Only(w[m], At(s, u))

LEMMA MoveListType ==
    ASSUME NEW w \in [Slots -> Seq(Timer)], NEW m \in Slots, NEW u
    PROVE  /\ MoveList(w, m, u) \in [Slots -> Seq(Timer)]
           /\ \A s \in Slots : MoveList(w, m, u)[s] = Moved(w, m, u, s)
<1> DEFINE rest == [w EXCEPT ![m] = <<>>]
<1>1. \A s \in Slots : rest[s] = IF s = m THEN <<>> ELSE w[s]
  OBVIOUS
<1>2. w[m] \in Seq(Timer) /\ \A s \in Slots : w[s] \in Seq(Timer)
  OBVIOUS
<1>3. <<>> \in Seq(Timer)
  BY EmptySeq
<1> HIDE DEF rest
<1>4. MoveList(w, m, u) = [s \in Slots |-> rest[s] \o Only(w[m], At(s, u))]
  BY DEF MoveList, rest
<1>5. ASSUME NEW s \in Slots
      PROVE  rest[s] \o Only(w[m], At(s, u)) \in Seq(Timer)
  <2>1. rest[s] \in Seq(Timer)
    BY <1>1, <1>2, <1>3
  <2>2. Only(w[m], At(s, u)) \in Seq(Timer)
    BY <1>2, OnlyType
  <2> QED
    BY <2>1, <2>2, ConcatProperties
<1> QED
  BY <1>1, <1>4, <1>5 DEF Moved

LEMMA CascadeIsMove ==
    ASSUME NEW u \in 0..Span - 1, Index(0, u) = 0, NEW w
    PROVE  Cascade(w, u) = MoveList(w, <<Turning(u), Index(Turning(u), u)>>, u)
<1>1. CASE u = 0
  <2>1. Index(4, 0) = 0
    <3>1. Index(4, 0) = (0 \div Unit(4)) % Size(4) /\ Unit(4) \in Nat \ {0}
          /\ Size(4) \in Nat \ {0}
      BY UnitFacts DEF Index
    <3>2. 0 \div Unit(4) = 0
      BY <3>1
    <3> QED
      BY <3>1, <3>2
  <2> QED
    BY <1>1, <2>1 DEF Cascade, Turning
<1>2. CASE u # 0
  BY <1>2 DEF Cascade, Turning
<1> QED
  BY <1>1, <1>2

LEMMA CascadePlaces ==
    ASSUME NEW t \in 0..Span - 1, NEW a \in Seq(Timer), NEW w \in [Slots -> Seq(Timer)],
           LeftOK(a, t), Placed(a, w, t)
    PROVE  /\ Cascade(w, NextTick(t)) \in [Slots -> Seq(Timer)]
           /\ Placed(a, Cascade(w, NextTick(t)), NextTick(t))
<1> DEFINE u == NextTick(t)
<1>1. u \in 0..Span - 1
  BY NextFacts
<1>2. CASE Index(0, u) # 0
  <2>1. Cascade(w, u) = w
    BY <1>2 DEF Cascade
  <2>2. ASSUME NEW s \in Slots PROVE w[s] = Only(a, At(s, u))
    <3>1. \A i \in 1..Len(a) : a[i] \in At(s, t) <=> a[i] \in At(s, u)
      <4> TAKE i \in 1..Len(a)
      <4>1. a[i] \in Timer /\ a[i].expire \in 0..Span - 1
        BY TimerExpire
      <4>2. Slot(a[i].expire, u) = Slot(a[i].expire, t)
        BY <1>2, <4>1, SlotStays
      <4> QED
        BY <4>1, <4>2 DEF At
    <3>2. Only(a, At(s, t)) = Only(a, At(s, u))
      BY <3>1, OnlySame
    <3> QED
      BY <3>2 DEF Placed
  <2> QED
    BY <2>1, <2>2 DEF Placed
<1>3. CASE Index(0, u) = 0
  <2> DEFINE k == Turning(u)
             m == <<k, Index(k, u)>>
             v == MoveList(w, m, u)
  <2> HIDE DEF u
  <2>1. k \in 1..4 /\ Index(k, u) \in 0..Size(k) - 1
    <3>1. k \in 1..4
      BY <1>3, TurningFacts DEF u
    <3>2. k \in 0..4
      BY <3>1
    <3> HIDE DEF k
    <3> QED
      BY <1>1, <3>1, <3>2, PrefixFacts
  <2>2. m \in Slots
    BY <2>1 DEF Slots, Size
  <2>3. Cascade(w, u) = v
    BY <1>1, <1>3, CascadeIsMove
  <2> HIDE DEF m, v, k
  <2>4. /\ v \in [Slots -> Seq(Timer)]
        /\ \A s \in Slots : v[s] = (IF s = m THEN <<>> ELSE w[s]) \o Only(w[m], At(s, u))
    <3>1. /\ MoveList(w, m, u) \in [Slots -> Seq(Timer)]
          /\ \A s \in Slots : MoveList(w, m, u)[s] = Moved(w, m, u, s)
      BY <2>2, MoveListType
    <3> QED
      BY <3>1 DEF v, Moved
  <2>5. ASSUME NEW i \in 1..Len(a)
        PROVE  LET e == a[i].expire
               IN  /\ a[i] \in Timer
                   /\ Level(e, t) >= k /\ Level(e, t) \in 0..4 /\ Level(e, u) \in 0..4
                   /\ Slot(e, t) # m => Slot(e, u) = Slot(e, t)
                   /\ Slot(e, t) = m => Level(e, u) < k
                   /\ Slot(e, t)[1] = Level(e, t) /\ Slot(e, u)[1] = Level(e, u)
    <3> DEFINE e == a[i].expire
    <3>1. a[i] \in Timer /\ e \in 0..Span - 1
      BY TimerExpire
    <3>2. Left(e, t) \in 1..MaxTime
      BY DEF LeftOK
    <3> HIDE DEF e
    <3>3. /\ Level(e, t) >= k
          /\ Slot(e, t) # m => Slot(e, u) = Slot(e, t)
          /\ Slot(e, t) = m => Level(e, u) < k
      BY <1>3, <3>1, <3>2, SlotSpreads DEF u, k, m
    <3>4. /\ Level(e, t) \in 0..4 /\ Level(e, u) \in 0..4
          /\ Slot(e, t)[1] = Level(e, t) /\ Slot(e, u)[1] = Level(e, u)
      BY <1>1, <3>1, LevelFacts
    <3> QED
      BY <3>1, <3>3, <3>4 DEF e
  <2>6. m[1] = k
    BY DEF m
  <2>7. ASSUME NEW s \in Slots PROVE v[s] = Only(a, At(s, u))
    <3>1. Only(w[m], At(s, u)) = Only(a, At(m, t) \cap At(s, u))
      <4>1. w[m] = Only(a, At(m, t))
        BY <2>2 DEF Placed
      <4> QED
        BY <4>1, OnlyOnly
    <3>2. w[s] = Only(a, At(s, t))
      BY DEF Placed
    <3>3. Only(a, At(s, u)) \in Seq(Timer) /\ Only(a, At(s, t)) \in Seq(Timer)
      BY OnlyType
    <3>4. CASE s = m
      <4>1. ASSUME NEW i \in 1..Len(a) PROVE a[i] \notin At(s, u)
        <5>1. CASE Slot(a[i].expire, t) = m
          BY <2>1, <2>5, <2>6, <3>4, <5>1 DEF At
        <5>2. CASE Slot(a[i].expire, t) # m
          BY <2>5, <3>4, <5>2 DEF At
        <5> QED
          BY <5>1, <5>2
      <4>2. Only(a, At(s, u)) = <<>>
        BY <4>1, OnlyNone
      <4>3. Only(a, At(m, t) \cap At(s, u)) = <<>>
        BY <4>1, OnlyNone
      <4>4. <<>> \o <<>> = <<>>
        BY ConcatEmptySeq, EmptySeq
      <4> QED
        BY <2>4, <3>1, <3>4, <4>2, <4>3, <4>4
    <3>5. CASE s # m /\ s[1] < k
      <4>1. ASSUME NEW i \in 1..Len(a) PROVE a[i] \notin At(s, t)
        BY <2>1, <2>5, <3>5 DEF At
      <4>2. w[s] = <<>>
        BY <3>2, <4>1, OnlyNone
      <4>3. ASSUME NEW i \in 1..Len(a)
            PROVE  a[i] \in At(m, t) \cap At(s, u) <=> a[i] \in At(s, u)
        <5>1. CASE Slot(a[i].expire, t) = m
          BY <2>5, <5>1 DEF At
        <5>2. CASE Slot(a[i].expire, t) # m
          BY <2>5, <4>1, <5>2 DEF At
        <5> QED
          BY <5>1, <5>2
      <4>4. Only(a, At(m, t) \cap At(s, u)) = Only(a, At(s, u))
        BY <4>3, OnlySame
      <4>5. <<>> \o Only(a, At(s, u)) = Only(a, At(s, u))
        BY <3>3, ConcatEmptySeq
      <4> QED
        BY <2>4, <3>1, <3>5, <4>2, <4>4, <4>5
    <3>6. CASE s # m /\ ~(s[1] < k)
      <4>1. ASSUME NEW i \in 1..Len(a) PROVE a[i] \notin At(m, t) \cap At(s, u)
        BY <2>5, <3>6 DEF At
      <4>2. Only(a, At(m, t) \cap At(s, u)) = <<>>
        BY <4>1, OnlyNone
      <4>3. ASSUME NEW i \in 1..Len(a)
            PROVE  a[i] \in At(s, t) <=> a[i] \in At(s, u)
        <5>1. CASE Slot(a[i].expire, t) = m
          BY <2>5, <3>6, <5>1 DEF At
        <5>2. CASE Slot(a[i].expire, t) # m
          BY <2>5, <5>2 DEF At
        <5> QED
          BY <5>1, <5>2
      <4>4. Only(a, At(s, t)) = Only(a, At(s, u))
        BY <4>3, OnlySame
      <4>5. Only(a, At(s, t)) \o <<>> = Only(a, At(s, t))
        BY <3>3, ConcatEmptySeq
      <4> QED
        BY <2>4, <3>1, <3>2, <3>6, <4>2, <4>4, <4>5
    <3> QED
      BY <3>4, <3>5, <3>6
  <2> QED
    BY <2>3, <2>4, <2>7 DEF u, Placed
<1> QED
  BY <1>2, <1>3

(* No id is armed twice, in a part of the list either.                      *)
LEMMA AppendIdsOnce ==
    ASSUME NEW a \in Seq(Timer), NEW x \in Timer
    PROVE  IdsOnce(Append(a, x))
           <=> IdsOnce(a) /\ \A i \in 1..Len(a) : a[i].id # x.id
<1> DEFINE b == Append(a, x)
           n == Len(a)
<1>1. /\ n \in Nat /\ Len(b) = n + 1 /\ b[n + 1] = x
      /\ \A i \in 1..n : b[i] = a[i]
  BY AppendProperties, LenProperties
<1> HIDE DEF b, n
<1>2. IdsOnce(b) <=> \A i, j \in 1..n + 1 : b[i].id = b[j].id => i = j
  BY <1>1 DEF IdsOnce
<1>3. IdsOnce(a) <=> \A i, j \in 1..n : a[i].id = a[j].id => i = j
  BY DEF IdsOnce, n
<1>4. ASSUME IdsOnce(b)
      PROVE  IdsOnce(a) /\ \A i \in 1..n : a[i].id # x.id
  <2>1. \A i \in 1..n : i \in 1..n + 1 /\ i # n + 1 /\ n + 1 \in 1..n + 1
    BY <1>1
  <2>2. IdsOnce(a)
    BY <1>1, <1>2, <1>3, <1>4, <2>1
  <2>3. \A i \in 1..n : a[i].id # x.id
    BY <1>1, <1>2, <1>4, <2>1
  <2> QED
    BY <2>2, <2>3
<1>5. ASSUME IdsOnce(a), \A i \in 1..n : a[i].id # x.id
      PROVE  IdsOnce(b)
  <2>1. ASSUME NEW i \in 1..n + 1, NEW j \in 1..n + 1, b[i].id = b[j].id
        PROVE  i = j
    <3>1. CASE i = n + 1 /\ j = n + 1
      BY <3>1
    <3>2. CASE i = n + 1 /\ j # n + 1
      <4>1. j \in 1..n
        BY <1>1, <3>2
      <4> QED
        BY <1>1, <1>5, <2>1, <3>2, <4>1
    <3>3. CASE i # n + 1 /\ j = n + 1
      <4>1. i \in 1..n
        BY <1>1, <3>3
      <4> QED
        BY <1>1, <1>5, <2>1, <3>3, <4>1
    <3>4. CASE i # n + 1 /\ j # n + 1
      <4>1. i \in 1..n /\ j \in 1..n
        BY <1>1, <3>4
      <4> QED
        BY <1>1, <1>3, <1>5, <2>1, <4>1
    <3> QED
      BY <3>1, <3>2, <3>3, <3>4
  <2> QED
    BY <1>2, <2>1
<1> QED
  BY <1>4, <1>5 DEF b, n

LEMMA OnlyIdsOnce ==
    ASSUME NEW a \in Seq(Timer), NEW S, IdsOnce(a)
    PROVE  IdsOnce(Only(a, S))
<1> DEFINE P == { q \in Seq(Timer) : IdsOnce(q) => IdsOnce(Only(q, S)) }
<1>1. <<>> \in P
  BY OnlyEmpty, EmptySeq DEF IdsOnce
<1>2. ASSUME NEW q \in Seq(Timer), NEW x \in Timer, q \in P
      PROVE  Append(q, x) \in P
  <2>1. Append(q, x) \in Seq(Timer)
    BY AppendProperties
  <2>2. ASSUME IdsOnce(Append(q, x)) PROVE IdsOnce(Only(Append(q, x), S))
    <3> DEFINE r == Only(q, S)
    <3>1. IdsOnce(q) /\ \A i \in 1..Len(q) : q[i].id # x.id
      BY <2>2, AppendIdsOnce
    <3>2. IdsOnce(r)
      BY <1>2, <3>1
    <3>3. r \in Seq(Timer) /\ \A b : In(r, b) => In(q, b)
      BY OnlyType
    <3>4. Only(Append(q, x), S) = IF x \in S THEN Append(r, x) ELSE r
      BY OnlyAppend
    <3> HIDE DEF r
    <3>5. \A i \in 1..Len(r) : r[i].id # x.id
      <4> TAKE i \in 1..Len(r)
      <4>1. In(r, r[i])
        BY DEF In
      <4>2. PICK j \in 1..Len(q) : q[j] = r[i]
        BY <3>3, <4>1 DEF In
      <4> QED
        BY <3>1, <4>2
    <3>6. IdsOnce(Append(r, x))
      BY <3>2, <3>3, <3>5, AppendIdsOnce
    <3> QED
      BY <3>2, <3>4, <3>6
  <2> QED
    BY <2>1, <2>2
<1> HIDE DEF P
<1>3. a \in P
  BY <1>1, <1>2, InductSeq
<1> QED
  BY <1>3 DEF P

-----------------------------------------------------------------------------
(* The invariant.  The wheel: nobody but Timeout and Tick touches it.       *)
WheelInv ==
    /\ time_ \in 0..Span - 1
    /\ armed \in Seq(Timer)
    /\ wheel \in [Slots -> Seq(Timer)]
    /\ LeftOK(armed, time_)
    /\ IdsOnce(armed)
    /\ Placed(armed, wheel, time_)

ListInv ==
    /\ expired \in Seq(Fired) /\ send \in Seq(Fired)
    /\ lag \in 0..MaxLag /\ todo \in 0..MaxLag
    /\ rounds \in 0..DispatchRounds

(* The handover: kIdle to the main thread and kRun back, and the farewell   *)
(* that Quit asks for.                                                      *)
HasRun == In(toOwner, "kRun")
Handover ==
    \/ /\ tpc \in {"run", "ticks"} /\ registered
       /\ toMain = <<>> /\ ~HasRun
    \/ /\ tpc = "recv" /\ registered
       /\ \/ toMain = <<"kIdle">> /\ ~HasRun
          \/ toMain = <<>> /\ HasRun
    \/ /\ tpc = "exit" /\ registered
       /\ \/ toMain = <<"kIdle">> /\ ~HasRun
          \/ toMain = <<>>
    \/ /\ tpc = "ended" /\ registered
       /\ \/ toMain = <<"kIdle", "kQuit">> /\ ~HasRun
          \/ toMain = <<"kQuit">>
    \/ tpc = "ended" /\ ~registered /\ toMain = <<>>
ChanInv ==
    /\ told \in 0..Quits /\ registered \in BOOLEAN
    /\ toOwner \in ToOwnerStates({"kRun"}, told)
    /\ Handover

IInv == WheelInv /\ ListInv /\ ChanInv

LEMMA TypesHold == IInv => TypeOK
<1> SUFFICES ASSUME IInv PROVE TypeOK
  OBVIOUS
<1>1. /\ tpc \in {"run", "ticks", "recv", "exit", "ended"}
      /\ toMain \in {<<>>, <<"kIdle">>, <<"kQuit">>, <<"kIdle", "kQuit">>}
      /\ toOwner \in ToOwnerStates({"kRun"}, told)
      /\ registered \in BOOLEAN /\ told \in 0..Quits
  BY DEF IInv, ChanInv, Handover
<1>2. /\ expired \in Seq(Fired) /\ send \in Seq(Fired)
      /\ lag \in 0..MaxLag /\ todo \in 0..MaxLag
      /\ rounds \in 0..DispatchRounds
  BY DEF IInv, ListInv
<1>3. /\ time_ \in 0..Span - 1 /\ wheel \in [Slots -> Seq(Timer)]
      /\ armed \in Seq(Timer)
  BY DEF IInv, WheelInv
<1> QED
  BY <1>1, <1>2, <1>3 DEF TypeOK

(* Between two ticks the current slot is empty.                             *)
LEMMA HereIsEmpty ==
    ASSUME WheelInv
    PROVE  wheel[Here(time_)] = <<>>
<1>1. Here(time_) \in Slots
  BY HereIsSlot DEF WheelInv
<1>2. ASSUME NEW i \in 1..Len(armed) PROVE armed[i] \notin At(Here(time_), time_)
  <2>1. armed[i].expire \in 0..Span - 1 /\ time_ \in 0..Span - 1
    BY TimerExpire DEF WheelInv
  <2>2. Left(armed[i].expire, time_) \in 1..MaxTime
    BY DEF WheelInv, LeftOK
  <2>3. armed[i].expire # time_
    BY <2>1, <2>2, LeftFacts
  <2>4. Slot(armed[i].expire, time_) # Here(time_)
    BY <2>1, <2>3, SlotHere DEF Here
  <2> QED
    BY <2>4 DEF At
<1>3. Only(armed, At(Here(time_), time_)) = <<>>
  BY <1>2, OnlyNone DEF WheelInv
<1> QED
  BY <1>1, <1>3 DEF WheelInv, Placed

LEMMA InPlaceHolds == IInv => InPlace
  BY HereIsEmpty DEF IInv, WheelInv, Placed, InPlace, Here

(* The slot in which a timer is put, and the ticks it waits.                *)
LEMMA ExpireFacts ==
    ASSUME NEW t \in 0..Span - 1, NEW n \in 1..MaxTime
    PROVE  /\ (t + n) % Span \in 0..Span - 1
           /\ Left((t + n) % Span, t) = n
<1>1. Span \in Nat \ {0} /\ MaxTime \in Int /\ MaxTime < Span
  BY UnitFacts DEF MaxTime
<1>2. CASE t + n < Span
  <2>1. t + n = Span * 0 + (t + n) /\ t + n \in 0..Span - 1
    BY <1>1, <1>2
  <2>2. (t + n) % Span = t + n
    BY <1>1, <2>1, DivUnique
  <2>3. Left(t + n, t) = n
    BY <1>1, <2>1, LeftFacts
  <2> QED
    BY <2>1, <2>2, <2>3
<1>3. CASE ~(t + n < Span)
  <2> DEFINE r == t + n - Span
  <2>1. t + n = Span + r /\ r \in 0..Span - 1 /\ r < t
    BY <1>1, <1>3
  <2>5. Span * 1 = Span
    BY <1>1
  <2> HIDE DEF r
  <2>2. (t + n) % Span = r
    <3>1. (Span * 1 + r) % Span = r
      BY <1>1, <2>1, DivUnique
    <3> QED
      BY <2>1, <2>5, <3>1
  <2>3. Left(r, t) = r - t + Span
    BY <1>1, <2>1, LeftFacts
  <2>4. r - t + Span = n
    BY <1>1, <2>1
  <2> QED
    BY <2>1, <2>2, <2>3, <2>4
<1> QED
  BY <1>2, <1>3

LEMMA TimeoutWheel ==
    ASSUME IInv, NEW id \in Timers, NEW n \in Times, Timeout(id, n)
    PROVE  /\ WheelInv'
           /\ \E x \in Timer : /\ x.id = id /\ Left(x.expire, time_) = n
                               /\ armed' = Append(armed, x)
<1> DEFINE x == [id |-> id, expire |-> Expire(n),
                 behind |-> IF Timed THEN lag + todo ELSE 0]
           k == Slot(x.expire, time_)
<1>1. n \in 1..MaxTime /\ time_ \in 0..Span - 1
  BY WheelAssumption DEF IInv, WheelInv
<1>2. Expire(n) \in 0..Span - 1 /\ Left(Expire(n), time_) = n
  BY <1>1, ExpireFacts DEF Expire
<1>3. x \in Timer /\ x.id = id /\ x.expire = Expire(n)
  <2>1. (IF Timed THEN lag + todo ELSE 0) \in 0..2 * MaxLag
    BY WheelAssumption DEF IInv, ListInv
  <2> QED
    BY <1>2, <2>1 DEF Timer
<1>4. /\ armed' = Append(armed, x) /\ wheel' = Add(wheel, x, time_) /\ time_' = time_
      /\ id \notin Ids(armed)
  BY DEF Timeout
<1>5. armed \in Seq(Timer) /\ wheel \in [Slots -> Seq(Timer)]
  BY DEF IInv, WheelInv
<1>6. k \in Slots
  BY <1>1, <1>2, <1>3, SlotType
<1> HIDE DEF x
<1>7. armed' \in Seq(Timer)
  BY <1>3, <1>4, <1>5, AppendProperties
<1>8. /\ Len(armed) \in Nat /\ Len(armed') = Len(armed) + 1
      /\ armed'[Len(armed) + 1] = x
      /\ \A i \in 1..Len(armed) : armed'[i] = armed[i]
  BY <1>3, <1>4, <1>5, AppendProperties, LenProperties
<1>9. LeftOK(armed', time_)
  <2>1. ASSUME NEW i \in 1..Len(armed') PROVE Left(armed'[i].expire, time_) \in 1..MaxTime
    <3>1. CASE i = Len(armed) + 1
      BY <1>1, <1>2, <1>3, <1>8, <3>1
    <3>2. CASE i # Len(armed) + 1
      <4>1. i \in 1..Len(armed)
        BY <1>8, <3>2
      <4>2. Left(armed[i].expire, time_) \in 1..MaxTime
        BY <4>1 DEF IInv, WheelInv, LeftOK
      <4> QED
        BY <1>8, <4>1, <4>2
    <3> QED
      BY <3>1, <3>2
  <2> QED
    BY <2>1 DEF LeftOK
<1>10. IdsOnce(armed')
  <2>1. IdsOnce(armed)
    BY DEF IInv, WheelInv
  <2>2. \A i \in 1..Len(armed) : armed[i].id # x.id
    BY <1>3, <1>4 DEF Ids
  <2> QED
    BY <1>3, <1>4, <1>5, <2>1, <2>2, AppendIdsOnce
<1> HIDE DEF k
<1>11. /\ wheel' \in [Slots -> Seq(Timer)]
       /\ \A s \in Slots : wheel'[s] = IF s = k THEN Append(wheel[s], x) ELSE wheel[s]
  <2>1. wheel' = [wheel EXCEPT ![k] = Append(@, x)]
    BY <1>4 DEF Add, k
  <2>2. wheel[k] \in Seq(Timer)
    BY <1>5, <1>6
  <2>3. Append(wheel[k], x) \in Seq(Timer)
    BY <1>3, <2>2, AppendProperties
  <2> QED
    BY <1>5, <1>6, <2>1, <2>3
<1>12. Placed(armed', wheel', time_)
  <2>1. ASSUME NEW s \in Slots PROVE wheel'[s] = Only(armed', At(s, time_))
    <3>1. wheel[s] = Only(armed, At(s, time_))
      BY DEF IInv, WheelInv, Placed
    <3>2. x \in At(s, time_) <=> s = k
      BY <1>3 DEF At, k
    <3>3. Only(armed', At(s, time_))
          = IF x \in At(s, time_) THEN Append(Only(armed, At(s, time_)), x)
            ELSE Only(armed, At(s, time_))
      BY <1>3, <1>4, <1>5, OnlyAppend
    <3> QED
      BY <1>11, <3>1, <3>2, <3>3
  <2> QED
    BY <2>1 DEF Placed
<1> QED
  BY <1>1, <1>2, <1>3, <1>4, <1>7, <1>9, <1>10, <1>11, <1>12 DEF WheelInv

(* A tick less is left to those that do not fire now.                       *)
LEMMA OneLess ==
    ASSUME NEW t \in 0..Span - 1, NEW e \in 0..Span - 1, Left(e, t) \in 1..MaxTime
    PROVE  /\ e = NextTick(t) <=> Left(e, t) = 1
           /\ e # NextTick(t) => /\ Left(e, NextTick(t)) = Left(e, t) - 1
                                 /\ Left(e, NextTick(t)) \in 1..MaxTime
<1>1. Span \in Nat \ {0} /\ MaxTime \in Int /\ MaxTime < Span - 1
  BY UnitFacts DEF MaxTime
<1>2. NextTick(t) = (IF t = Span - 1 THEN 0 ELSE t + 1) /\ NextTick(t) \in 0..Span - 1
  BY NextFacts
<1>3. Left(e, t) = IF e >= t THEN e - t ELSE e - t + Span
  BY LeftFacts
<1>4. Left(e, NextTick(t)) = IF e >= NextTick(t) THEN e - NextTick(t)
                             ELSE e - NextTick(t) + Span
  BY <1>2, LeftFacts
<1> QED
  BY <1>1, <1>2, <1>3, <1>4

(* What a tick fires: the timers of the new time, in the order in which     *)
(* they were armed.                                                         *)
DueAt(now) == { x \in Timer : x.expire = now }

LEMMA TickWheel ==
    ASSUME WheelInv, Tick
    PROVE  LET now == NextTick(time_)
               due == Only(armed, DueAt(now))
           IN  /\ WheelInv'
               /\ time_' = now
               /\ armed' = Only(armed, Timer \ DueAt(now))
               /\ expired' = expired \o [i \in 1..Len(due) |->
                    [id |-> due[i].id, early |-> lag + todo' + 1 < due[i].behind]]
<1> DEFINE now == NextTick(time_)
           w1  == [wheel EXCEPT ![Here(time_)] = <<>>]
           w2  == Cascade(w1, now)
           due == wheel[Here(time_)] \o w2[Here(now)]
           out == Only(armed, DueAt(now))
<1>1. /\ time_' = now
      /\ wheel' = [w2 EXCEPT ![Here(now)] = <<>>]
      /\ expired' = expired \o [i \in 1..Len(due) |->
            [id |-> due[i].id, early |-> lag + todo' + 1 < due[i].behind]]
      /\ armed' = Only(armed, { x \in Timer : x.id \notin Ids(due) })
  BY DEF Tick, Here, NextTick
<1>2. /\ time_ \in 0..Span - 1 /\ now \in 0..Span - 1
      /\ armed \in Seq(Timer) /\ wheel \in [Slots -> Seq(Timer)]
      /\ LeftOK(armed, time_) /\ IdsOnce(armed) /\ Placed(armed, wheel, time_)
  BY NextFacts DEF WheelInv
<1>3. Here(time_) \in Slots /\ Here(now) \in Slots
  BY <1>2, HereIsSlot
<1>4. wheel[Here(time_)] = <<>>
  BY HereIsEmpty
<1>5. w1 = wheel
  BY <1>2, <1>3, <1>4
<1> HIDE DEF w1
<1>6. w2 \in [Slots -> Seq(Timer)] /\ Placed(armed, w2, now)
  BY <1>2, <1>5, CascadePlaces
<1> HIDE DEF w2, now
<1>7. \A i \in 1..Len(armed) : /\ armed[i] \in Timer /\ armed[i].expire \in 0..Span - 1
                               /\ armed[i] \in At(Here(now), now) <=> armed[i] \in DueAt(now)
  <2> TAKE i \in 1..Len(armed)
  <2>1. armed[i] \in Timer /\ armed[i].expire \in 0..Span - 1
    BY <1>2, TimerExpire
  <2>2. Slot(armed[i].expire, now) = Here(now) <=> armed[i].expire = now
    BY <1>2, <2>1, SlotHere DEF Here
  <2> QED
    BY <2>1, <2>2 DEF At, DueAt
<1>8. out \in Seq(Timer) /\ \A b : In(out, b) <=> b \in DueAt(now) /\ In(armed, b)
  BY <1>2, OnlyType
<1>9. due = out
  <2>1. w2[Here(now)] = Only(armed, At(Here(now), now))
    BY <1>3, <1>6 DEF Placed
  <2>2. Only(armed, At(Here(now), now)) = out
    BY <1>2, <1>7, OnlySame
  <2>3. <<>> \o out = out
    BY <1>8, ConcatEmptySeq
  <2> QED
    BY <1>4, <2>1, <2>2, <2>3
<1> HIDE DEF due, out
<1>10. ASSUME NEW i \in 1..Len(armed)
       PROVE  armed[i].id \in Ids(out) <=> armed[i] \in DueAt(now)
  <2>1. ASSUME armed[i] \in DueAt(now) PROVE armed[i].id \in Ids(out)
    <3>1. In(out, armed[i])
      BY <1>8, <2>1 DEF In
    <3> QED
      BY <3>1 DEF In, Ids
  <2>2. ASSUME armed[i].id \in Ids(out) PROVE armed[i] \in DueAt(now)
    <3>1. PICK j \in 1..Len(out) : out[j].id = armed[i].id
      BY <2>2 DEF Ids
    <3>2. In(out, out[j])
      BY DEF In
    <3>3. out[j] \in DueAt(now) /\ In(armed, out[j])
      BY <1>8, <3>2
    <3>4. PICK l \in 1..Len(armed) : armed[l] = out[j]
      BY <3>3 DEF In
    <3>5. l = i
      BY <1>2, <3>1, <3>4 DEF IdsOnce
    <3> QED
      BY <3>3, <3>4, <3>5
  <2> QED
    BY <2>1, <2>2
<1> DEFINE rest == Only(armed, Timer \ DueAt(now))
<1>11. armed' = rest
  <2>1. \A i \in 1..Len(armed) : armed[i] \in { x \in Timer : x.id \notin Ids(out) }
                                <=> armed[i] \in Timer \ DueAt(now)
    BY <1>7, <1>10
  <2>2. Only(armed, { x \in Timer : x.id \notin Ids(out) }) = rest
    BY <1>2, <2>1, OnlySame
  <2> QED
    BY <1>1, <1>9, <2>2
<1>12. rest \in Seq(Timer) /\ \A b : In(rest, b) <=> b \in Timer \ DueAt(now) /\ In(armed, b)
  BY <1>2, OnlyType
<1>13. IdsOnce(rest)
  BY <1>2, OnlyIdsOnce
<1>14. \A s \in Slots : Only(rest, At(s, now)) = Only(armed, (Timer \ DueAt(now)) \cap At(s, now))
  BY <1>2, OnlyOnly
<1> HIDE DEF rest
<1>15. LeftOK(rest, now)
  <2>1. ASSUME NEW i \in 1..Len(rest) PROVE Left(rest[i].expire, now) \in 1..MaxTime
    <3>1. In(rest, rest[i])
      BY DEF In
    <3>2. rest[i] \notin DueAt(now) /\ In(armed, rest[i])
      BY <1>12, <3>1
    <3>3. PICK j \in 1..Len(armed) : armed[j] = rest[i]
      BY <3>2 DEF In
    <3> DEFINE e == armed[j].expire
    <3>4. e # now /\ e \in 0..Span - 1
      BY <1>7, <3>2, <3>3 DEF DueAt
    <3>5. Left(e, time_) \in 1..MaxTime
      BY <1>2 DEF LeftOK
    <3> HIDE DEF e
    <3>6. Left(e, now) \in 1..MaxTime
      BY <1>2, <3>4, <3>5, OneLess DEF now
    <3> QED
      BY <3>3, <3>6 DEF e
  <2> QED
    BY <2>1 DEF LeftOK
<1>16. wheel' \in [Slots -> Seq(Timer)]
  BY <1>1, <1>3, <1>6, EmptySeq
<1>17. Placed(rest, wheel', now)
  <2>1. ASSUME NEW s \in Slots PROVE wheel'[s] = Only(rest, At(s, now))
    <3>1. CASE s = Here(now)
      <4>1. wheel'[s] = <<>>
        BY <1>1, <1>3, <1>6, <3>1
      <4>2. \A i \in 1..Len(armed) : armed[i] \notin (Timer \ DueAt(now)) \cap At(s, now)
        BY <1>7, <3>1
      <4>3. Only(armed, (Timer \ DueAt(now)) \cap At(s, now)) = <<>>
        BY <1>2, <4>2, OnlyNone
      <4> QED
        BY <1>14, <4>1, <4>3
    <3>2. CASE s # Here(now)
      <4>1. wheel'[s] = Only(armed, At(s, now))
        BY <1>1, <1>3, <1>6, <3>2 DEF Placed
      <4>2. ASSUME NEW i \in 1..Len(armed)
            PROVE  armed[i] \in At(s, now) <=> armed[i] \in (Timer \ DueAt(now)) \cap At(s, now)
        <5>1. armed[i] \in At(s, now) => armed[i] \notin At(Here(now), now)
          BY <3>2 DEF At
        <5> QED
          BY <1>7, <5>1
      <4>3. Only(armed, At(s, now)) = Only(armed, (Timer \ DueAt(now)) \cap At(s, now))
        BY <1>2, <4>2, OnlySame
      <4> QED
        BY <1>14, <4>1, <4>3
    <3> QED
      BY <3>1, <3>2
  <2> QED
    BY <2>1 DEF Placed
<1>18. WheelInv'
  BY <1>1, <1>2, <1>11, <1>12, <1>13, <1>15, <1>16, <1>17 DEF WheelInv
<1> QED
  BY <1>1, <1>9, <1>11, <1>18 DEF now, out, rest

-----------------------------------------------------------------------------
(* The invariant is inductive.                                              *)

LEMMA InitInv == Init => IInv
<1> SUFFICES ASSUME Init PROVE IInv
  OBVIOUS
<1>1. /\ <<>> \in Seq(Timer) /\ <<>> \in Seq(Fired) /\ Len(<<>>) = 0
  BY EmptySeq
<1>2. LeftOK(armed, time_) /\ IdsOnce(armed)
  BY <1>1 DEF Init, LeftOK, IdsOnce
<1>3. wheel \in [Slots -> Seq(Timer)] /\ Placed(armed, wheel, time_)
  BY <1>1, OnlyEmpty DEF Init, Placed
<1>4. WheelInv
  BY <1>1, <1>2, <1>3 DEF Init, WheelInv
<1>5. ListInv
  BY <1>1, WheelAssumption DEF Init, ListInv
<1>6. ChanInv
  <2>1. 0 \in 0..Quits
    BY WheelAssumption
  <2> QED
    BY <2>1, ToOwnerEmpty DEF Init, ChanInv, Handover, HasRun
<1> QED
  BY <1>4, <1>5, <1>6 DEF IInv

LEMMA WheelRests ==
    ASSUME WheelInv, UNCHANGED wheelVars
    PROVE  WheelInv'
  BY DEF WheelInv, wheelVars

LEMMA ChanRests ==
    ASSUME ChanInv, UNCHANGED <<tpc, told, chanVars>>
    PROVE  ChanInv'
  BY DEF ChanInv, Handover, HasRun, chanVars

LEMMA TimeoutInv ==
    ASSUME IInv, NEW id \in Timers, NEW n \in Times, Timeout(id, n)
    PROVE  IInv'
<1>1. WheelInv'
  BY TimeoutWheel
<1>2. ListInv'
  BY DEF IInv, ListInv, Timeout
<1>3. ChanInv'
  BY ChanRests DEF IInv, Timeout
<1> QED
  BY <1>1, <1>2, <1>3 DEF IInv

LEMMA ClockInv == ASSUME IInv, Clock PROVE IInv'
<1>1. WheelInv'
  BY WheelRests DEF IInv, Clock
<1>2. ListInv'
  BY WheelAssumption DEF IInv, ListInv, Clock
<1>3. ChanInv'
  BY ChanRests DEF IInv, Clock
<1> QED
  BY <1>1, <1>2, <1>3 DEF IInv

LEMMA ReadClockInv == ASSUME IInv, ReadClock PROVE IInv'
<1>1. WheelInv'
  BY WheelRests DEF IInv, ReadClock
<1>2. ListInv'
  BY WheelAssumption DEF IInv, ListInv, ReadClock
<1>3. ChanInv'
  BY DEF IInv, ChanInv, Handover, HasRun, ReadClock, chanVars
<1> QED
  BY <1>1, <1>2, <1>3 DEF IInv

(* The ids of the timers that fire.                                         *)
FiredBy(due) ==
    [i \in 1..Len(due) |->
        [id |-> due[i].id, early |-> lag + todo' + 1 < due[i].behind]]

LEMMA FiredType ==
    ASSUME NEW due \in Seq(Timer), lag \in Int, todo' \in Int
    PROVE  /\ FiredBy(due) \in Seq(Fired) /\ Len(FiredBy(due)) = Len(due)
           /\ \A i \in 1..Len(due) : FiredBy(due)[i].id = due[i].id
<1>1. Len(due) \in Nat
  BY LenProperties
<1> DEFINE F(i) == [id |-> due[i].id, early |-> lag + todo' + 1 < due[i].behind]
<1>2. ASSUME NEW i \in 1..Len(due) PROVE F(i) \in Fired
  <2>1. due[i] \in Timer
    BY ElementOfSeq
  <2>2. due[i].id \in Timers
    BY <2>1 DEF Timer
  <2> DEFINE e == lag + todo' + 1 < due[i].behind
  <2>5. due[i].behind \in Int
    BY <2>1, WheelAssumption DEF Timer
  <2>3. e \in BOOLEAN
    BY <2>5
  <2> HIDE DEF e
  <2>4. [id |-> due[i].id, early |-> e] \in Fired
    BY <2>2, <2>3 DEF Fired
  <2> QED
    BY <2>4 DEF e
<1>3. \A i \in 1..Len(due) : F(i).id = due[i].id
  OBVIOUS
<1> HIDE DEF F
<1>4. [i \in 1..Len(due) |-> F(i)] \in Seq(Fired)
  BY <1>1, <1>2, IsASeq
<1>5. FiredBy(due) = [i \in 1..Len(due) |-> F(i)]
  BY DEF FiredBy, F
<1>6. Len(FiredBy(due)) = Len(due)
  BY <1>1, <1>4, <1>5, LenProperties
<1> QED
  BY <1>3, <1>4, <1>5, <1>6

LEMMA TickInv == ASSUME IInv, Tick PROVE IInv'
<1> DEFINE due == Only(armed, DueAt(NextTick(time_)))
<1>1. WheelInv' /\ expired' = expired \o FiredBy(due)
  BY TickWheel DEF IInv, FiredBy
<1>2. due \in Seq(Timer)
  BY OnlyType DEF IInv, WheelInv
<1> HIDE DEF due
<1>4. /\ send' = send /\ lag' = lag /\ rounds' = rounds
      /\ todo' = todo - 1 /\ todo > 0
      /\ UNCHANGED <<tpc, told, chanVars>>
  BY DEF Tick
<1>3. expired' \in Seq(Fired)
  <2>1. lag \in Int /\ todo' \in Int
    BY <1>4 DEF IInv, ListInv
  <2>2. expired \in Seq(Fired) /\ FiredBy(due) \in Seq(Fired)
    BY <1>2, <2>1, FiredType DEF IInv, ListInv
  <2> QED
    BY <1>1, <2>2, ConcatProperties
<1>5. ListInv'
  BY <1>3, <1>4, WheelAssumption DEF IInv, ListInv
<1>6. ChanInv'
  BY <1>4, ChanRests DEF IInv
<1> QED
  BY <1>1, <1>5, <1>6 DEF IInv

LEMMA RunInv == ASSUME IInv, Run PROVE IInv'
<1>1. WheelInv'
  BY WheelRests DEF IInv, Run
<1>2. expired \in Seq(Fired) /\ send \in Seq(Fired)
  BY DEF IInv, ListInv
<1>3. send' \in Seq(Fired) /\ expired' \in Seq(Fired)
  BY <1>2, ConcatProperties, EmptySeq DEF Run
<1>4. rounds' \in 0..DispatchRounds
  BY WheelAssumption DEF IInv, ListInv, Run
<1>5. ListInv'
  BY <1>3, <1>4 DEF IInv, ListInv, Run
<1>6. /\ tpc = "ticks" /\ registered' = registered /\ told' = told /\ toOwner' = toOwner
      /\ \/ toMain' = Append(toMain, "kIdle") /\ tpc' = "recv"
         \/ toMain' = toMain /\ tpc' = "run"
  BY DEF Run
<1>7. ChanInv'
  BY <1>6, ToMainOps DEF IInv, ChanInv, Handover, HasRun
<1> QED
  BY <1>1, <1>5, <1>7 DEF IInv

LEMMA RecvCmdInv == ASSUME IInv, RecvCmd PROVE IInv'
<1>1. WheelInv'
  BY WheelRests DEF IInv, RecvCmd
<1>2. ListInv'
  BY WheelAssumption DEF IInv, ListInv, RecvCmd
<1>3. /\ tpc = "recv" /\ toOwner # <<>> /\ toOwner' = Tail(toOwner)
      /\ tpc' = IF Head(toOwner) = "kQuit" THEN "exit" ELSE "run"
      /\ toMain' = toMain /\ registered' = registered /\ told' = told
  BY DEF RecvCmd, chanVars
<1>4. /\ told \in Nat /\ toOwner \in ToOwnerStates({"kRun"}, told)
      /\ "kQuit" \notin {"kRun"}
  BY DEF IInv, ChanInv
<1>5. /\ toOwner' \in ToOwnerStates({"kRun"}, told')
      /\ Head(toOwner) \in {"kRun", "kQuit"}
      /\ Head(toOwner) = "kRun" => HasRun /\ ~HasRun'
      /\ Head(toOwner) = "kQuit" => (HasRun' <=> HasRun)
  BY <1>3, <1>4, ToOwnerTail DEF Answered, HasRun
<1>6. Handover'
  BY <1>3, <1>5 DEF IInv, ChanInv, Handover
<1>7. ChanInv'
  BY <1>3, <1>5, <1>6 DEF IInv, ChanInv
<1> QED
  BY <1>1, <1>2, <1>7 DEF IInv

LEMMA ExitInv == ASSUME IInv, Exit PROVE IInv'
<1>1. WheelInv'
  BY WheelRests DEF IInv, Exit
<1>2. ListInv'
  BY DEF IInv, ListInv, Exit
<1>3. /\ tpc = "exit" /\ tpc' = "ended" /\ toMain' = Append(toMain, "kQuit")
      /\ UNCHANGED <<registered, told, toOwner>>
  BY DEF Exit
<1>4. Handover'
  BY <1>3, ToMainOps DEF IInv, ChanInv, Handover, HasRun
<1>5. ChanInv'
  BY <1>3, <1>4 DEF IInv, ChanInv
<1> QED
  BY <1>1, <1>2, <1>5 DEF IInv

LEMMA MainInv == ASSUME IInv, ProcessTimerEvent PROVE IInv'
<1>1. WheelInv'
  BY WheelRests DEF IInv, ProcessTimerEvent
<1>2. ListInv'
  BY EmptySeq DEF IInv, ListInv, ProcessTimerEvent
<1>3. /\ registered /\ toMain # <<>> /\ toMain' = Tail(toMain)
      /\ tpc' = tpc /\ told' = told
      /\ \/ /\ Head(toMain) = "kIdle" /\ toOwner' = Append(toOwner, "kRun")
            /\ registered' = registered
         \/ Head(toMain) = "kQuit" /\ registered' = FALSE /\ toOwner' = toOwner
  BY DEF ProcessTimerEvent
<1>4. /\ told \in Nat /\ toOwner \in ToOwnerStates({"kRun"}, told)
      /\ "kQuit" \notin {"kRun"} /\ Handover
  BY DEF IInv, ChanInv
<1>5. CASE Head(toMain) = "kIdle"
  <2>1. /\ toOwner' = Append(toOwner, "kRun") /\ registered' = registered
    BY <1>3, <1>5
  <2>2. /\ ~HasRun /\ registered
        /\ \/ tpc \in {"recv", "exit"} /\ toMain = <<"kIdle">>
           \/ tpc = "ended" /\ toMain = <<"kIdle", "kQuit">>
    BY <1>3, <1>4, <1>5, ToMainOps DEF Handover
  <2>3. ~Answered(toOwner, {"kRun"}) /\ "kRun" \in {"kRun"}
    BY <2>2 DEF Answered, HasRun
  <2>4. toOwner' \in ToOwnerStates({"kRun"}, told') /\ HasRun'
    BY <1>3, <1>4, <2>1, <2>3, ToOwnerAnswer DEF HasRun
  <2>5. Handover'
    <3>1. CASE tpc \in {"recv", "exit"} /\ toMain = <<"kIdle">>
      <4>1. toMain' = <<>> /\ tpc' = tpc /\ registered'
        BY <1>3, <2>1, <2>2, <3>1, ToMainOps
      <4> QED
        BY <2>4, <3>1, <4>1 DEF Handover
    <3>2. CASE tpc = "ended" /\ toMain = <<"kIdle", "kQuit">>
      <4>1. toMain' = <<"kQuit">> /\ tpc' = tpc /\ registered'
        BY <1>3, <2>1, <2>2, <3>2, ToMainOps
      <4> QED
        BY <3>2, <4>1 DEF Handover
    <3> QED
      BY <2>2, <3>1, <3>2
  <2>6. registered' \in BOOLEAN
    BY <2>1 DEF IInv, ChanInv
  <2> QED
    BY <1>1, <1>2, <1>3, <1>4, <2>4, <2>5, <2>6 DEF IInv, ChanInv
<1>6. CASE Head(toMain) = "kQuit"
  <2>1. registered' = FALSE /\ toOwner' = toOwner
    BY <1>3, <1>6
  <2>2. tpc = "ended" /\ toMain = <<"kQuit">>
    BY <1>3, <1>4, <1>6, ToMainOps DEF Handover
  <2>3. Handover'
    BY <1>3, <2>1, <2>2, ToMainOps DEF Handover
  <2> QED
    BY <1>1, <1>2, <1>3, <2>1, <2>3 DEF IInv, ChanInv
<1> QED
  BY <1>3, <1>5, <1>6

LEMMA StopInv == ASSUME IInv, StopWorker PROVE IInv'
<1>1. WheelInv'
  BY WheelRests DEF IInv, StopWorker
<1>2. ListInv'
  BY DEF IInv, ListInv, StopWorker
<1>3. /\ told < Quits /\ told' = told + 1 /\ toOwner' = Append(toOwner, "kQuit")
      /\ UNCHANGED <<tpc, toMain, registered>>
  BY DEF StopWorker
<1>4. /\ told \in 0..Quits /\ toOwner \in ToOwnerStates({"kRun"}, told)
      /\ "kQuit" \notin {"kRun"} /\ Quits \in Nat
  BY WheelAssumption DEF IInv, ChanInv
<1>5. toOwner' \in ToOwnerStates({"kRun"}, told') /\ (HasRun' <=> HasRun)
  <2>1. told \in Nat /\ "kRun" # "kQuit"
    BY <1>4
  <2>2. /\ Append(toOwner, "kQuit") \in ToOwnerStates({"kRun"}, told + 1)
        /\ In(Append(toOwner, "kQuit"), "kRun") <=> In(toOwner, "kRun") \/ "kRun" = "kQuit"
    BY <1>4, <2>1, ToOwnerQuit
  <2> QED
    BY <1>3, <2>1, <2>2 DEF HasRun
<1>6. Handover'
  BY <1>3, <1>5 DEF IInv, ChanInv, Handover
<1>7. told' \in 0..Quits
  BY <1>3, <1>4
<1>8. ChanInv'
  BY <1>3, <1>5, <1>6, <1>7 DEF IInv, ChanInv
<1> QED
  BY <1>1, <1>2, <1>8 DEF IInv

LEMMA NextInv == IInv /\ [Next]_vars => IInv'
<1> SUFFICES ASSUME IInv, [Next]_vars PROVE IInv'
  OBVIOUS
<1>1. CASE UNCHANGED vars
  <2>1. WheelInv' /\ ChanInv'
    BY <1>1, WheelRests, ChanRests DEF IInv, vars, wheelVars, chanVars
  <2>2. ListInv'
    BY <1>1 DEF IInv, ListInv, vars
  <2> QED
    BY <2>1, <2>2 DEF IInv
<1>2. CASE Next
  BY <1>1, <1>2, TimeoutInv, ClockInv, ReadClockInv, TickInv, RunInv, RecvCmdInv,
     ExitInv, MainInv, StopInv DEF Next, SteadyNext, Thread, Terminated
<1> QED
  BY <1>1, <1>2

THEOREM Invariant == Spec => []IInv
  BY InitInv, NextInv, PTL DEF Spec

(* Every variable of the timer worker stays in its type, and a channel      *)
(* never holds more than the handover and the farewell.                     *)
THEOREM TypesAreKept == Spec => []TypeOK
  BY Invariant, TypesHold, PTL

(* _AddTimerNode, _Shift and _MoveList keep every armed timer in the slot   *)
(* where it will be found when its tick comes, whatever the sizes of the    *)
(* levels: no tick overlooks a timer, none fires one too early.             *)
THEOREM TimersAreInPlace == Spec => []InPlace
  BY Invariant, InPlaceHolds, PTL

-----------------------------------------------------------------------------
(* The refinement.                                                          *)

(* What TimerSpec sees: the armed timers with the ticks left to each, and   *)
(* the ids of the timers that fired.                                        *)
Pending(a, t) == [i \in 1..Len(a) |-> [id |-> a[i].id, left |-> (a[i].expire - t) % Span]]
IdsOf(q)      == [i \in 1..Len(q) |-> q[i].id]
Armed         == [id : Timers, left : 1..MaxTime]

Waiting(t) == [x \in Timer |-> [id |-> x.id, left |-> Left(x.expire, t)]]
IdOf       == [x \in Fired |-> x.id]

LEMMA PendingIsMap ==
    ASSUME NEW t, NEW a \in Seq(Timer)
    PROVE  Pending(a, t) = MapOf(Waiting(t), a)
<1>1. \A i \in 1..Len(a) : a[i] \in Timer
  BY TimerExpire
<1>2. \A i \in 1..Len(a) : Waiting(t)[a[i]] = [id |-> a[i].id, left |-> (a[i].expire - t) % Span]
  BY <1>1 DEF Waiting, Left
<1> QED
  BY <1>2 DEF Pending, MapOf

LEMMA IdsOfIsMap ==
    ASSUME NEW q \in Seq(Fired)
    PROVE  IdsOf(q) = MapOf(IdOf, q)
<1>1. \A i \in 1..Len(q) : q[i] \in Fired
  BY ElementOfSeq
<1>2. \A i \in 1..Len(q) : IdOf[q[i]] = q[i].id
  BY <1>1 DEF IdOf
<1> QED
  BY <1>2 DEF IdsOf, MapOf

LEMMA IdsOfConcat ==
    ASSUME NEW p \in Seq(Fired), NEW q \in Seq(Fired)
    PROVE  /\ IdsOf(p \o q) = IdsOf(p) \o IdsOf(q)
           /\ Len(IdsOf(p)) = Len(p)
           /\ IdsOf(p) \in Seq(Image(IdOf, Fired))
<1>1. p \o q \in Seq(Fired)
  BY ConcatProperties
<1>2. IdsOf(p) = MapOf(IdOf, p) /\ IdsOf(q) = MapOf(IdOf, q)
  BY IdsOfIsMap
<1>3. IdsOf(p \o q) = MapOf(IdOf, p \o q)
  BY <1>1, IdsOfIsMap
<1>4. MapOf(IdOf, p \o q) = MapOf(IdOf, p) \o MapOf(IdOf, q)
  BY MapConcat
<1>5. Len(MapOf(IdOf, p)) = Len(p) /\ MapOf(IdOf, p) \in Seq(Image(IdOf, Fired))
  BY MapType
<1> QED
  BY <1>2, <1>3, <1>4, <1>5

(* The pending timers of a part of the list.                                *)
LEMMA PendingOnly ==
    ASSUME NEW t, NEW a \in Seq(Timer), NEW A, NEW B,
           \A i \in 1..Len(a) : Waiting(t)[a[i]] \in A <=> a[i] \in B
    PROVE  Only(Pending(a, t), A) = Pending(Only(a, B), t)
<1> DEFINE F == Waiting(t)
           C == { x \in Timer : F[x] \in A }
<1>1. \A i \in 1..Len(a) : a[i] \in Timer
  BY TimerExpire
<1>2. \A i \in 1..Len(a) : a[i] \in C <=> a[i] \in B
  BY <1>1
<1>3. Only(a, C) = Only(a, B)
  BY <1>2, OnlySame
<1> HIDE DEF F
<1>4. Only(MapOf(F, a), A) = MapOf(F, Only(a, C))
  BY OnlyMap
<1> HIDE DEF C
<1>5. Only(a, B) \in Seq(Timer)
  BY OnlyType
<1>6. Pending(a, t) = MapOf(F, a) /\ Pending(Only(a, B), t) = MapOf(F, Only(a, B))
  BY <1>5, PendingIsMap DEF F
<1> QED
  BY <1>3, <1>4, <1>6

LEMMA WaitingFacts ==
    ASSUME WheelInv, NEW i \in 1..Len(armed)
    PROVE  LET x == armed[i]
               now == NextTick(time_)
           IN  /\ Waiting(time_)[x] \in Armed
               /\ Waiting(time_)[x].left = Left(x.expire, time_)
               /\ Left(x.expire, time_) = 1 <=> x \in DueAt(now)
               /\ Left(x.expire, time_) > 1 <=> x \in Timer \ DueAt(now)
<1> DEFINE x == armed[i]
           d == Left(x.expire, time_)
<1>1. x \in Timer /\ x.expire \in 0..Span - 1 /\ time_ \in 0..Span - 1
  BY TimerExpire DEF WheelInv
<1>2. d \in 1..MaxTime
  BY DEF WheelInv, LeftOK
<1>3. x.expire = NextTick(time_) <=> d = 1
  BY <1>1, <1>2, OneLess
<1>4. Waiting(time_)[x] = [id |-> x.id, left |-> d]
  BY <1>1 DEF Waiting
<1>5. x.id \in Timers
  BY <1>1 DEF Timer
<1> HIDE DEF x, d
<1>6. MaxTime \in Int
  BY UnitFacts DEF MaxTime
<1>7. d > 1 <=> d # 1
  BY <1>2, <1>6
<1>8. Waiting(time_)[x] \in Armed /\ Waiting(time_)[x].left = d
  BY <1>2, <1>4, <1>5 DEF Armed
<1> QED
  BY <1>1, <1>3, <1>7, <1>8 DEF DueAt, x, d

(* TimerSpec's operators are the ones used here.                            *)
LEMMA PromiseOnly == \A s, S : Promise!Only(s, S) = Only(s, S)
  BY DEF Promise!Only, Promise!OnlyUpTo, Only, OnlyUpTo

LEMMA PromiseToSet == \A s : Promise!ToSet(s) = ToSet(s)
  BY DEF Promise!ToSet, ToSet

LEMMA TickRefines ==
    ASSUME IInv, Tick
    PROVE  Promise!Tick
<1> DEFINE now == NextTick(time_)
           due == Only(armed, DueAt(now))
           pend == Pending(armed, time_)
           D == Only(pend, { p \in Armed : p.left = 1 })
           L == Only(pend, { p \in Armed : p.left > 1 })
<1>1. /\ WheelInv /\ WheelInv' /\ time_' = now
      /\ armed' = Only(armed, Timer \ DueAt(now))
      /\ expired' = expired \o FiredBy(due)
      /\ send' = send /\ told' = told
  BY TickWheel DEF IInv, FiredBy, Tick
<1>2. /\ armed \in Seq(Timer) /\ armed' \in Seq(Timer) /\ due \in Seq(Timer)
      /\ time_ \in 0..Span - 1
  BY <1>1, OnlyType DEF WheelInv
<1>3. /\ send \in Seq(Fired) /\ expired \in Seq(Fired) /\ lag \in Int /\ todo' \in Int
  <2>1. todo' = todo - 1
    BY DEF Tick
  <2> QED
    BY <2>1 DEF IInv, ListInv
<1>4. D = Pending(due, time_)
  <2>1. \A i \in 1..Len(armed) : Waiting(time_)[armed[i]] \in { p \in Armed : p.left = 1 }
                                <=> armed[i] \in DueAt(now)
    BY <1>1, WaitingFacts
  <2> QED
    BY <1>2, <2>1, PendingOnly
<1>5. L = Pending(armed', time_)
  <2>1. \A i \in 1..Len(armed) : Waiting(time_)[armed[i]] \in { p \in Armed : p.left > 1 }
                                <=> armed[i] \in Timer \ DueAt(now)
    BY <1>1, WaitingFacts
  <2>2. L = Pending(Only(armed, Timer \ DueAt(now)), time_)
    BY <1>2, <2>1, PendingOnly
  <2> QED
    BY <1>1, <2>2
<1>6. IdsOf(send' \o expired')
      = IdsOf(send \o expired) \o [i \in 1..Len(D) |-> D[i].id]
  <2> DEFINE new == FiredBy(due)
  <2>1. /\ new \in Seq(Fired) /\ Len(new) = Len(due)
        /\ \A i \in 1..Len(due) : new[i].id = due[i].id
    BY <1>2, <1>3, FiredType
  <2>2. Len(D) = Len(due) /\ \A i \in 1..Len(due) : D[i].id = due[i].id
    <3>1. Pending(due, time_) = MapOf(Waiting(time_), due)
      BY <1>2, PendingIsMap
    <3>2. Len(Pending(due, time_)) = Len(due)
      BY <1>2, <3>1, MapType
    <3>3. \A i \in 1..Len(due) : Pending(due, time_)[i].id = due[i].id
      BY DEF Pending
    <3> QED
      BY <1>4, <3>2, <3>3
  <2> HIDE DEF new, due, D
  <2>3. [i \in 1..Len(D) |-> D[i].id] = IdsOf(new)
    BY <2>1, <2>2 DEF IdsOf
  <2>4. send' \o expired' = (send \o expired) \o new
    <3>1. expired' = expired \o new
      BY <1>1 DEF new
    <3>2. (send \o expired) \o new = send \o (expired \o new)
      BY <1>3, <2>1, ConcatAssociative
    <3> QED
      BY <1>1, <3>1, <3>2
  <2>5. send \o expired \in Seq(Fired)
    BY <1>3, ConcatProperties
  <2>6. IdsOf((send \o expired) \o new) = IdsOf(send \o expired) \o IdsOf(new)
    BY <2>1, <2>5, IdsOfConcat
  <2> QED
    BY <2>3, <2>4, <2>6
<1>7. Pending(armed', time_') = [i \in 1..Len(L) |-> [L[i] EXCEPT !.left = @ - 1]]
  <2> DEFINE a == armed'
  <2>1. \A i \in 1..Len(a) : a[i].expire \in 0..Span - 1 /\ a[i] \in Timer
    BY <1>2, TimerExpire
  <2>2. ASSUME NEW i \in 1..Len(a)
        PROVE  Left(a[i].expire, now) = Left(a[i].expire, time_) - 1
    <3>1. In(a, a[i])
      BY DEF In
    <3>2. a[i] \in Timer \ DueAt(now) /\ In(armed, a[i])
      BY <1>1, <1>2, <3>1, OnlyType
    <3>3. PICK j \in 1..Len(armed) : armed[j] = a[i]
      BY <3>2 DEF In
    <3>4. Left(a[i].expire, time_) \in 1..MaxTime
      BY <1>1, <3>3 DEF WheelInv, LeftOK
    <3>5. a[i].expire # now
      BY <3>2 DEF DueAt
    <3> QED
      BY <1>2, <2>1, <3>4, <3>5, OneLess
  <2>3. Len(L) = Len(a)
    <3>1. Pending(a, time_) = MapOf(Waiting(time_), a)
      BY <1>2, PendingIsMap
    <3> QED
      BY <1>2, <1>5, <3>1, MapType
  <2>4. ASSUME NEW i \in 1..Len(a)
        PROVE  [L[i] EXCEPT !.left = @ - 1]
               = [id |-> a[i].id, left |-> Left(a[i].expire, now)]
    <3>1. L[i] = [id |-> a[i].id, left |-> Left(a[i].expire, time_)]
      BY <1>5 DEF Pending, Left
    <3> DEFINE u == Left(a[i].expire, time_)
               v == Left(a[i].expire, now)
               n == a[i].id
    <3>2. v = u - 1
      BY <2>2
    <3> HIDE DEF u, v, n
    <3>3. [[id |-> n, left |-> u] EXCEPT !.left = @ - 1] = [id |-> n, left |-> v]
      BY <3>2
    <3> QED
      BY <3>1, <3>3 DEF u, v, n
  <2>5. Pending(a, now) = [i \in 1..Len(a) |-> [id |-> a[i].id, left |-> Left(a[i].expire, now)]]
    BY DEF Pending, Left
  <2> HIDE DEF a, L, now
  <2> QED
    BY <1>1, <2>3, <2>4, <2>5 DEF a
<1>8. /\ Promise!Only(pend, { p \in Promise!Armed : p.left = 1 }) = D
      /\ Promise!Only(pend, { p \in Promise!Armed : p.left > 1 }) = L
  BY PromiseOnly DEF Promise!Armed, Armed
<1> HIDE DEF D, L
<1>9. /\ told' = told
      /\ IdsOf(send' \o expired') = IdsOf(send \o expired) \o [i \in 1..Len(D) |-> D[i].id]
      /\ Pending(armed', time_') = [i \in 1..Len(L) |-> [L[i] EXCEPT !.left = @ - 1]]
  BY <1>1, <1>6, <1>7
<1> QED
  BY <1>8, <1>9 DEF Promise!Tick, Pending, IdsOf

LEMMA TimeoutRefines ==
    ASSUME IInv, NEW id \in Timers, NEW n \in Times, Timeout(id, n)
    PROVE  Promise!Next
<1>1. PICK x \in Timer : /\ x.id = id /\ Left(x.expire, time_) = n
                         /\ armed' = Append(armed, x)
  BY TimeoutWheel
<1>2. /\ time_' = time_ /\ send' = send /\ expired' = expired /\ told' = told
      /\ id \notin Ids(armed) /\ id \notin Ids(expired) /\ id \notin Ids(send)
  BY DEF Timeout
<1>3. armed \in Seq(Timer) /\ send \in Seq(Fired) /\ expired \in Seq(Fired)
      /\ n \in 1..MaxTime
  BY WheelAssumption DEF IInv, WheelInv, ListInv
<1>4. Pending(armed', time_') = Append(Pending(armed, time_), [id |-> id, left |-> n])
  <2> DEFINE F == Waiting(time_)
  <2>1. F[x] = [id |-> id, left |-> n]
    BY <1>1 DEF Waiting
  <2> HIDE DEF F
  <2>2. MapOf(F, Append(armed, x)) = Append(MapOf(F, armed), F[x])
    BY <1>3, MapAppend
  <2>3. Append(armed, x) \in Seq(Timer)
    BY <1>3, AppendProperties
  <2>4. Pending(armed, time_) = MapOf(F, armed)
        /\ Pending(Append(armed, x), time_) = MapOf(F, Append(armed, x))
    BY <1>3, <2>3, PendingIsMap DEF F
  <2> QED
    BY <1>1, <1>2, <2>1, <2>2, <2>4
<1>5. id \notin { Pending(armed, time_)[i].id : i \in 1..Len(Pending(armed, time_)) }
  <2>1. Len(Pending(armed, time_)) = Len(armed)
    <3>1. Pending(armed, time_) = MapOf(Waiting(time_), armed)
      BY <1>3, PendingIsMap
    <3> DEFINE F == Waiting(time_)
    <3>2. armed \in Seq(Timer)
      BY <1>3
    <3> HIDE DEF F
    <3>3. MapOf(F, armed) \in Seq(Image(F, Timer)) /\ Len(MapOf(F, armed)) = Len(armed)
      BY <3>2, MapType
    <3> QED
      BY <3>1, <3>3 DEF F
  <2>2. \A i \in 1..Len(armed) : Pending(armed, time_)[i].id = armed[i].id
    BY DEF Pending
  <2>3. \A i \in 1..Len(armed) : armed[i].id # id
    BY <1>2 DEF Ids
  <2> QED
    BY <2>1, <2>2, <2>3
<1>6. id \notin ToSet(IdsOf(send \o expired))
  <2> DEFINE q == send \o expired
  <2>1. /\ q \in Seq(Fired) /\ Len(q) = Len(send) + Len(expired)
        /\ Len(send) \in Nat /\ Len(expired) \in Nat
        /\ \A i \in 1..Len(send) + Len(expired) :
             q[i] = IF i <= Len(send) THEN send[i] ELSE expired[i - Len(send)]
    BY <1>3, ConcatProperties, LenProperties
  <2> HIDE DEF q
  <2>2. DOMAIN IdsOf(q) = 1..Len(q) /\ \A i \in 1..Len(q) : IdsOf(q)[i] = q[i].id
    BY DEF IdsOf
  <2>3. ASSUME NEW i \in 1..Len(q) PROVE q[i].id # id
    <3>1. CASE i <= Len(send)
      <4>1. i \in 1..Len(send) /\ q[i] = send[i]
        BY <2>1, <3>1
      <4> QED
        BY <1>2, <4>1 DEF Ids
    <3>2. CASE ~(i <= Len(send))
      <4>1. i - Len(send) \in 1..Len(expired) /\ q[i] = expired[i - Len(send)]
        BY <2>1, <3>2
      <4> QED
        BY <1>2, <4>1 DEF Ids
    <3> QED
      BY <3>1, <3>2
  <2>4. id \notin ToSet(IdsOf(q))
    BY <2>2, <2>3 DEF ToSet
  <2> QED
    BY <2>4 DEF q
<1>7. Promise!Arm(id, n)
  <2>1. id \notin Promise!Ids
    BY <1>5 DEF Promise!Ids, Pending
  <2>2. id \notin Promise!ToSet([i \in 1..Len(send \o expired) |-> (send \o expired)[i].id])
    BY <1>6, PromiseToSet DEF IdsOf
  <2>3. IdsOf(send' \o expired') = IdsOf(send \o expired) /\ told' = told
    BY <1>2
  <2> QED
    BY <1>4, <2>1, <2>2, <2>3 DEF Promise!Arm, Pending, IdsOf
<1> QED
  BY <1>3, <1>7 DEF Promise!Next

LEMMA RunRefines ==
    ASSUME IInv, Run
    PROVE  UNCHANGED Promise!tvars
<1>1. /\ armed' = armed /\ time_' = time_ /\ told' = told
      /\ send' = send \o expired /\ expired' = <<>>
  BY DEF Run, wheelVars
<1>2. send \in Seq(Fired) /\ expired \in Seq(Fired)
  BY DEF IInv, ListInv
<1>3. send \o expired \in Seq(Fired)
  BY <1>2, ConcatProperties
<1>4. send' \o expired' = send \o expired
  BY <1>1, <1>3, ConcatEmptySeq
<1> QED
  BY <1>1, <1>4 DEF Promise!tvars

(* What is behind the first part of a list.                                 *)
LEMMA BehindPrefix ==
    ASSUME NEW T, NEW p \in Seq(T), NEW q \in Seq(T)
    PROVE  SubSeq(p \o q, Len(p) + 1, Len(p \o q)) = q
<1> DEFINE m == Len(p)
           n == Len(q)
           c == p \o q
           l == Len(c)
           r == SubSeq(c, m + 1, l)
<1>1. /\ m \in Nat /\ n \in Nat /\ l = m + n /\ c \in Seq(T)
      /\ \A i \in 1..m + n : c[i] = IF i <= m THEN p[i] ELSE q[i - m]
      /\ \A i \in 1..l : c[i] \in T
  BY ConcatProperties, LenProperties, ElementOfSeq
<1> HIDE DEF m, n, c, l
<1>2. /\ r \in Seq(T) /\ Len(r) = IF m + 1 <= l THEN l - (m + 1) + 1 ELSE 0
      /\ \A i \in 1 .. l - (m + 1) + 1 : r[i] = c[(m + 1) + i - 1]
  <2>1. m + 1 \in Int /\ l \in Int /\ \A i \in m + 1 .. l : c[i] \in T
    BY <1>1
  <2> QED
    BY <2>1, SubSeqProperties
<1> HIDE DEF r
<1>3. Len(r) = n
  BY <1>1, <1>2
<1>4. ASSUME NEW i \in 1..n PROVE r[i] = q[i]
  <2>1. i \in 1 .. l - (m + 1) + 1 /\ (m + 1) + i - 1 = m + i
        /\ m + i \in 1..m + n /\ ~(m + i <= m) /\ (m + i) - m = i
    BY <1>1
  <2>2. r[i] = c[m + i]
    BY <1>2, <2>1
  <2> QED
    BY <1>1, <2>1, <2>2
<1>5. r = q
  BY <1>2, <1>3, <1>4, SeqEqual DEF n
<1> QED
  BY <1>5 DEF r, c, l, m

LEMMA MainRefines ==
    ASSUME IInv, ProcessTimerEvent
    PROVE  Promise!Next \/ UNCHANGED Promise!tvars
<1>1. /\ armed' = armed /\ time_' = time_ /\ told' = told
      /\ send' = <<>> /\ expired' = expired
  BY DEF ProcessTimerEvent, wheelVars
<1>2. send \in Seq(Fired) /\ expired \in Seq(Fired)
  BY DEF IInv, ListInv
<1>3. send' \o expired' = expired
  BY <1>1, <1>2, ConcatEmptySeq
<1>4. CASE send = <<>>
  <2>1. send \o expired = expired
    BY <1>2, <1>4, ConcatEmptySeq
  <2> QED
    BY <1>1, <1>3, <2>1 DEF Promise!tvars
<1>5. CASE send # <<>>
  <2> DEFINE p == IdsOf(send)
             q == IdsOf(expired)
             T == Image(IdOf, Fired)
  <2>1. IdsOf(send \o expired) = p \o q /\ p \in Seq(T) /\ q \in Seq(T) /\ Len(p) = Len(send)
    BY <1>2, IdsOfConcat
  <2>2. Len(send) \in Nat \ {0}
    BY <1>2, <1>5, EmptySeq
  <2> HIDE DEF p, q, T
  <2>3. SubSeq(p \o q, Len(p) + 1, Len(p \o q)) = q
    BY <2>1, BehindPrefix
  <2>4. Len(p) \in 1..Len(p \o q)
    <3>1. Len(p \o q) = Len(p) + Len(q) /\ Len(q) \in Nat
      BY <2>1, ConcatProperties, LenProperties
    <3> QED
      BY <2>1, <2>2, <3>1
  <2> DEFINE f == IdsOf(send \o expired)
  <2>5. \E k \in 1..Len(f) : IdsOf(send' \o expired') = SubSeq(f, k + 1, Len(f))
    BY <1>3, <2>1, <2>3, <2>4 DEF q
  <2>6. Promise!Deliver
    BY <1>1, <2>5 DEF Promise!Deliver, IdsOf
  <2> QED
    BY <2>6 DEF Promise!Next
<1> QED
  BY <1>4, <1>5

LEMMA InitRefines == Init => Promise!Init
  BY EmptySeq, ConcatEmptySeq DEF Init, Promise!Init

LEMMA RestRefines ==
    ASSUME UNCHANGED <<armed, time_, send, expired, told>>
    PROVE  UNCHANGED Promise!tvars
  BY DEF Promise!tvars

LEMMA StopRefines ==
    ASSUME IInv, StopWorker
    PROVE  Promise!Next \/ UNCHANGED Promise!tvars
<1>1. /\ told \in Nat /\ told' = told + 1
      /\ UNCHANGED <<armed, time_, send, expired>>
  BY DEF IInv, ChanInv, StopWorker, wheelVars
<1>2. CASE told = 0
  <2>1. Promise!Halt
    BY <1>1, <1>2 DEF Promise!Halt
  <2> QED
    BY <2>1 DEF Promise!Next
<1>3. CASE told > 0
  BY <1>1, <1>3 DEF Promise!tvars
<1> QED
  BY <1>1, <1>2, <1>3

LEMMA NextRefines == IInv /\ [Next]_vars => [Promise!Next]_Promise!tvars
<1> SUFFICES ASSUME IInv, [Next]_vars PROVE Promise!Next \/ UNCHANGED Promise!tvars
  OBVIOUS
<1>1. CASE \E id \in Timers, n \in Times : Timeout(id, n)
  BY <1>1, TimeoutRefines
<1>2. CASE Tick
  BY <1>2, TickRefines DEF Promise!Next
<1>3. CASE Run
  BY <1>3, RunRefines
<1>4. CASE ProcessTimerEvent
  BY <1>4, MainRefines
<1>5. CASE StopWorker
  BY <1>5, StopRefines
<1>6. CASE Clock \/ ReadClock \/ RecvCmd \/ Exit \/ Terminated \/ UNCHANGED vars
  <2>1. UNCHANGED <<armed, time_, send, expired, told>>
    BY <1>6 DEF Clock, ReadClock, RecvCmd, Exit, Terminated, vars, wheelVars
  <2> QED
    BY <2>1, RestRefines
<1> QED
  BY <1>1, <1>2, <1>3, <1>4, <1>5, <1>6 DEF Next, SteadyNext, Thread

(* The wheel, with its cascades, its ticks made up for and the wrap-around  *)
(* of time_, fires what exact timers would fire, at the same tick and in    *)
(* the same order.                                                          *)
THEOREM FiresLikeExactTimers == Spec => ImplementsTimers
<1>1. Init => Promise!Init
  BY InitRefines
<1>2. IInv /\ [Next]_vars => [Promise!Next]_Promise!tvars
  BY NextRefines
<1> QED
  BY <1>1, <1>2, Invariant, PTL DEF Spec, ImplementsTimers, Promise!Safe


=============================================================================
