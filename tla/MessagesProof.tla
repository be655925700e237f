---------------------------- MODULE MessagesProof ----------------------------
(****************************************************************************)
(* Proofs about Messages for any actors, any node and any scripts.          *)
(****************************************************************************)
EXTENDS Messages, TLAPS, SequenceTheorems, FiniteSetTheorems

-----------------------------------------------------------------------------
(* Queues of messages.                                                      *)

LEMMA SetOps ==
    ASSUME NEW S, NEW q \in Seq(S)
    PROVE  /\ ToSet(q) = { q[i] : i \in 1..Len(q) } /\ ToSet(q) \subseteq S
           /\ \A x \in S : ToSet(Append(q, x)) = ToSet(q) \cup {x}
           /\ q # <<>> => /\ Head(q) \in S /\ Tail(q) \in Seq(S)
                          /\ ToSet(q) = {Head(q)} \cup ToSet(Tail(q))
<1>1. /\ Len(q) \in Nat /\ DOMAIN q = 1..Len(q)
      /\ \A i \in 1..Len(q) : q[i] \in S
  BY LenProperties, ElementOfSeq
<1>2. ToSet(q) = { q[i] : i \in 1..Len(q) } /\ ToSet(q) \subseteq S
  BY <1>1 DEF ToSet
<1>3. ASSUME NEW x \in S PROVE ToSet(Append(q, x)) = ToSet(q) \cup {x}
  <2> DEFINE p == Append(q, x)
             n == Len(q)
  <2>1. /\ DOMAIN p = 1 .. n + 1 /\ p[n + 1] = x
        /\ \A i \in 1..n : p[i] = q[i]
    BY <1>1, AppendProperties, LenProperties
  <2> HIDE DEF p, n
  <2>2. 1 .. n + 1 = (1..n) \cup {n + 1}
    BY <1>1 DEF n
  <2>3. ToSet(p) = { p[i] : i \in 1 .. n + 1 }
    BY <2>1 DEF ToSet
  <2>4. ToSet(q) = { q[i] : i \in 1..n }
    BY <1>2 DEF n
  <2>5. ToSet(p) = ToSet(q) \cup {x}
    BY <2>1, <2>2, <2>3, <2>4
  <2> QED
    BY <2>5 DEF p
<1>4. ASSUME q # <<>>
      PROVE  /\ Head(q) \in S /\ Tail(q) \in Seq(S)
             /\ ToSet(q) = {Head(q)} \cup ToSet(Tail(q))
  <2> DEFINE t == Tail(q)
             n == Len(q)
  <2>1. /\ n \in Nat \ {0} /\ t \in Seq(S) /\ Len(t) = n - 1
        /\ Head(q) = q[1] /\ Head(q) \in S
        /\ \A i \in 1 .. n - 1 : t[i] = q[i + 1]
    BY <1>1, <1>4, HeadTailProperties, EmptySeq
  <2>2. DOMAIN t = 1 .. n - 1 /\ DOMAIN q = 1..n
    BY <1>1, <2>1, LenProperties
  <2> HIDE DEF t, n
  <2>3. \A i \in 1..n : i # 1 => q[i] \in ToSet(t)
    <3>1. ASSUME NEW i \in 1..n, i # 1 PROVE i - 1 \in 1 .. n - 1 /\ q[i] = t[i - 1]
      BY <2>1, <3>1
    <3> QED
      BY <2>2, <3>1 DEF ToSet
  <2>4. \A i \in 1 .. n - 1 : i + 1 \in 1..n
    BY <2>1
  <2>5. ToSet(t) = { t[i] : i \in 1 .. n - 1 } /\ ToSet(q) = { q[i] : i \in 1..n }
    BY <2>2 DEF ToSet
  <2>6. \A x \in ToSet(q) : x \in {Head(q)} \cup ToSet(t)
    BY <2>1, <2>3, <2>5
  <2>7. ToSet(t) \subseteq ToSet(q)
    BY <2>1, <2>4, <2>5
  <2>8. Head(q) \in ToSet(q)
    BY <2>1, <2>5
  <2>9. ToSet(q) = {Head(q)} \cup ToSet(t)
    BY <2>6, <2>7, <2>8
  <2> QED
    BY <2>1, <2>9 DEF t
<1> QED
  BY <1>2, <1>3, <1>4

(* A message that is handled stays where it is in what was received.        *)
LEMMA Shift ==
    ASSUME NEW S, NEW g \in Seq(S), NEW q \in Seq(S), q # <<>>
    PROVE  Append(g, Head(q)) \o Tail(q) = g \o q
<1> DEFINE h == Head(q)
           t == Tail(q)
           p == Append(g, h)
           l == Len(g)
           n == Len(q)
<1>1. /\ l \in Nat /\ n \in Nat \ {0} /\ t \in Seq(S) /\ h \in S /\ Len(t) = n - 1
      /\ h = q[1] /\ \A i \in 1 .. n - 1 : t[i] = q[i + 1]
  BY LenProperties, EmptySeq, HeadTailProperties
<1>2. /\ p \in Seq(S) /\ Len(p) = l + 1 /\ p[l + 1] = h
      /\ \A i \in 1..l : p[i] = g[i]
  BY <1>1, AppendProperties
<1> HIDE DEF h, t, p
<1>3. /\ p \o t \in Seq(S) /\ Len(p \o t) = l + n
      /\ \A i \in 1 .. l + n :
           (p \o t)[i] = IF i <= l + 1 THEN p[i] ELSE t[i - (l + 1)]
  <2>1. Len(p) + Len(t) = l + n
    BY <1>1, <1>2
  <2>2. /\ p \o t \in Seq(S) /\ Len(p \o t) = Len(p) + Len(t)
        /\ \A i \in 1 .. Len(p) + Len(t) :
             (p \o t)[i] = IF i <= Len(p) THEN p[i] ELSE t[i - Len(p)]
    BY <1>1, <1>2, ConcatProperties
  <2> QED
    BY ONLY <1>2, <2>1, <2>2
<1>4. /\ g \o q \in Seq(S) /\ Len(g \o q) = l + n
      /\ \A i \in 1 .. l + n : (g \o q)[i] = IF i <= l THEN g[i] ELSE q[i - l]
  BY <1>1, ConcatProperties
<1> HIDE DEF l, n
<1>5. ASSUME NEW i \in 1 .. l + n PROVE (p \o t)[i] = (g \o q)[i]
  <2> DEFINE u == p \o t
             v == g \o q
  <2> SUFFICES u[i] = v[i]
    OBVIOUS
  <2>0. l \in Nat /\ n \in Nat /\ i \in Nat /\ 1 <= i /\ i <= l + n
    BY <1>1
  <2>1. CASE i <= l
    <3>1. u[i] = p[i] /\ v[i] = g[i] /\ p[i] = g[i]
      BY <1>2, <1>3, <1>4, <2>0, <2>1
    <3> QED
      BY <3>1
  <2>2. CASE i = l + 1
    <3>1. u[i] = p[i] /\ v[i] = q[1] /\ p[i] = q[1]
      <4>1. ~(i <= l) /\ i <= l + 1 /\ i - l = 1
        BY <2>0, <2>2
      <4> QED
        BY <1>1, <1>2, <1>3, <1>4, <2>2, <4>1
    <3> QED
      BY <3>1
  <2>3. CASE i > l + 1
    <3>1. /\ ~(i <= l) /\ ~(i <= l + 1)
          /\ i - (l + 1) \in 1 .. n - 1 /\ (i - (l + 1)) + 1 = i - l
      BY <2>0, <2>3
    <3>2. u[i] = t[i - (l + 1)] /\ v[i] = q[i - l]
      BY <1>3, <1>4, <3>1
    <3>3. t[i - (l + 1)] = q[(i - (l + 1)) + 1]
      BY <1>1, <3>1
    <3> QED
      BY <3>1, <3>2, <3>3
  <2> HIDE DEF u, v
  <2>4. i <= l \/ i = l + 1 \/ i > l + 1
    BY ONLY <2>0
  <2> QED
    BY <2>1, <2>2, <2>3, <2>4
<1>6. p \o t = g \o q
  BY <1>3, <1>4, <1>5, SeqEqual
<1> QED
  BY <1>6 DEF p, h, t

(* Order at the ends of a queue.                                            *)
LEMMA OrderOps ==
    ASSUME NEW S, NEW q \in Seq(S), InOrder(q)
    PROVE  /\ \A x \in S : (\A m \in ToSet(q) : Before(m, x))
                             => InOrder(Append(q, x))
           /\ q # <<>> => /\ InOrder(Tail(q))
                          /\ \A o \in ToSet(Tail(q)) : Before(Head(q), o)
<1>1. Len(q) \in Nat /\ ToSet(q) = { q[i] : i \in 1..Len(q) }
  BY LenProperties, SetOps
<1>2. ASSUME NEW x \in S, \A m \in ToSet(q) : Before(m, x)
      PROVE  InOrder(Append(q, x))
  <2> DEFINE p == Append(q, x)
             n == Len(q)
  <2>1. /\ Len(p) = n + 1 /\ p[n + 1] = x /\ \A i \in 1..n : p[i] = q[i]
    BY AppendProperties
  <2> HIDE DEF p
  <2>2. ASSUME NEW i \in 1 .. n + 1, NEW j \in 1 .. n + 1, i < j
        PROVE  Before(p[i], p[j])
    <3>1. CASE j = n + 1
      <4>1. p[j] = x /\ p[i] = q[i] /\ q[i] \in ToSet(q)
        BY <1>1, <2>1, <2>2, <3>1
      <4> QED
        BY <1>2, <4>1
    <3>2. CASE j # n + 1
      <4>1. i \in 1..n /\ j \in 1..n
        BY <1>1, <2>2, <3>2
      <4>2. Before(q[i], q[j])
        BY <2>2, <4>1 DEF InOrder
      <4> QED
        BY <2>1, <4>1, <4>2
    <3> QED
      BY <3>1, <3>2
  <2> QED
    BY <2>1, <2>2 DEF InOrder, p
<1>3. ASSUME q # <<>>
      PROVE  /\ InOrder(Tail(q))
             /\ \A o \in ToSet(Tail(q)) : Before(Head(q), o)
  <2> DEFINE t == Tail(q)
             n == Len(q)
  <2>1. /\ n \in Nat \ {0} /\ t \in Seq(S) /\ Len(t) = n - 1 /\ Head(q) = q[1]
        /\ \A i \in 1 .. n - 1 : t[i] = q[i + 1]
    BY <1>1, <1>3, HeadTailProperties, EmptySeq
  <2>2. ToSet(t) = { t[i] : i \in 1 .. n - 1 }
    BY <2>1, SetOps
  <2>3. \A i, j \in 1..n : i < j => Before(q[i], q[j])
    BY DEF InOrder
  <2> HIDE DEF t, n
  <2>4. ASSUME NEW i \in 1 .. n - 1, NEW j \in 1 .. n - 1, i < j
        PROVE  Before(t[i], t[j])
    <3>1. /\ i + 1 \in 1..n /\ j + 1 \in 1..n /\ i + 1 < j + 1
      BY <2>1, <2>4
    <3>2. Before(q[i + 1], q[j + 1])
      BY <2>3, <3>1
    <3> QED
      BY <2>1, <3>2
  <2>5. ASSUME NEW i \in 1 .. n - 1 PROVE Before(Head(q), t[i])
    <3>1. 1 \in 1..n /\ i + 1 \in 1..n /\ 1 < i + 1
      BY <2>1
    <3>2. Before(q[1], q[i + 1])
      BY <2>3, <3>1
    <3> QED
      BY <2>1, <3>2
  <2>6. InOrder(t) /\ \A o \in ToSet(t) : Before(Head(q), o)
    BY <2>1, <2>2, <2>4, <2>5 DEF InOrder
  <2> QED
    BY <2>6 DEF t
<1> QED
  BY <1>2, <1>3

(* A queue gets up to two copies of a message.                              *)
Grown(q, m, k) == IF k = 0 THEN q
                  ELSE IF k = 1 THEN Append(q, m) ELSE Append(Append(q, m), m)

Repeated(r, m, k) == Len(r) = k /\ \A i \in 1..k : r[i] = m

LEMMA Repeats ==
    ASSUME NEW S, NEW q \in Seq(S), NEW m \in S, NEW k, k \in 0..2,
           NEW r \in Seq(S), Repeated(r, m, k)
    PROVE  /\ q \o r = Grown(q, m, k)
           /\ Grown(q, m, k) \in Seq(S)
           /\ ToSet(Grown(q, m, k)) = ToSet(q) \cup (IF k = 0 THEN {} ELSE {m})
<1> DEFINE l == Len(q)
           g == Grown(q, m, k)
<1>1. k \in Nat /\ l \in Nat
  BY LenProperties
<1>2. r \in Seq(S) /\ Len(r) = k /\ \A i \in 1..k : r[i] = m
  BY DEF Repeated
<1>3. /\ g \in Seq(S) /\ Len(g) = l + k
      /\ \A i \in 1 .. l + k : g[i] = IF i <= l THEN q[i] ELSE m
      /\ ToSet(g) = ToSet(q) \cup (IF k = 0 THEN {} ELSE {m})
  <2> DEFINE p == Append(q, m)
  <2>1. /\ p \in Seq(S) /\ Len(p) = l + 1 /\ p[l + 1] = m
        /\ \A i \in 1..l : p[i] = q[i]
    BY AppendProperties
  <2>2. ToSet(p) = ToSet(q) \cup {m}
    BY SetOps
  <2>3. CASE k = 0
    BY <1>1, <2>3 DEF Grown
  <2>4. CASE k = 1
    <3>1. g = p
      BY <2>4 DEF Grown
    <3> HIDE DEF g, p
    <3>2. \A i \in 1 .. l + 1 : i \in 1..l \/ i = l + 1
      BY <1>1
    <3> QED
      BY <1>1, <2>1, <2>2, <2>4, <3>1, <3>2
  <2>5. CASE k = 2
    <3>1. g = Append(p, m)
      BY <2>5 DEF Grown
    <3> HIDE DEF p
    <3>2. /\ g \in Seq(S) /\ Len(g) = l + 2 /\ g[l + 2] = m
          /\ \A i \in 1 .. l + 1 : g[i] = p[i]
      <4>1. /\ Append(p, m) \in Seq(S) /\ Len(Append(p, m)) = Len(p) + 1
            /\ Append(p, m)[Len(p) + 1] = m
            /\ \A i \in 1..Len(p) : Append(p, m)[i] = p[i]
        BY <2>1, AppendProperties
      <4>2. Len(p) = l + 1 /\ (l + 1) + 1 = l + 2
        BY <1>1, <2>1
      <4> QED
        BY <3>1, <4>1, <4>2
    <3>3. ToSet(g) = ToSet(p) \cup {m}
      BY <2>1, <3>1, SetOps
    <3> HIDE DEF g
    <3>4. ASSUME NEW i \in 1 .. l + 2 PROVE g[i] = IF i <= l THEN q[i] ELSE m
      <4>1. \/ i <= l /\ i \in 1..l /\ i \in 1 .. l + 1
            \/ ~(i <= l) /\ i = l + 1 /\ i \in 1 .. l + 1
            \/ ~(i <= l) /\ i = l + 2
        BY <1>1
      <4> QED
        BY <2>1, <3>2, <4>1
    <3> QED
      BY <2>2, <2>5, <3>2, <3>3, <3>4
  <2> QED
    BY <2>3, <2>4, <2>5
<1> HIDE DEF g, l
<1>4. /\ q \o r \in Seq(S) /\ Len(q \o r) = l + k
      /\ \A i \in 1 .. l + k : (q \o r)[i] = IF i <= l THEN q[i] ELSE r[i - l]
  BY <1>2, ConcatProperties DEF l
<1>5. ASSUME NEW i \in 1 .. l + k PROVE (q \o r)[i] = g[i]
  <2>1. i <= l \/ (~(i <= l) /\ i - l \in 1..k)
    BY <1>1
  <2> QED
    BY <1>2, <1>3, <1>4, <2>1
<1>6. q \o r = g
  BY <1>3, <1>4, <1>5, SeqEqual
<1> QED
  BY <1>2, <1>3, <1>6 DEF g

(* How often a message is in a queue.                                       *)
Count(q, m) == Cardinality({ i \in 1..Len(q) : q[i] = m })

LEMMA CountAppend ==
    ASSUME NEW S, NEW q \in Seq(S), NEW x \in S, NEW m
    PROVE  /\ Count(q, m) \in Nat
           /\ Count(Append(q, x), m) = Count(q, m) + (IF x = m THEN 1 ELSE 0)
           /\ m \notin ToSet(q) => Count(q, m) = 0
<1> DEFINE n == Len(q)
           p == Append(q, x)
           A == { i \in 1..n : q[i] = m }
           B == { i \in 1 .. n + 1 : p[i] = m }
<1>1. n \in Nat /\ Len(p) = n + 1 /\ p[n + 1] = x /\ \A i \in 1..n : p[i] = q[i]
  BY LenProperties, AppendProperties
<1>2. IsFiniteSet(A)
  <2>1. IsFiniteSet(1..n) /\ A \subseteq 1..n
    BY <1>1, FS_Interval
  <2> QED
    BY <2>1, FS_Subset
<1> HIDE DEF p, n
<1>3. B = IF x = m THEN A \cup {n + 1} ELSE A
  <2>1. \A i : i \in 1 .. n + 1 <=> i \in 1..n \/ i = n + 1
    BY <1>1
  <2> QED
    BY <1>1, <2>1
<1>4. n + 1 \notin A
  BY <1>1
<1> HIDE DEF A, B
<1>5. /\ Cardinality(A) \in Nat
      /\ Cardinality(B) = Cardinality(A) + (IF x = m THEN 1 ELSE 0)
  <2>1. Cardinality(A) \in Nat
    BY <1>2, FS_CardinalityType
  <2>2. Cardinality(A \cup {n + 1}) = Cardinality(A) + 1
    BY <1>2, <1>4, FS_AddElement
  <2> QED
    BY <1>3, <2>1, <2>2
<1>6. m \notin ToSet(q) => A = {}
  BY SetOps DEF A, n
<1>7. Count(q, m) = Cardinality(A) /\ Count(p, m) = Cardinality(B)
  BY <1>1 DEF Count, A, B, n
<1> QED
  BY <1>5, <1>6, <1>7, FS_EmptySet DEF p

LEMMA CountGrown ==
    ASSUME NEW S, NEW q \in Seq(S), NEW x \in S, NEW m,
           NEW k, k \in 0..2
    PROVE  Count(Grown(q, x, k), m) = Count(q, m) + (IF x = m THEN k ELSE 0)
<1>1. PICK p \in Seq(S) : p = Append(q, x)
  BY AppendProperties
<1>2. /\ Count(q, m) \in Nat
      /\ Count(p, m) = Count(q, m) + (IF x = m THEN 1 ELSE 0)
  BY <1>1, CountAppend
<1>3. Count(Append(p, x), m) = Count(p, m) + (IF x = m THEN 1 ELSE 0)
  BY CountAppend
<1> QED
  BY <1>1, <1>2, <1>3 DEF Grown

(* Messages that arrive in order, copies next to each other.                *)
NotAfter(m, o) ==
    m.src = o.src /\ "RESPONSE" \notin {m.type, o.type} => m.n <= o.n
Orderly(q) == \A i, j \in 1..Len(q) : i < j => NotAfter(q[i], q[j])

LEMMA AppendOrderly ==
    ASSUME NEW S, NEW q \in Seq(S), NEW x \in S, Orderly(q),
           \A m \in ToSet(q) : NotAfter(m, x)
    PROVE  Orderly(Append(q, x))
<1> DEFINE p == Append(q, x)
           n == Len(q)
<1>1. /\ n \in Nat /\ Len(p) = n + 1 /\ p[n + 1] = x
      /\ \A i \in 1..n : p[i] = q[i] /\ q[i] \in ToSet(q)
  BY LenProperties, AppendProperties, SetOps
<1> HIDE DEF p
<1>2. ASSUME NEW i \in 1 .. n + 1, NEW j \in 1 .. n + 1, i < j
      PROVE  NotAfter(p[i], p[j])
  <2>1. i \in 1..n /\ (j \in 1..n \/ j = n + 1)
    BY <1>1, <1>2
  <2>2. j \in 1..n => NotAfter(q[i], q[j])
    BY <1>2, <2>1 DEF Orderly
  <2>3. NotAfter(q[i], x)
    BY <1>1, <2>1
  <2> QED
    BY <1>1, <2>1, <2>2, <2>3
<1> QED
  BY <1>1, <1>2 DEF Orderly, p

LEMMA GrownOrderly ==
    ASSUME NEW q \in Seq(Msg), NEW x \in Msg, NEW k, k \in 0..2,
           Orderly(q),
           \A m \in ToSet(q) : NotAfter(m, x)
    PROVE  Orderly(Grown(q, x, k))
<1>1. Append(q, x) \in Seq(Msg) /\ Orderly(Append(q, x))
  BY AppendProperties, AppendOrderly
<1>2. \A m \in ToSet(Append(q, x)) : NotAfter(m, x)
  <2>1. NotAfter(x, x)
    BY DEF NotAfter, Msg
  <2> QED
    BY <2>1, SetOps
<1>3. Orderly(Append(Append(q, x), x))
  BY <1>1, <1>2, AppendOrderly
<1> QED
  BY <1>1, <1>3 DEF Grown

-----------------------------------------------------------------------------
(* What each step does.                                                     *)

DataOK ==
    /\ inbox \in [Actors -> Seq(Msg)]
    /\ send \in [Actors -> Seq(Msg)]
    /\ got \in [Actors -> Seq(Msg)]
    /\ routing \in Actors \cup {None}
    /\ subs \subseteq (Addresses \X STRING) \X Actors
    /\ nextId \in [Actors -> Nat]
    /\ script \in Scripts
    /\ said \in [Actors -> Nat]
    /\ ran \in [Actors -> Seq([call : Nat, answer : Msg])]
    /\ log \in Seq(Msg)
    /\ DOMAIN callbacks = Actors
    /\ \A a \in Actors : said[a] <= Len(script[a])

Waiting(a) ==
    /\ DOMAIN callbacks[a] \subseteq 0..nextId[a] - 1
    /\ \A i \in DOMAIN callbacks[a] :
         /\ callbacks[a][i] \in 1..said[a]
         /\ script[a][callbacks[a][i]].call = "Request"

LEMMA TypeParts ==
    /\ TypeOK <=> DataOK /\ \A a \in Actors : Waiting(a)
    /\ TypeOK' <=> DataOK' /\ \A a \in Actors : Waiting(a)'
  BY DEF TypeOK, DataOK, Waiting

LEMMA NextCallType ==
    ASSUME DataOK, NEW a \in Actors, said[a] < Len(script[a])
    PROVE  /\ said[a] \in Nat /\ said[a] + 1 \in 1..Len(script[a])
           /\ NextCall(a) \in ScriptCalls /\ NextCall(a) = script[a][said[a] + 1]
<1>1. script[a] \in Seq(ScriptCalls) /\ said[a] \in Nat
  BY MessagesAssumption DEF DataOK
<1>2. Len(script[a]) \in Nat
  BY <1>1, LenProperties
<1>3. said[a] + 1 \in 1..Len(script[a])
  BY <1>1, <1>2
<1> QED
  BY <1>1, <1>3, ElementOfSeq DEF NextCall

Says(a, type, id, m) ==
    /\ m \in Msg /\ m.src = a /\ m.n = said[a] + 1 /\ m.type = type
    /\ m.id = id /\ m.dst = script[a][said[a] + 1].to

LEMMA MessageType ==
    ASSUME DataOK, NEW a \in Actors, said[a] < Len(script[a]),
           NEW type, type \in {"TEXT", "SUB", "PUB", "REQUEST"},
           NEW id, id \in Nat \cup {None}
    PROVE  Says(a, type, id, Message(a, type, id))
  BY NextCallType DEF Message, Msg, ScriptCalls, Says

(* An ordinary message, numbered with the call that says it.                *)
Tells(a, m) ==
    /\ m.src = a /\ m.n = said[a] + 1 /\ m.type \in {"TEXT", "SUB", "PUB"}
    /\ send' = [send EXCEPT ![a] = Append(@, m)]
    /\ UNCHANGED <<nextId, callbacks>>
Asks(a, m) ==
    /\ m.src = a /\ m.n = said[a] + 1 /\ m.type = "REQUEST"
    /\ m.id = nextId[a] /\ m.dst = script[a][said[a] + 1].to
    /\ script[a][said[a] + 1].call = "Request"
    /\ send' = [send EXCEPT ![a] = Append(@, m)]
    /\ nextId' = [nextId EXCEPT ![a] = @ + 1]
    /\ callbacks' = [callbacks EXCEPT ![a] = Insert(@, nextId[a], said[a] + 1)]

LEMMA Spoken ==
    ASSUME DataOK, NEW a \in Actors, Speak(a)
    PROVE  /\ said[a] < Len(script[a]) /\ said' = [said EXCEPT ![a] = @ + 1]
           /\ UNCHANGED <<inbox, routing, subs, script, got, ran, log>>
           /\ \/ UNCHANGED <<send, nextId, callbacks>>
              \/ \E m \in Msg : Tells(a, m) \/ Asks(a, m)
<1>1. /\ said[a] < Len(script[a]) /\ said' = [said EXCEPT ![a] = @ + 1]
      /\ UNCHANGED <<inbox, routing, subs, script, got, ran, log>>
  BY DEF Speak, Send, Subscribe, Publish, Request, Calls, histVars
<1>2. NextCall(a) = script[a][said[a] + 1] /\ nextId[a] \in Nat
  BY <1>1, NextCallType DEF DataOK
<1>0. /\ Says(a, "TEXT", None, Message(a, "TEXT", None))
      /\ Says(a, "SUB", None, Message(a, "SUB", None))
      /\ Says(a, "PUB", None, Message(a, "PUB", None))
      /\ Says(a, "REQUEST", nextId[a], Message(a, "REQUEST", nextId[a]))
  BY <1>1, <1>2, MessageType
<1> SUFFICES \/ UNCHANGED <<send, nextId, callbacks>>
             \/ \E m \in Msg : Tells(a, m) \/ Asks(a, m)
  BY <1>1
<1>3. ASSUME NEW kind \in {"TEXT", "SUB"}, SendMsg(a, Message(a, kind, None)),
             UNCHANGED <<nextId, callbacks>>
      PROVE  \E m \in Msg : Tells(a, m)
  <2> DEFINE m == Message(a, kind, None)
  <2>1. m \in Msg /\ m.src = a /\ m.n = said[a] + 1 /\ m.type = kind
    BY <1>0 DEF Says
  <2>2. send' = [send EXCEPT ![a] = Append(@, m)]
    BY <1>3 DEF SendMsg, SendList
  <2> HIDE DEF m
  <2> QED
    BY <1>3, <2>1, <2>2 DEF Tells
<1>4. CASE Send(a)
  BY <1>3, <1>4 DEF Send
<1>5. CASE Subscribe(a)
  BY <1>3, <1>5 DEF Subscribe
<1>6. CASE Publish(a)
  <2> DEFINE m == [Message(a, "PUB", None) EXCEPT !.dst = None]
  <2>1. m \in Msg /\ m.src = a /\ m.n = said[a] + 1 /\ m.type = "PUB"
    <3>1. LET o == Message(a, "PUB", None) IN
          o \in Msg /\ o.src = a /\ o.n = said[a] + 1 /\ o.type = "PUB"
      BY <1>0 DEF Says
    <3> QED
      BY <3>1 DEF Msg, Addresses
  <2>2. /\ send' = [send EXCEPT ![a] = Append(@, m)]
        /\ UNCHANGED <<nextId, callbacks>>
    BY <1>6 DEF Publish, SendMsg, SendList
  <2> HIDE DEF m
  <2> QED
    BY <2>1, <2>2 DEF Tells
<1>7. CASE Request(a)
  <2>1. CASE NextCall(a).to \in {None, a}
    BY <1>7, <2>1 DEF Request
  <2>2. CASE NextCall(a).to \notin {None, a}
    <3> DEFINE m == Message(a, "REQUEST", nextId[a])
    <3>1. /\ m \in Msg /\ m.src = a /\ m.n = said[a] + 1 /\ m.type = "REQUEST"
          /\ m.id = nextId[a] /\ m.dst = script[a][said[a] + 1].to
      BY <1>0 DEF Says
    <3>2. /\ NextCall(a).call = "Request" /\ SendMsg(a, m)
          /\ nextId' = [nextId EXCEPT ![a] = @ + 1]
          /\ callbacks' = [callbacks EXCEPT
                             ![a] = Insert(@, nextId[a], said[a] + 1)]
      BY <1>7, <2>2 DEF Request, Calls, Increment
    <3> HIDE DEF m
    <3> QED
      BY <1>2, <3>1, <3>2 DEF SendMsg, SendList, Asks
  <2> QED
    BY <2>1, <2>2
<1> QED
  BY <1>1, <1>4, <1>5, <1>6, <1>7 DEF Speak

Responds(a, req, m) ==
    /\ req.type = "REQUEST" /\ m.type = "RESPONSE" /\ m.src = a
    /\ m.dst = req.src /\ m.n = req.n /\ m.id = req.id
    /\ send' = [send EXCEPT ![a] = Append(@, m)]
    /\ UNCHANGED <<inbox, routing, subs, nextId, callbacks, script, said, got,
                   ran, log>>

LEMMA Responded ==
    ASSUME DataOK, NEW a \in Actors, Response(a)
    PROVE  \E req \in ToSet(got[a]), m \in Msg : Responds(a, req, m)
<1>1. PICK req \in ToSet(got[a]), mode \in Modes :
        /\ req.type = "REQUEST"
        /\ SendMsg(a, [req EXCEPT !.type = "RESPONSE", !.src = a,
                                  !.dst = ResponseDst(req), !.mode = mode])
  BY DEF Response
<1> DEFINE m == [req EXCEPT !.type = "RESPONSE", !.src = a,
                            !.dst = ResponseDst(req), !.mode = mode]
<1>2. req \in Msg
  BY SetOps DEF DataOK
<1>3. /\ m \in Msg /\ m.type = "RESPONSE" /\ m.src = a /\ m.dst = req.src
      /\ m.n = req.n /\ m.id = req.id
  BY <1>2 DEF Msg, Addresses, ResponseDst
<1>4. send' = [send EXCEPT ![a] = Append(@, m)]
  BY <1>1 DEF SendMsg, SendList
<1>5. UNCHANGED <<inbox, routing, subs, nextId, callbacks, script, said, got,
                  ran, log>>
  BY DEF Response, histVars
<1> HIDE DEF m
<1> QED
  BY <1>1, <1>3, <1>4, <1>5 DEF Responds

(* A message is handled, and its callback runs if it has one.               *)
Handles(a, m) ==
    /\ inbox[a] # <<>> /\ m = Head(inbox[a])
    /\ inbox' = [inbox EXCEPT ![a] = Tail(@)]
    /\ got' = [got EXCEPT ![a] = Append(@, m)]
    /\ UNCHANGED <<send, routing, subs, nextId, script, said, log>>
    /\ \/ m.type # "RESPONSE" /\ UNCHANGED <<ran, callbacks>>
       \/ /\ m.type = "RESPONSE" /\ m.id \notin DOMAIN callbacks[a]
          /\ UNCHANGED <<ran, callbacks>>
       \/ /\ m.type = "RESPONSE" /\ m.id \in DOMAIN callbacks[a]
          /\ ran' = [ran EXCEPT ![a] =
                Append(@, [call |-> callbacks[a][m.id], answer |-> m])]
          /\ callbacks' = [callbacks EXCEPT ![a] = Erase(@, m.id)]

LEMMA Handled ==
    ASSUME DataOK, NEW a \in Actors, Handle(a)
    PROVE  \E m \in Msg : Handles(a, m)
<1>1. inbox[a] # <<>> /\ Head(inbox[a]) \in Msg
  BY SetOps DEF DataOK, Handle, ProcResponse, Proc, PopRun
<1>2. Handles(a, Head(inbox[a]))
  <2>1. CASE ProcResponse(a)
    BY <2>1 DEF ProcResponse, PopRun, Handles
  <2>2. CASE Proc(a)
    BY <2>2 DEF Proc, PopRun, Handles
  <2> QED
    BY <2>1, <2>2 DEF Handle
<1> QED
  BY <1>1, <1>2

Dispatches(a, m) ==
    /\ send[a] # <<>> /\ m = Head(send[a])
    /\ send' = [send EXCEPT ![a] = Tail(@)]
    /\ inbox' = [b \in Actors |-> inbox[b] \o [i \in 1..Copies(b, m) |-> m]]
    /\ log' = Append(log, m)
    /\ subs' = IF m.type = "SUB" /\ Local(m.mode)
               THEN subs \cup {<<SubTopic(m), m.src>>} ELSE subs
    /\ UNCHANGED <<routing, nextId, callbacks, script, said, got, ran>>

LEMMA Dispatched ==
    ASSUME DataOK, DispatchMsg
    PROVE  \E a \in Actors, m \in Msg : Dispatches(a, m)
<1>1. PICK a \in Actors : a = routing
  BY DEF DispatchMsg, DataOK
<1>2. send[a] # <<>> /\ Head(send[a]) \in Msg
  BY <1>1, SetOps DEF DataOK, DispatchMsg
<1>3. Dispatches(a, Head(send[a]))
  BY <1>1 DEF DispatchMsg, Dispatches, AddSubInfo, Records
<1> QED
  BY <1>2, <1>3

LEMMA CopiesBound ==
    ASSUME NEW a, NEW m
    PROVE  Copies(a, m) \in 0..2
  BY DEF Copies, SubCopies, PubCopies, Routed, ToActor, ToNode

quietVars == <<inbox, send, subs, nextId, callbacks, script, said, got, ran, log>>

(* Every step is one of these.                                              *)
LEMMA Steps ==
    ASSUME [Next]_vars
    PROVE  \/ UNCHANGED quietVars /\ routing' \in Actors \cup {None, routing}
           \/ DispatchMsg
           \/ \E a \in Actors : Handle(a) \/ Speak(a) \/ Response(a)
<1>1. CASE RouteBegin \/ RouteEnd \/ Quiet \/ UNCHANGED vars
  BY <1>1 DEF RouteBegin, RouteEnd, Quiet, vars, quietVars, histVars
<1> QED
  BY <1>1 DEF Next, Main

-----------------------------------------------------------------------------
(* Type correctness.                                                        *)

LEMMA TypeInit == Init => TypeOK
<1> SUFFICES ASSUME Init PROVE TypeOK
  OBVIOUS
<1>1. <<>> \in Seq(Msg) /\ <<>> \in Seq([call : Nat, answer : Msg])
  BY EmptySeq
<1>2. \A a \in Actors : script[a] \in Seq(ScriptCalls)
  BY MessagesAssumption DEF Init
<1>3. \A a \in Actors : said[a] <= Len(script[a])
  BY <1>2, LenProperties DEF Init
<1>4. DOMAIN <<>> = {}
  OBVIOUS
<1>5. DOMAIN callbacks = Actors /\ \A a \in Actors : DOMAIN callbacks[a] = {}
  BY <1>4 DEF Init
<1> QED
  BY <1>1, <1>3, <1>5 DEF Init, TypeOK

LEMMA TypeStep == TypeOK /\ [Next]_vars => TypeOK'
<1> SUFFICES ASSUME TypeOK, [Next]_vars
             PROVE  DataOK' /\ \A b \in Actors : Waiting(b)'
  BY TypeParts
<1>0. DataOK /\ \A b \in Actors : Waiting(b)
  BY TypeParts
<1>s. \A b \in Actors : script[b] \in Seq(ScriptCalls) /\ Len(script[b]) \in Nat
  BY <1>0, MessagesAssumption, LenProperties DEF DataOK
<1>1. CASE UNCHANGED quietVars /\ routing' \in Actors \cup {None, routing}
  BY <1>0, <1>1 DEF quietVars, DataOK, Waiting
<1>2. CASE DispatchMsg
  <2>1. PICK a \in Actors, m \in Msg : Dispatches(a, m)
    BY <1>0, <1>2, Dispatched
  <2>2. send' \in [Actors -> Seq(Msg)]
    <3>1. Tail(send[a]) \in Seq(Msg)
      BY <1>0, <2>1, SetOps DEF DataOK, Dispatches
    <3> QED
      BY <1>0, <2>1, <3>1 DEF DataOK, Dispatches
  <2>3. inbox' \in [Actors -> Seq(Msg)]
    <3>1. ASSUME NEW b \in Actors
          PROVE  inbox[b] \o [i \in 1..Copies(b, m) |-> m] \in Seq(Msg)
      <4>1. Copies(b, m) \in 0..2 /\ inbox[b] \in Seq(Msg)
        BY <1>0, CopiesBound DEF DataOK
      <4>2. [i \in 1..Copies(b, m) |-> m] \in Seq(Msg)
        BY <4>1, LenProperties
      <4> QED
        BY <4>1, <4>2, ConcatProperties
    <3> QED
      BY <2>1, <3>1 DEF Dispatches
  <2>4. log' \in Seq(Msg)
    BY <1>0, <2>1, AppendProperties DEF DataOK, Dispatches
  <2>5. subs' \subseteq (Addresses \X STRING) \X Actors
    <3>1. <<SubTopic(m), m.src>> \in (Addresses \X STRING) \X Actors
      BY DEF SubTopic, Msg
    <3> QED
      BY <1>0, <2>1, <3>1 DEF DataOK, Dispatches
  <2> QED
    BY <1>0, <2>1, <2>2, <2>3, <2>4, <2>5 DEF DataOK, Dispatches, Waiting
<1>3. ASSUME NEW a \in Actors, Handle(a)
      PROVE  DataOK' /\ \A b \in Actors : Waiting(b)'
  <2>1. PICK m \in Msg : Handles(a, m)
    BY <1>0, <1>3, Handled
  <2>2. inbox' \in [Actors -> Seq(Msg)] /\ got' \in [Actors -> Seq(Msg)]
    <3>1. Tail(inbox[a]) \in Seq(Msg) /\ Append(got[a], m) \in Seq(Msg)
      BY <1>0, <2>1, SetOps, AppendProperties DEF DataOK, Handles
    <3> QED
      BY <1>0, <2>1, <3>1 DEF DataOK, Handles
  <2>3. CASE UNCHANGED <<ran, callbacks>>
    <3>1. DataOK'
      BY <1>0, <2>1, <2>2, <2>3 DEF DataOK, Handles
    <3>2. ASSUME NEW b \in Actors PROVE Waiting(b)'
      BY <1>0, <2>1, <2>3 DEF Waiting, Handles
    <3> QED
      BY <3>1, <3>2
  <2>4. CASE /\ m.type = "RESPONSE" /\ m.id \in DOMAIN callbacks[a]
             /\ ran' = [ran EXCEPT ![a] =
                   Append(@, [call |-> callbacks[a][m.id], answer |-> m])]
             /\ callbacks' = [callbacks EXCEPT ![a] = Erase(@, m.id)]
    <3>1. ran' \in [Actors -> Seq([call : Nat, answer : Msg])]
      <4>1. callbacks[a][m.id] \in Nat
        BY <1>0, <2>4 DEF Waiting, DataOK
      <4>2. [call |-> callbacks[a][m.id], answer |-> m] \in [call : Nat, answer : Msg]
        BY <4>1
      <4>3. Append(ran[a], [call |-> callbacks[a][m.id], answer |-> m])
              \in Seq([call : Nat, answer : Msg])
        BY <1>0, <4>2, AppendProperties DEF DataOK
      <4> QED
        BY <1>0, <2>4, <4>3 DEF DataOK
    <3>2. ASSUME NEW b \in Actors PROVE Waiting(b)'
      <4>1. /\ DOMAIN callbacks'[b] \subseteq DOMAIN callbacks[b]
            /\ \A i \in DOMAIN callbacks'[b] : callbacks'[b][i] = callbacks[b][i]
        BY <1>0, <2>4 DEF DataOK, Erase
      <4>2. UNCHANGED <<nextId, said, script>> /\ Waiting(b)
        BY <1>0, <2>1 DEF Handles
      <4> QED
        BY <4>1, <4>2 DEF Waiting
    <3>3. DOMAIN callbacks' = Actors
      BY <1>0, <2>4 DEF DataOK
    <3> QED
      BY <1>0, <2>1, <2>2, <3>1, <3>2, <3>3 DEF DataOK, Handles
  <2> QED
    BY <2>1, <2>3, <2>4 DEF Handles
<1>4. ASSUME NEW a \in Actors, Speak(a)
      PROVE  DataOK' /\ \A b \in Actors : Waiting(b)'
  <2>1. /\ said[a] < Len(script[a]) /\ said' = [said EXCEPT ![a] = @ + 1]
        /\ UNCHANGED <<inbox, routing, subs, script, got, ran, log>>
        /\ \/ UNCHANGED <<send, nextId, callbacks>>
           \/ \E m \in Msg : Tells(a, m) \/ Asks(a, m)
    BY <1>0, <1>4, Spoken
  <2>2. /\ said' \in [Actors -> Nat]
        /\ \A b \in Actors : said'[b] <= Len(script[b]) /\ 1..said[b] \subseteq 1..said'[b]
    <3>1. said \in [Actors -> Nat] /\ \A b \in Actors : said[b] <= Len(script[b])
      BY <1>0 DEF DataOK
    <3>2. said' \in [Actors -> Nat]
      BY <2>1, <3>1
    <3>3. ASSUME NEW b \in Actors
          PROVE  said'[b] <= Len(script[b]) /\ 1..said[b] \subseteq 1..said'[b]
      <4>1. CASE b = a
        BY <1>s, <2>1, <3>1, <4>1
      <4>2. CASE b # a
        BY <2>1, <3>1, <4>2
      <4> QED
        BY <4>1, <4>2
    <3> QED
      BY <3>2, <3>3
  <2>3. ASSUME NEW m \in Msg, send' = [send EXCEPT ![a] = Append(@, m)]
        PROVE  send' \in [Actors -> Seq(Msg)]
    <3>1. Append(send[a], m) \in Seq(Msg)
      BY <1>0, AppendProperties DEF DataOK
    <3> QED
      BY <1>0, <2>3, <3>1 DEF DataOK
  <2>4. CASE UNCHANGED <<nextId, callbacks>> /\ send' \in [Actors -> Seq(Msg)]
    <3>1. DataOK'
      BY <1>0, <2>1, <2>2, <2>4 DEF DataOK
    <3>2. ASSUME NEW b \in Actors PROVE Waiting(b)'
      BY <1>0, <2>1, <2>2, <2>4 DEF Waiting
    <3> QED
      BY <3>1, <3>2
  <2>5. ASSUME NEW m \in Msg, Asks(a, m)
        PROVE  DataOK' /\ \A b \in Actors : Waiting(b)'
    <3>1. /\ nextId' = [nextId EXCEPT ![a] = @ + 1]
          /\ callbacks' = [callbacks EXCEPT ![a] = Insert(@, nextId[a], said[a] + 1)]
          /\ send' \in [Actors -> Seq(Msg)]
          /\ script[a][said[a] + 1].call = "Request"
      BY <2>3, <2>5 DEF Asks
    <3>2. nextId' \in [Actors -> Nat] /\ DOMAIN callbacks' = Actors
      <4>1. nextId \in [Actors -> Nat] /\ DOMAIN callbacks = Actors
        BY <1>0 DEF DataOK
      <4>2. nextId[a] + 1 \in Nat
        BY <1>0, <4>1
      <4> QED
        BY <3>1, <4>1, <4>2
    <3>3. DataOK'
      BY <1>0, <2>1, <2>2, <3>1, <3>2 DEF DataOK
    <3>4. ASSUME NEW b \in Actors PROVE Waiting(b)'
      <4>1. CASE b # a
        <5>1. callbacks'[b] = callbacks[b] /\ nextId'[b] = nextId[b]
          BY <1>0, <3>1, <4>1 DEF DataOK
        <5> QED
          BY <1>0, <2>1, <2>2, <5>1 DEF Waiting
      <4>2. CASE b = a
        <5> DEFINE cb == callbacks[a]
                   k == nextId[a]
                   new == Insert(cb, k, said[a] + 1)
        <5>1. /\ callbacks'[a] = new /\ nextId'[a] = k + 1 /\ said'[a] = said[a] + 1
              /\ said[a] \in Nat /\ k \in Nat
          BY <1>0, <2>1, <3>1 DEF DataOK
        <5>2. /\ DOMAIN new = DOMAIN cb \cup {k}
              /\ \A i \in DOMAIN new : new[i] = IF i = k THEN said[a] + 1 ELSE cb[i]
          BY DEF Insert
        <5>3. /\ DOMAIN cb \subseteq 0 .. k - 1
              /\ \A i \in DOMAIN cb : /\ cb[i] \in 1..said[a]
                                      /\ script[a][cb[i]].call = "Request"
          BY <1>0 DEF Waiting
        <5> HIDE DEF cb, k, new
        <5>4. DOMAIN new \subseteq 0 .. (k + 1) - 1
          BY <5>1, <5>2, <5>3
        <5>5. ASSUME NEW i \in DOMAIN new
              PROVE  new[i] \in 1 .. said[a] + 1 /\ script[a][new[i]].call = "Request"
          BY <3>1, <5>1, <5>2, <5>3
        <5> QED
          BY <2>1, <4>2, <5>1, <5>4, <5>5 DEF Waiting
      <4> QED
        BY <4>1, <4>2
    <3> QED
      BY <3>3, <3>4
  <2>6. UNCHANGED send => send' \in [Actors -> Seq(Msg)]
    BY <1>0 DEF DataOK
  <2>7. ASSUME NEW m \in Msg, Tells(a, m)
        PROVE  UNCHANGED <<nextId, callbacks>> /\ send' \in [Actors -> Seq(Msg)]
    BY <2>3, <2>7 DEF Tells
  <2> QED
    BY <2>1, <2>4, <2>5, <2>6, <2>7
<1>5. ASSUME NEW a \in Actors, Response(a)
      PROVE  DataOK' /\ \A b \in Actors : Waiting(b)'
  <2>1. PICK req \in ToSet(got[a]), m \in Msg : Responds(a, req, m)
    BY <1>0, <1>5, Responded
  <2>2. Append(send[a], m) \in Seq(Msg)
    BY <1>0, AppendProperties DEF DataOK
  <2>3. send' \in [Actors -> Seq(Msg)]
    BY <1>0, <2>1, <2>2 DEF DataOK, Responds
  <2> QED
    BY <1>0, <2>1, <2>3 DEF DataOK, Waiting, Responds
<1> QED
  BY <1>1, <1>2, <1>3, <1>4, <1>5, Steps

-----------------------------------------------------------------------------
(* What is said, dispatched and received.                                   *)

LEMMA ReceivedType ==
    ASSUME DataOK, NEW a \in Actors
    PROVE  /\ Received(a) \in Seq(Msg)
           /\ ToSet(Received(a)) = ToSet(got[a]) \cup ToSet(inbox[a])
<1>0. PICK g \in Seq(Msg), q \in Seq(Msg) : g = got[a] /\ q = inbox[a]
  BY DEF DataOK
<1>p. PICK p \in Seq(Msg) : p = g \o q
  BY ConcatProperties
<1> DEFINE l == Len(g)
           n == Len(q)
<1>1. /\ l \in Nat /\ n \in Nat
      /\ ToSet(g) = { g[i] : i \in 1..l } /\ ToSet(q) = { q[i] : i \in 1..n }
  BY LenProperties, SetOps
<1>2. /\ Len(p) = l + n
      /\ \A i \in 1 .. l + n : p[i] = IF i <= l THEN g[i] ELSE q[i - l]
  BY <1>p, ConcatProperties
<1>3. ToSet(p) = { p[i] : i \in 1 .. l + n }
  <2>1. ToSet(p) = { p[i] : i \in 1..Len(p) }
    BY SetOps
  <2> QED
    BY <1>2, <2>1
<1>4. Received(a) = p
  BY <1>0, <1>p DEF Received
<1> HIDE DEF l, n
<1>5. ASSUME NEW x \in ToSet(p) PROVE x \in ToSet(g) \cup ToSet(q)
  <2>1. PICK i \in 1 .. l + n : x = p[i]
    BY <1>3
  <2>2. \/ i <= l /\ i \in 1..l
        \/ ~(i <= l) /\ i - l \in 1..n
    BY <1>1
  <2>3. CASE i <= l
    <3>1. x = g[i] /\ i \in 1..l
      BY <1>2, <2>1, <2>2, <2>3
    <3> QED
      BY <1>1, <3>1
  <2>4. CASE ~(i <= l)
    <3>1. x = q[i - l] /\ i - l \in 1..n
      BY <1>2, <2>1, <2>2, <2>4
    <3> QED
      BY <1>1, <3>1
  <2> QED
    BY <2>3, <2>4
<1>6. ASSUME NEW x \in ToSet(g) PROVE x \in ToSet(p)
  <2>1. PICK i \in 1..l : x = g[i]
    BY <1>1
  <2>2. i \in 1 .. l + n /\ i <= l
    BY <1>1
  <2> QED
    BY <1>2, <1>3, <2>1, <2>2
<1>7. ASSUME NEW x \in ToSet(q) PROVE x \in ToSet(p)
  <2>1. PICK i \in 1..n : x = q[i]
    BY <1>1
  <2>2. l + i \in 1 .. l + n /\ ~(l + i <= l) /\ (l + i) - l = i
    BY <1>1
  <2>3. p[l + i] = q[i]
    BY <1>2, <2>2
  <2> QED
    BY <1>3, <2>1, <2>2, <2>3
<1>8. ToSet(p) = ToSet(g) \cup ToSet(q)
  BY <1>5, <1>6, <1>7
<1> QED
  BY <1>0, <1>4, <1>8

LEMMA SendGrows ==
    ASSUME DataOK, NEW a \in Actors, NEW m \in Msg, UNCHANGED log,
           send' = [send EXCEPT ![a] = Append(@, m)]
    PROVE  /\ ToSet(send'[a]) = ToSet(send[a]) \cup {m}
           /\ send'[a] = Append(send[a], m)
           /\ \A b \in Actors : b # a => send'[b] = send[b]
           /\ Said' = Said \cup {m}
<1>1. /\ send'[a] = Append(send[a], m)
      /\ \A b \in Actors : b # a => send'[b] = send[b]
  BY DEF DataOK
<1>2. ToSet(send'[a]) = ToSet(send[a]) \cup {m}
  BY <1>1, SetOps DEF DataOK
<1>3. /\ Said = ToSet(log) \cup UNION { ToSet(send[b]) : b \in Actors }
      /\ Said' = ToSet(log) \cup UNION { ToSet(send'[b]) : b \in Actors }
  BY DEF Said
<1>4. \A x : x \in Said' <=> x \in Said \/ x = m
  <2> TAKE x
  <2>1. x \in Said' <=> x \in ToSet(log) \/ \E b \in Actors : x \in ToSet(send'[b])
    BY <1>3
  <2>2. x \in Said <=> x \in ToSet(log) \/ \E b \in Actors : x \in ToSet(send[b])
    BY <1>3
  <2> QED
    BY <1>1, <1>2, <2>1, <2>2
<1> QED
  BY <1>1, <1>2, <1>4

LEMMA SendShrinks ==
    ASSUME DataOK, NEW a \in Actors, NEW m \in Msg, Dispatches(a, m)
    PROVE  /\ ToSet(send[a]) = ToSet(send'[a]) \cup {m}
           /\ send'[a] = Tail(send[a])
           /\ \A b \in Actors : b # a => send'[b] = send[b]
           /\ ToSet(log') = ToSet(log) \cup {m}
           /\ Said' = Said
<1>1. /\ send'[a] = Tail(send[a])
      /\ \A b \in Actors : b # a => send'[b] = send[b]
  BY DEF DataOK, Dispatches
<1>2. ToSet(send[a]) = ToSet(send'[a]) \cup {m}
  <2>1. send[a] \in Seq(Msg) /\ send[a] # <<>> /\ m = Head(send[a])
    BY DEF DataOK, Dispatches
  <2>2. ToSet(send[a]) = {Head(send[a])} \cup ToSet(Tail(send[a]))
    BY <2>1, SetOps
  <2> QED
    BY <1>1, <2>1, <2>2
<1>3. ToSet(log') = ToSet(log) \cup {m}
  BY SetOps DEF DataOK, Dispatches
<1>4. /\ Said = ToSet(log) \cup UNION { ToSet(send[b]) : b \in Actors }
      /\ Said' = ToSet(log') \cup UNION { ToSet(send'[b]) : b \in Actors }
  BY DEF Said
<1>5. \A x : x \in Said' <=> x \in Said
  <2> TAKE x
  <2>1. x \in Said' <=> x \in ToSet(log') \/ \E b \in Actors : x \in ToSet(send'[b])
    BY <1>4
  <2>2. x \in Said <=> x \in ToSet(log) \/ \E b \in Actors : x \in ToSet(send[b])
    BY <1>4
  <2> QED
    BY <1>1, <1>2, <1>3, <2>1, <2>2
<1> QED
  BY <1>1, <1>2, <1>3, <1>5

LEMMA HandleMoves ==
    ASSUME DataOK, NEW a \in Actors, NEW m \in Msg, Handles(a, m)
    PROVE  /\ ToSet(inbox[a]) = ToSet(inbox'[a]) \cup {m}
           /\ ToSet(got'[a]) = ToSet(got[a]) \cup {m}
           /\ \A b \in Actors : b # a => inbox'[b] = inbox[b] /\ got'[b] = got[b]
           /\ \A b \in Actors : Received(b)' = Received(b)
           /\ Said' = Said
<1>1. /\ got[a] \in Seq(Msg) /\ inbox[a] \in Seq(Msg) /\ inbox[a] # <<>>
      /\ inbox'[a] = Tail(inbox[a]) /\ m = Head(inbox[a])
      /\ got'[a] = Append(got[a], m)
      /\ \A b \in Actors : b # a => inbox'[b] = inbox[b] /\ got'[b] = got[b]
  BY DEF DataOK, Handles
<1>2. ToSet(inbox[a]) = {m} \cup ToSet(inbox'[a])
  BY <1>1, SetOps
<1>3. ToSet(got'[a]) = ToSet(got[a]) \cup {m}
  BY <1>1, SetOps
<1>4. got'[a] \o inbox'[a] = got[a] \o inbox[a]
  BY <1>1, Shift
<1>5. \A b \in Actors : Received(b)' = Received(b)
  BY <1>1, <1>4 DEF Received
<1>6. Said' = Said
  BY DEF Handles, Said
<1> QED
  BY <1>1, <1>2, <1>3, <1>5, <1>6

LEMMA DispatchDelivers ==
    ASSUME DataOK, NEW a \in Actors, NEW m \in Msg, Dispatches(a, m),
           NEW b \in Actors
    PROVE  /\ Received(b)' = Grown(Received(b), m, Copies(b, m))
           /\ ToSet(inbox'[b]) = ToSet(inbox[b])
                \cup (IF Copies(b, m) = 0 THEN {} ELSE {m})
<1>1. PICK k \in 0..2 : k = Copies(b, m)
  BY CopiesBound
<1>2. PICK g \in Seq(Msg), q \in Seq(Msg) : g = got[b] /\ q = inbox[b]
  BY DEF DataOK
<1>3. PICK r \in Seq(Msg) : /\ r = [i \in 1..k |-> m] /\ Len(r) = k
                            /\ \A i \in 1..k : r[i] = m
  <2> DEFINE r == [i \in 1..k |-> m]
  <2>1. r \in [1..k -> Msg] /\ \A i \in 1..k : r[i] = m
    OBVIOUS
  <2>2. r \in Seq(Msg) /\ Len(r) = k
    BY <2>1, LenProperties
  <2>3. r = [i \in 1..k |-> m]
    OBVIOUS
  <2> HIDE DEF r
  <2> QED
    BY <2>1, <2>2, <2>3
<1>r. Repeated(r, m, k)
  BY <1>3 DEF Repeated
<1>4. /\ q \o r = Grown(q, m, k)
      /\ ToSet(Grown(q, m, k)) = ToSet(q) \cup (IF k = 0 THEN {} ELSE {m})
  BY <1>r, Repeats
<1>5. PICK p \in Seq(Msg) : p = g \o q
  BY ConcatProperties
<1>6. p \o r = Grown(p, m, k)
  BY <1>r, Repeats
<1>7. g \o (q \o r) = p \o r
  BY <1>5, ConcatAssociative
<1>8. inbox'[b] = q \o r /\ got'[b] = g
  BY <1>1, <1>2, <1>3 DEF Dispatches
<1>9. Received(b) = p /\ Received(b)' = g \o (q \o r)
  BY <1>2, <1>5, <1>8 DEF Received
<1> QED
  BY <1>1, <1>2, <1>4, <1>6, <1>7, <1>8, <1>9

-----------------------------------------------------------------------------
(* Order.                                                                   *)

LEMMA OrderlyKept ==
    /\ OrderKept <=> \A b \in Actors : Orderly(Received(b))
    /\ OrderKept' <=> \A b \in Actors : Orderly(Received(b)')
  BY DEF OrderKept, Orderly, NotAfter

LEMMA SaidFrom ==
    ASSUME DataOK
    PROVE  Said \subseteq Msg
<1>1. ToSet(log) \subseteq Msg /\ \A b \in Actors : ToSet(send[b]) \subseteq Msg
  BY SetOps DEF DataOK
<1> QED
  BY <1>1 DEF Said

LEMMA OrderSay ==
    ASSUME DataOK, OrderInv, NEW a \in Actors, NEW m \in Msg, m.src = a,
           send' = [send EXCEPT ![a] = Append(@, m)],
           UNCHANGED <<inbox, got, log>>,
           \/ m.type = "RESPONSE" /\ UNCHANGED said
           \/ m.n = said[a] + 1 /\ said' = [said EXCEPT ![a] = @ + 1]
    PROVE  OrderInv'
<1>1. /\ ToSet(send'[a]) = ToSet(send[a]) \cup {m}
      /\ send'[a] = Append(send[a], m)
      /\ \A b \in Actors : b # a => send'[b] = send[b]
      /\ Said' = Said \cup {m}
  BY SendGrows
<1>2. Delivered'
  BY <1>1 DEF OrderInv, Delivered
<1>3. ASSUME NEW o \in Said PROVE Before(o, m)
  <2>1. o.type # "RESPONSE" => o.n <= said[o.src]
    BY DEF OrderInv, SaidInOrder
  <2>2. o \in Msg /\ said[a] \in Nat
    BY SaidFrom DEF DataOK
  <2>3. o.n \in Nat
    BY <2>2 DEF Msg
  <2> QED
    BY <2>1, <2>2, <2>3 DEF Before
<1>4. \A b \in Actors : InOrder(send'[b])
  <2>1. send[a] \in Seq(Msg) /\ InOrder(send[a])
    BY DEF DataOK, OrderInv, SaidInOrder
  <2>2. \A o \in ToSet(send[a]) : Before(o, m)
    BY <1>3 DEF Said
  <2>3. InOrder(Append(send[a], m))
    BY <2>1, <2>2, OrderOps
  <2> QED
    BY <1>1, <2>3 DEF OrderInv, SaidInOrder
<1>5. ASSUME NEW b \in Actors, NEW l \in ToSet(log), NEW o \in ToSet(send'[b])
      PROVE  Before(l, o)
  <2>1. o \in ToSet(send[b]) => Before(l, o)
    BY DEF OrderInv, SaidInOrder
  <2>2. Before(l, m)
    BY <1>3 DEF Said
  <2> QED
    BY <1>1, <2>1, <2>2
<1>6. ASSUME NEW o \in Said', o.type # "RESPONSE" PROVE o.n <= said'[o.src]
  <2>1. said[a] \in Nat /\ \A b \in Actors : said[b] \in Nat
    BY DEF DataOK
  <2>2. CASE o = m
    BY <1>6, <2>1, <2>2 DEF DataOK
  <2>3. CASE o \in Said
    <3>1. o \in Msg /\ o.n <= said[o.src]
      BY <1>6, <2>3, SaidFrom DEF OrderInv, SaidInOrder
    <3>2. o.src \in Actors /\ o.n \in Nat
      BY <3>1 DEF Msg
    <3>3. said'[o.src] = said[o.src] \/ said'[o.src] = said[o.src] + 1
      BY <3>2 DEF DataOK
    <3> QED
      BY <2>1, <3>1, <3>2, <3>3
  <2> QED
    BY <1>1, <2>2, <2>3
<1>7. SaidInOrder'
  BY <1>4, <1>5, <1>6 DEF OrderInv, SaidInOrder
<1>8. OrderKept'
  BY OrderlyKept DEF OrderInv, Received
<1> QED
  BY <1>2, <1>7, <1>8 DEF OrderInv

LEMMA OrderQuiet ==
    ASSUME DataOK, OrderInv, UNCHANGED <<send, inbox, got, log>>,
           \A b \in Actors : said'[b] \in Nat /\ said[b] <= said'[b]
    PROVE  OrderInv'
<1>1. Delivered' /\ Said' = Said
  BY DEF OrderInv, Delivered, Said
<1>2. ASSUME NEW o \in Said', o.type # "RESPONSE" PROVE o.n <= said'[o.src]
  <2>1. o \in Msg /\ o.n <= said[o.src]
    BY <1>1, <1>2, SaidFrom DEF OrderInv, SaidInOrder
  <2>2. o.src \in Actors /\ o.n \in Nat /\ said[o.src] \in Nat
    BY <2>1 DEF Msg, DataOK
  <2> QED
    BY <2>1, <2>2
<1>3. SaidInOrder'
  BY <1>2 DEF OrderInv, SaidInOrder
<1>4. OrderKept'
  BY OrderlyKept DEF OrderInv, Received
<1> QED
  BY <1>1, <1>3, <1>4 DEF OrderInv

LEMMA OrderHandle ==
    ASSUME DataOK, OrderInv, NEW a \in Actors, NEW m \in Msg, Handles(a, m)
    PROVE  OrderInv'
<1>1. /\ ToSet(inbox[a]) = ToSet(inbox'[a]) \cup {m}
      /\ ToSet(got'[a]) = ToSet(got[a]) \cup {m}
      /\ \A b \in Actors : b # a => inbox'[b] = inbox[b] /\ got'[b] = got[b]
      /\ \A b \in Actors : Received(b)' = Received(b)
      /\ Said' = Said
  BY HandleMoves
<1>2. UNCHANGED <<send, log, said>>
  BY DEF Handles
<1>3. Delivered'
  BY <1>1, <1>2 DEF OrderInv, Delivered
<1>4. SaidInOrder'
  BY <1>1, <1>2 DEF OrderInv, SaidInOrder
<1>5. OrderKept'
  BY <1>1, OrderlyKept DEF OrderInv
<1> QED
  BY <1>3, <1>4, <1>5 DEF OrderInv

LEMMA OrderDispatch ==
    ASSUME DataOK, OrderInv, NEW a \in Actors, NEW m \in Msg, Dispatches(a, m)
    PROVE  OrderInv'
<1>1. /\ ToSet(send[a]) = ToSet(send'[a]) \cup {m}
      /\ send'[a] = Tail(send[a])
      /\ \A b \in Actors : b # a => send'[b] = send[b]
      /\ ToSet(log') = ToSet(log) \cup {m}
      /\ Said' = Said
  BY SendShrinks
<1>2. UNCHANGED <<got, said>> /\ log' = Append(log, m) /\ m = Head(send[a])
      /\ send[a] # <<>>
  BY DEF Dispatches
<1>3. \A b \in Actors : ToSet(inbox'[b]) \subseteq ToSet(inbox[b]) \cup {m}
  <2> TAKE b \in Actors
  <2>1. ToSet(inbox'[b]) = ToSet(inbox[b])
          \cup (IF Copies(b, m) = 0 THEN {} ELSE {m})
    BY DispatchDelivers
  <2> QED
    BY <2>1
<1>4. Delivered'
  BY <1>1, <1>2, <1>3 DEF OrderInv, Delivered
<1>5. \A l \in ToSet(log) : Before(l, m)
  BY <1>1 DEF OrderInv, SaidInOrder
<1>6. InOrder(log')
  <2>1. log \in Seq(Msg) /\ InOrder(log)
    BY DEF DataOK, OrderInv, SaidInOrder
  <2>2. InOrder(Append(log, m))
    BY <1>5, <2>1, OrderOps
  <2> QED
    BY <1>2, <2>2
<1>7. InOrder(send'[a]) /\ \A o \in ToSet(send'[a]) : Before(m, o)
  <2>1. send[a] \in Seq(Msg) /\ InOrder(send[a])
    BY DEF DataOK, OrderInv, SaidInOrder
  <2>2. /\ InOrder(Tail(send[a]))
        /\ \A o \in ToSet(Tail(send[a])) : Before(Head(send[a]), o)
    BY <1>2, <2>1, OrderOps
  <2> QED
    BY <1>1, <1>2, <2>2
<1>8. ASSUME NEW b \in Actors, NEW l \in ToSet(log'), NEW o \in ToSet(send'[b])
      PROVE  Before(l, o)
  <2>1. CASE l \in ToSet(log)
    <3>1. o \in ToSet(send[b])
      BY <1>1
    <3> QED
      BY <2>1, <3>1 DEF OrderInv, SaidInOrder
  <2>2. CASE l = m
    <3>1. CASE b = a
      BY <1>7, <2>2, <3>1
    <3>2. CASE b # a
      <4>1. m.src = a /\ o.src = b
        BY <1>1, <3>2 DEF OrderInv, Delivered
      <4> QED
        BY <2>2, <3>2, <4>1 DEF Before
    <3> QED
      BY <3>1, <3>2
  <2> QED
    BY <1>1, <2>1, <2>2
<1>9. SaidInOrder'
  <2>1. \A b \in Actors : InOrder(send'[b])
    BY <1>1, <1>7 DEF OrderInv, SaidInOrder
  <2>2. \A o \in Said' : o.type # "RESPONSE" => o.n <= said'[o.src]
    BY <1>1, <1>2 DEF OrderInv, SaidInOrder
  <2> QED
    BY <1>6, <1>8, <2>1, <2>2 DEF SaidInOrder
<1>10. ASSUME NEW b \in Actors PROVE Orderly(Received(b)')
  <2>1. PICK q \in Seq(Msg) : q = Received(b)
    BY ReceivedType
  <2>2. Orderly(q)
    BY <2>1, OrderlyKept DEF OrderInv
  <2>3. \A x \in ToSet(q) : NotAfter(x, m)
    <3> TAKE x \in ToSet(q)
    <3>1. x \in ToSet(log) /\ x \in Msg
      BY <2>1, ReceivedType, SetOps DEF OrderInv, Delivered
    <3>2. Before(x, m) /\ x.n \in Nat /\ m.n \in Nat
      BY <1>5, <3>1 DEF Msg
    <3> QED
      BY <3>2 DEF Before, NotAfter
  <2>4. PICK k \in Nat : k = Copies(b, m) /\ k \in 0..2
    BY CopiesBound
  <2>5. Orderly(Grown(q, m, k))
    BY <2>2, <2>3, <2>4, GrownOrderly
  <2> QED
    BY <2>1, <2>4, <2>5, DispatchDelivers
<1>11. OrderKept'
  BY <1>10, OrderlyKept
<1> QED
  BY <1>4, <1>9, <1>11 DEF OrderInv

LEMMA OrderStep == TypeOK /\ OrderInv /\ [Next]_vars => OrderInv'
<1> SUFFICES ASSUME TypeOK, OrderInv, [Next]_vars PROVE OrderInv'
  OBVIOUS
<1>0. DataOK
  BY TypeParts
<1>1. CASE UNCHANGED quietVars
  <2>1. UNCHANGED <<send, inbox, got, log, said>>
    BY <1>1 DEF quietVars
  <2>2. \A b \in Actors : said'[b] \in Nat /\ said[b] <= said'[b]
    BY <1>0, <2>1 DEF DataOK
  <2> QED
    BY <1>0, <2>1, <2>2, OrderQuiet
<1>2. CASE DispatchMsg
  BY <1>0, <1>2, Dispatched, OrderDispatch
<1>3. ASSUME NEW a \in Actors, Handle(a) PROVE OrderInv'
  BY <1>0, <1>3, Handled, OrderHandle
<1>4. ASSUME NEW a \in Actors, Speak(a) PROVE OrderInv'
  <2>1. /\ said' = [said EXCEPT ![a] = @ + 1]
        /\ UNCHANGED <<inbox, got, log>>
        /\ \/ UNCHANGED send
           \/ \E m \in Msg : Tells(a, m) \/ Asks(a, m)
    BY <1>0, <1>4, Spoken
  <2>2. CASE UNCHANGED send
    <3>1. \A b \in Actors : said'[b] \in Nat /\ said[b] <= said'[b]
      <4>1. said \in [Actors -> Nat]
        BY <1>0 DEF DataOK
      <4> QED
        BY <2>1, <4>1
    <3> QED
      BY <1>0, <2>1, <2>2, <3>1, OrderQuiet
  <2>3. ASSUME NEW m \in Msg, Tells(a, m) \/ Asks(a, m) PROVE OrderInv'
    <3>1. /\ m.src = a /\ m.n = said[a] + 1
          /\ send' = [send EXCEPT ![a] = Append(@, m)]
      BY <2>3 DEF Tells, Asks
    <3> QED
      BY <1>0, <2>1, <3>1, OrderSay
  <2> QED
    BY <2>1, <2>2, <2>3
<1>5. ASSUME NEW a \in Actors, Response(a) PROVE OrderInv'
  <2>1. PICK req \in ToSet(got[a]), m \in Msg : Responds(a, req, m)
    BY <1>0, <1>5, Responded
  <2>2. /\ m.src = a /\ m.type = "RESPONSE"
        /\ send' = [send EXCEPT ![a] = Append(@, m)]
        /\ UNCHANGED <<inbox, got, log, said>>
    BY <2>1 DEF Responds
  <2> QED
    BY <1>0, <2>2, OrderSay
<1> QED
  BY <1>1, <1>2, <1>3, <1>4, <1>5, Steps

-----------------------------------------------------------------------------
(* Copies.                                                                  *)

LEMMA CopiesCounted ==
    ASSUME NEW b, NEW x
    PROVE  /\ CopiesOf(b, x) = Count(Received(b), x)
           /\ CopiesOf(b, x)' = Count(Received(b)', x)
  BY DEF CopiesOf, Count

(* What is dispatched was never received before.                            *)
LEMMA NewCopies ==
    ASSUME DataOK, OrderInv, NEW a \in Actors, NEW m \in Msg, Dispatches(a, m),
           NEW b \in Actors
    PROVE  /\ \A x \in ToSet(log) :
                x.type # "RESPONSE" => CopiesOf(b, x)' = CopiesOf(b, x)
           /\ m.type # "RESPONSE" => CopiesOf(b, m)' = Copies(b, m)
<1>1. PICK q \in Seq(Msg) : q = Received(b) /\ ToSet(q) \subseteq ToSet(log)
  BY ReceivedType DEF OrderInv, Delivered
<1>2. PICK k \in Nat : k = Copies(b, m) /\ k \in 0..2
  BY CopiesBound
<1>3. \A x : /\ Count(q, x) \in Nat
             /\ Count(Grown(q, m, k), x) = Count(q, x) + (IF m = x THEN k ELSE 0)
             /\ x \notin ToSet(q) => Count(q, x) = 0
  <2> TAKE x
  <2>1. Count(q, x) \in Nat /\ (x \notin ToSet(q) => Count(q, x) = 0)
    BY CountAppend
  <2>2. Count(Grown(q, m, k), x) = Count(q, x) + (IF m = x THEN k ELSE 0)
    BY <1>2, CountGrown
  <2> QED
    BY <2>1, <2>2
<1>4. Received(b)' = Grown(q, m, k)
  BY <1>1, <1>2, DispatchDelivers
<1>5. m.type # "RESPONSE" => m \notin ToSet(log)
  <2>1. m \in ToSet(send[a])
    BY SendShrinks
  <2>2. m \in ToSet(log) => Before(m, m)
    BY <2>1 DEF OrderInv, SaidInOrder
  <2>3. m.n \in Nat
    BY DEF Msg
  <2> QED
    BY <2>2, <2>3 DEF Before
<1>6. ASSUME NEW x \in ToSet(log), x.type # "RESPONSE"
      PROVE  CopiesOf(b, x)' = CopiesOf(b, x)
  <2>1. m # x
    BY <1>5, <1>6
  <2>2. Count(Grown(q, m, k), x) = Count(q, x)
    BY <1>3, <2>1
  <2> QED
    BY <1>1, <1>4, <2>2, CopiesCounted
<1>7. ASSUME m.type # "RESPONSE" PROVE CopiesOf(b, m)' = Copies(b, m)
  <2>1. m \notin ToSet(q)
    BY <1>1, <1>5, <1>7
  <2>2. Count(Grown(q, m, k), m) = k
    BY <1>3, <2>1
  <2> QED
    BY <1>2, <1>4, <2>2, CopiesCounted
<1> QED
  BY <1>6, <1>7

LEMMA Recorded ==
    ASSUME DataOK, SubsExact, NEW b, NEW p, NEW name
    PROVE  <<<<p, name>>, b>> \in subs
             <=> SubscribedBefore(Len(log) + 1, b, p, name)
<1> DEFINE n == Len(log)
<1>1. n \in Nat /\ ToSet(log) = { log[i] : i \in 1..n }
  BY LenProperties, SetOps DEF DataOK
<1>2. <<<<p, name>>, b>> \in subs
        <=> \E o \in ToSet(log) : /\ o.type = "SUB" /\ Local(o.mode)
                                  /\ o.dst = p /\ o.name = name /\ o.src = b
  BY DEF SubsExact, SubTopic
<1> HIDE DEF n
<1>3. 1 .. (n + 1) - 1 = 1..n
  BY <1>1
<1>4. SubscribedBefore(n + 1, b, p, name)
        <=> \E o \in ToSet(log) : /\ o.type = "SUB" /\ Local(o.mode)
                                  /\ o.dst = p /\ o.name = name /\ o.src = b
  BY <1>1, <1>3 DEF SubscribedBefore
<1> QED
  BY <1>2, <1>4 DEF n

LEMMA EarlierSame ==
    ASSUME DataOK, NEW m \in Msg, log' = Append(log, m),
           NEW i \in 1 .. Len(log) + 1, NEW b, NEW p, NEW name
    PROVE  SubscribedBefore(i, b, p, name)' <=> SubscribedBefore(i, b, p, name)
<1>1. /\ Len(log) \in Nat
      /\ \A j \in 1..Len(log) : log'[j] = log[j]
  BY LenProperties, AppendProperties DEF DataOK
<1>2. \A j \in 1 .. i - 1 : j \in 1..Len(log)
  BY <1>1
<1> QED
  BY <1>1, <1>2 DEF SubscribedBefore

(* What the properties promise of the message at place i of the log.        *)
ToSubscriber(i, b, m) ==
    (IF Local(m.mode) /\ SubscribedBefore(i, b, m.src, m.name) THEN 1 ELSE 0)
    + (IF Remote(m.mode) /\ b = Node THEN 1 ELSE 0)
ToTheNode(i, m) ==
    IF \/ ~Remote(m.mode)
       \/ Local(m.mode) /\ SubscribedBefore(i, m.src, m.dst, m.name)
    THEN 0 ELSE 1

Kept(i, m) ==
    /\ m.type = "PUB" => \A b \in Actors : CopiesOf(b, m) = ToSubscriber(i, b, m)
    /\ m.type = "SUB" /\ Node # None => CopiesOf(Node, m) = ToTheNode(i, m)

LEMMA CopyParts ==
    /\ CopyInv <=> SubsExact /\ \A i \in 1..Len(log) : Kept(i, log[i])
    /\ CopyInv' <=> SubsExact' /\ \A i \in 1..Len(log') : Kept(i, log[i])'
  BY DEF CopyInv, SubscribersGetOne, NodeIsTold, Kept, ToSubscriber, ToTheNode

LEMMA CopyDispatch ==
    ASSUME DataOK, OrderInv, CopyInv, NEW a \in Actors, NEW m \in Msg,
           Dispatches(a, m)
    PROVE  CopyInv'
<1>1. /\ log \in Seq(Msg) /\ log' = Append(log, m)
      /\ subs' = IF m.type = "SUB" /\ Local(m.mode)
                 THEN subs \cup {<<SubTopic(m), m.src>>} ELSE subs
      /\ ToSet(log') = ToSet(log) \cup {m}
  <2>1. ToSet(log') = ToSet(log) \cup {m}
    BY SendShrinks
  <2> QED
    BY <2>1 DEF DataOK, Dispatches
<1>2. PICK n \in Nat : n = Len(log)
  BY <1>1, LenProperties
<1>3. /\ Len(log') = n + 1 /\ log'[n + 1] = m
      /\ \A i \in 1..n : log'[i] = log[i]
  BY <1>1, <1>2, AppendProperties
<1>4. SubsExact /\ \A i \in 1..n : Kept(i, log[i])
  BY <1>2, CopyParts
<1>5. SubsExact'
  BY <1>1, <1>4 DEF SubsExact
<1>6. \A i \in 1 .. n + 1 : \A b, p, name :
        SubscribedBefore(i, b, p, name)' <=> SubscribedBefore(i, b, p, name)
  BY <1>1, <1>2, EarlierSame
<1>7. Node # None => Node \in Actors
  BY MessagesAssumption
<1>8. ASSUME NEW x, NEW i \in 1 .. n + 1
      PROVE  /\ \A b : ToSubscriber(i, b, x)' = ToSubscriber(i, b, x)
             /\ ToTheNode(i, x)' = ToTheNode(i, x)
  BY <1>6 DEF ToSubscriber, ToTheNode
<1>9. ASSUME NEW i \in 1..n, NEW x \in Msg, x = log[i] PROVE Kept(i, x)'
  <2>1. x \in ToSet(log)
    BY <1>1, <1>2, <1>9, SetOps
  <2>2. i \in 1 .. n + 1
    BY <1>2
  <2>3. Kept(i, x)
    BY <1>4, <1>9
  <2>4. ASSUME NEW b \in Actors, x.type # "RESPONSE"
        PROVE  CopiesOf(b, x)' = CopiesOf(b, x)
    BY <2>1, <2>4, NewCopies
  <2>5. x.type = "PUB" => \A b \in Actors : CopiesOf(b, x)' = ToSubscriber(i, b, x)'
    BY <1>8, <2>2, <2>3, <2>4 DEF Kept
  <2>6. x.type = "SUB" /\ Node # None => CopiesOf(Node, x)' = ToTheNode(i, x)'
    BY <1>7, <1>8, <2>2, <2>3, <2>4 DEF Kept
  <2> QED
    BY <2>5, <2>6 DEF Kept
<1>10. Kept(n + 1, m)'
  <2>0. n + 1 \in 1 .. n + 1
    BY <1>2
  <2>1. ASSUME NEW b \in Actors, m.type = "PUB"
        PROVE  CopiesOf(b, m)' = ToSubscriber(n + 1, b, m)
    <3>1. b \in Subscribers(m) <=> SubscribedBefore(n + 1, b, m.src, m.name)
      BY <1>2, <1>4, Recorded DEF Subscribers, PubTopic
    <3>2. CopiesOf(b, m)' = PubCopies(b, m)
      BY <2>1, NewCopies DEF Copies
    <3> QED
      BY <3>1, <3>2 DEF PubCopies, ToSubscriber, ToNode
  <2>2. ASSUME m.type = "SUB", Node # None
        PROVE  CopiesOf(Node, m)' = ToTheNode(n + 1, m)
    <3>1. Known(m) <=> SubscribedBefore(n + 1, m.src, m.dst, m.name)
      BY <1>2, <1>4, Recorded DEF Known, SubTopic
    <3>2. CopiesOf(Node, m)' = SubCopies(Node, m)
      BY <1>7, <2>2, NewCopies DEF Copies
    <3> QED
      BY <3>1, <3>2 DEF SubCopies, ToTheNode, ToNode
  <2>3. m.type = "PUB" =>
          \A b \in Actors : CopiesOf(b, m)' = ToSubscriber(n + 1, b, m)'
    BY <1>8, <2>0, <2>1
  <2>4. m.type = "SUB" /\ Node # None => CopiesOf(Node, m)' = ToTheNode(n + 1, m)'
    BY <1>8, <2>0, <2>2
  <2> QED
    BY <2>3, <2>4 DEF Kept
<1>11. ASSUME NEW i \in 1..Len(log') PROVE Kept(i, log[i])'
  <2>1. CASE i = n + 1
    <3>1. log'[i] = m
      BY <1>3, <2>1
    <3> QED
      BY <1>10, <2>1, <3>1 DEF Kept, ToSubscriber, ToTheNode
  <2>2. CASE i # n + 1
    <3>1. i \in 1..n
      BY <1>2, <1>3, <2>2
    <3>2. PICK x \in Msg : x = log[i]
      BY <1>1, <1>2, <3>1, ElementOfSeq
    <3>3. Kept(i, x)' /\ log'[i] = x
      BY <1>3, <1>9, <3>1, <3>2
    <3> QED
      BY <3>3 DEF Kept, ToSubscriber, ToTheNode
  <2> QED
    BY <2>1, <2>2
<1> QED
  BY <1>5, <1>11, CopyParts

LEMMA CopyStep == TypeOK /\ OrderInv /\ CopyInv /\ [Next]_vars => CopyInv'
<1> SUFFICES ASSUME TypeOK, OrderInv, CopyInv, [Next]_vars PROVE CopyInv'
  OBVIOUS
<1>0. DataOK
  BY TypeParts
<1>1. ASSUME UNCHANGED <<log, subs>>,
             \A b \in Actors : Received(b)' = Received(b)
      PROVE  CopyInv'
  <2>1. SubsExact' <=> SubsExact
    BY <1>1 DEF SubsExact
  <2>2. ASSUME NEW x, NEW i PROVE Kept(i, x)' <=> Kept(i, x)
    <3>1. \A b \in Actors : CopiesOf(b, x)' = CopiesOf(b, x)
      BY <1>1, CopiesCounted
    <3>2. Node # None => CopiesOf(Node, x)' = CopiesOf(Node, x)
      BY <3>1, MessagesAssumption
    <3> QED
      BY <1>1, <3>1, <3>2 DEF Kept, ToSubscriber, ToTheNode, SubscribedBefore
  <2>3. ASSUME NEW i \in 1..Len(log) PROVE Kept(i, log[i])'
    <3>1. PICK x : x = log[i]
      OBVIOUS
    <3>2. Kept(i, x)
      BY <3>1, CopyParts
    <3>3. Kept(i, x)' /\ log'[i] = x
      BY <1>1, <2>2, <3>1, <3>2
    <3> QED
      BY <3>3 DEF Kept, ToSubscriber, ToTheNode
  <2> QED
    BY <1>1, <2>1, <2>3, CopyParts
<1>2. CASE DispatchMsg
  BY <1>0, <1>2, Dispatched, CopyDispatch
<1>3. ASSUME NEW a \in Actors, Handle(a) PROVE CopyInv'
  <2>1. PICK m \in Msg : Handles(a, m)
    BY <1>0, <1>3, Handled
  <2>2. UNCHANGED <<log, subs>>
    BY <2>1 DEF Handles
  <2> QED
    BY <1>0, <1>1, <2>1, <2>2, HandleMoves
<1>4. ASSUME UNCHANGED <<log, subs, got, inbox>> PROVE CopyInv'
  BY <1>1, <1>4 DEF Received
<1>5. ASSUME NEW a \in Actors, Speak(a) PROVE CopyInv'
  <2>1. UNCHANGED <<log, subs, got, inbox>>
    BY <1>0, <1>5, Spoken
  <2> QED
    BY <1>4, <2>1
<1>6. ASSUME NEW a \in Actors, Response(a) PROVE CopyInv'
  <2>1. UNCHANGED <<log, subs, got, inbox>>
    BY <1>0, <1>6, Responded DEF Responds
  <2> QED
    BY <1>4, <2>1
<1>7. CASE UNCHANGED quietVars
  BY <1>4, <1>7 DEF quietVars
<1> QED
  BY <1>2, <1>3, <1>5, <1>6, <1>7, Steps

-----------------------------------------------------------------------------
(* Requests and responses.                                                  *)

Asking(m) == m.type \in {"REQUEST", "RESPONSE"}

CallbackOK(a) ==
    /\ \A i, j \in DOMAIN callbacks[a] :
          callbacks[a][i] = callbacks[a][j] => i = j
    /\ \A j \in 1..Len(ran[a]) :
          /\ ran[a][j].call \in 1..said[a]
          /\ \A i \in DOMAIN callbacks[a] : ran[a][j].call # callbacks[a][i]

(* Nobody but the node gets a request or a response to somebody else.       *)
ReachesAsker(a, m) ==
    m.type \in {"REQUEST", "RESPONSE"} => a = m.dst \/ (a = Node /\ Remote(m.mode))

Ran(a, n) == \E i \in 1..Len(ran[a]) : ran[a][i].call = n

(* An answer that a callback of a for call c may run with.                  *)
Usable(a, c, m) ==
    IF m.dst = a THEN m.n = c /\ m.src \in {script[a][c].to, Node}
    ELSE a = Node /\ Remote(m.mode)

Answers(a, m) == m.type = "RESPONSE" /\ m.dst = a

RanOK(a) ==
    /\ \A i, j \in 1..Len(ran[a]) : ran[a][i].call = ran[a][j].call => i = j
    /\ \A i \in 1..Len(ran[a]) : Usable(a, ran[a][i].call, ran[a][i].answer)
    /\ \A m \in ToSet(got[a]) : Answers(a, m) => Ran(a, m.n)

LEMMA AskParts ==
    /\ AskInv <=> /\ \A m \in Said : Asking(m) => Matched(m)
                  /\ \A a \in Actors :
                       /\ CallbackOK(a) /\ RanOK(a)
                       /\ \A m \in ToSet(got[a]) \cup ToSet(inbox[a]) : ReachesAsker(a, m)
    /\ AskInv' <=> /\ \A m \in Said' : Asking(m) => Matched(m)'
                   /\ \A a \in Actors :
                        /\ CallbackOK(a)' /\ RanOK(a)'
                        /\ \A m \in ToSet(got'[a]) \cup ToSet(inbox'[a]) :
                             ReachesAsker(a, m)
  BY DEF AskInv, CallbackInv, MatchInv, CallbacksMatch, Asking, CallbackOK, RanOK,
         ReachesAsker, Ran, Usable, Answers

LEMMA MatchedParts ==
    ASSUME NEW m, NEW a, a = Asker(m)
    PROVE  /\ Matched(m) <=>
                /\ a \in Actors /\ m.n \in 1..said[a] /\ m.id \in 0..nextId[a] - 1
                /\ IF m.id \in DOMAIN callbacks[a] THEN callbacks[a][m.id] = m.n
                   ELSE Ran(a, m.n)
                /\ IF m.type = "REQUEST" THEN m.dst = script[a][m.n].to
                   ELSE m.src \in {script[a][m.n].to, Node}
           /\ Matched(m)' <=>
                /\ a \in Actors /\ m.n \in 1..said'[a] /\ m.id \in 0..nextId'[a] - 1
                /\ IF m.id \in DOMAIN callbacks'[a] THEN callbacks'[a][m.id] = m.n
                   ELSE Ran(a, m.n)'
                /\ IF m.type = "REQUEST" THEN m.dst = script'[a][m.n].to
                   ELSE m.src \in {script'[a][m.n].to, Node}
  BY DEF Matched, Asker, Asked, Ran

(* Nothing happens to callbacks, and what is said new matches.              *)
LEMMA AskSame ==
    ASSUME DataOK, AskInv,
           UNCHANGED <<inbox, got, callbacks, nextId, ran, script>>,
           \A b \in Actors : said'[b] \in Nat /\ said[b] <= said'[b],
           \A m \in Said' : m \in Said \/ (Asking(m) => Matched(m))
    PROVE  AskInv'
<1>1. \A b \in Actors : 1..said[b] \subseteq 1..said'[b]
  BY DEF DataOK
<1>2. ASSUME NEW m \in Said', Asking(m) PROVE Matched(m)'
  <2>1. Matched(m)
    BY <1>2, AskParts
  <2>2. PICK b : b = Asker(m)
    OBVIOUS
  <2>3. Ran(b, m.n)' <=> Ran(b, m.n)
    BY DEF Ran
  <2> QED
    BY <1>1, <2>1, <2>2, <2>3, MatchedParts
<1>3. ASSUME NEW b \in Actors
      PROVE  /\ CallbackOK(b)' /\ RanOK(b)'
             /\ \A m \in ToSet(got'[b]) \cup ToSet(inbox'[b]) : ReachesAsker(b, m)
  <2>1. CallbackOK(b) /\ RanOK(b)
    BY AskParts
  <2>2. CallbackOK(b)'
    BY <1>1, <2>1 DEF CallbackOK
  <2>3. RanOK(b)'
    BY <2>1 DEF RanOK, Ran, Usable
  <2> QED
    BY <2>2, <2>3, AskParts
<1> QED
  BY <1>2, <1>3, AskParts

LEMMA AskRequest ==
    ASSUME DataOK, \A b \in Actors : Waiting(b), AskInv,
           NEW a \in Actors, NEW m \in Msg, Asks(a, m),
           said' = [said EXCEPT ![a] = @ + 1], said[a] < Len(script[a]),
           UNCHANGED <<inbox, got, ran, script, log>>
    PROVE  AskInv'
<1>1. PICK k \in Nat, c \in Nat : k = nextId[a] /\ c = said[a]
  BY DEF DataOK
<1>2. PICK cb : cb = callbacks[a]
  OBVIOUS
<1>3. /\ m.src = a /\ m.n = c + 1 /\ m.type = "REQUEST" /\ m.id = k
      /\ m.dst = script[a][c + 1].to
      /\ send' = [send EXCEPT ![a] = Append(@, m)]
      /\ nextId' = [nextId EXCEPT ![a] = @ + 1]
      /\ callbacks' = [callbacks EXCEPT ![a] = Insert(@, k, c + 1)]
  BY <1>1 DEF Asks
<1>4. /\ nextId'[a] = k + 1 /\ said'[a] = c + 1
      /\ \A b \in Actors : b # a => /\ nextId'[b] = nextId[b]
                                    /\ callbacks'[b] = callbacks[b]
                                    /\ said'[b] = said[b]
      /\ callbacks'[a] = Insert(cb, k, c + 1)
  BY <1>1, <1>2, <1>3 DEF DataOK
<1>5. /\ DOMAIN callbacks'[a] = DOMAIN cb \cup {k}
      /\ callbacks'[a][k] = c + 1
      /\ \A i \in DOMAIN cb : i # k => callbacks'[a][i] = cb[i]
  BY <1>4 DEF Insert
<1>6. /\ \A i \in DOMAIN cb : i \in 0 .. k - 1 /\ cb[i] \in 1..c
      /\ k \notin DOMAIN cb
  <2>1. \A i \in DOMAIN cb : i \in 0 .. k - 1 /\ cb[i] \in 1..c
    BY <1>1, <1>2 DEF Waiting
  <2> QED
    BY <2>1
<1>7. Said' = Said \cup {m}
  BY <1>3, SendGrows
<1>8. \A b \in Actors : \A n : Ran(b, n)' <=> Ran(b, n)
  BY DEF Ran
<1>9. ASSUME NEW x \in Said', Asking(x) PROVE Matched(x)'
  <2>1. CASE x = m
    <3>1. Asker(x) = a
      BY <1>3, <2>1 DEF Asker
    <3>2. m.n \in 1..said'[a] /\ m.id \in 0..nextId'[a] - 1
      BY <1>3, <1>4
    <3> QED
      BY <1>3, <1>5, <2>1, <3>1, <3>2, MatchedParts
  <2>2. CASE x \in Said
    <3>1. PICK b : b = Asker(x)
      OBVIOUS
    <3>2. Matched(x)
      BY <1>9, <2>2, AskParts
    <3>3. /\ b \in Actors /\ x.n \in 1..said[b] /\ x.id \in 0..nextId[b] - 1
          /\ IF x.id \in DOMAIN callbacks[b] THEN callbacks[b][x.id] = x.n
             ELSE Ran(b, x.n)
      BY <3>1, <3>2, MatchedParts
    <3>4. CASE b # a
      <4>1. /\ nextId'[b] = nextId[b] /\ callbacks'[b] = callbacks[b]
            /\ said'[b] = said[b] /\ (Ran(b, x.n)' <=> Ran(b, x.n))
        BY <1>4, <1>8, <3>3, <3>4
      <4> QED
        BY <3>1, <3>2, <4>1, MatchedParts
    <3>5. CASE b = a
      <4>1. x.id # k /\ x.n \in 1..said'[a] /\ x.id \in 0..nextId'[a] - 1
        BY <1>1, <1>4, <3>3, <3>5
      <4>2. x.id \in DOMAIN callbacks'[a] <=> x.id \in DOMAIN cb
        BY <1>5, <4>1
      <4>3. IF x.id \in DOMAIN callbacks'[a] THEN callbacks'[a][x.id] = x.n
            ELSE Ran(a, x.n)'
        BY <1>2, <1>5, <1>8, <3>3, <3>5, <4>1, <4>2
      <4> QED
        BY <3>1, <3>2, <3>5, <4>1, <4>3, MatchedParts
    <3> QED
      BY <3>4, <3>5
  <2> QED
    BY <1>7, <2>1, <2>2
<1>10. ASSUME NEW b \in Actors PROVE CallbackOK(b)'
  <2>1. CallbackOK(b)
    BY AskParts
  <2>2. CASE b # a
    BY <1>4, <2>1, <2>2 DEF CallbackOK
  <2>3. CASE b = a
    <3>1. ASSUME NEW i \in DOMAIN callbacks'[a], NEW j \in DOMAIN callbacks'[a],
                 callbacks'[a][i] = callbacks'[a][j]
          PROVE  i = j
      <4>1. i \in DOMAIN cb /\ j \in DOMAIN cb => i = j
        BY <1>2, <1>5, <1>6, <2>1, <2>3, <3>1 DEF CallbackOK
      <4>2. \A x \in DOMAIN cb : callbacks'[a][x] # c + 1
        BY <1>5, <1>6
      <4> QED
        BY <1>5, <3>1, <4>1, <4>2
    <3>2. ASSUME NEW j \in 1..Len(ran[a])
          PROVE  /\ ran[a][j].call \in 1..said'[a]
                 /\ \A i \in DOMAIN callbacks'[a] : ran[a][j].call # callbacks'[a][i]
      <4>1. /\ ran[a][j].call \in 1..c
            /\ \A i \in DOMAIN cb : ran[a][j].call # cb[i]
        BY <1>1, <1>2, <2>1, <2>3 DEF CallbackOK
      <4>2. ran[a][j].call \in 1 .. c + 1 /\ ran[a][j].call # c + 1
        BY <4>1
      <4> QED
        BY <1>4, <1>5, <1>6, <4>1, <4>2
    <3> QED
      BY <2>3, <3>1, <3>2 DEF CallbackOK
  <2> QED
    BY <2>2, <2>3
<1>11. ASSUME NEW b \in Actors
       PROVE  /\ RanOK(b)'
              /\ \A x \in ToSet(got'[b]) \cup ToSet(inbox'[b]) : ReachesAsker(b, x)
  <2>1. RanOK(b)
    BY AskParts
  <2>2. RanOK(b)'
    BY <2>1 DEF RanOK, Ran, Usable
  <2> QED
    BY <2>2, AskParts
<1> QED
  BY <1>9, <1>10, <1>11, AskParts

LEMMA AskDispatch ==
    ASSUME DataOK, AskInv, NEW a \in Actors, NEW m \in Msg, Dispatches(a, m)
    PROVE  AskInv'
<1>1. UNCHANGED <<nextId, callbacks, script, said, got, ran>>
  BY DEF Dispatches
<1>2. Said' = Said /\ m \in Said
  BY SendShrinks DEF Said
<1>3. ASSUME NEW x \in Said', Asking(x) PROVE Matched(x)'
  <2>1. Matched(x)
    BY <1>2, <1>3, AskParts
  <2>2. PICK b : b = Asker(x)
    OBVIOUS
  <2>3. Ran(b, x.n)' <=> Ran(b, x.n)
    BY <1>1 DEF Ran
  <2> QED
    BY <1>1, <2>1, <2>2, <2>3, MatchedParts
<1>4. ASSUME NEW b \in Actors, Copies(b, m) # 0 PROVE ReachesAsker(b, m)
  BY <1>4 DEF Copies, Routed, ToActor, ToNode, ReachesAsker
<1>5. ASSUME NEW b \in Actors
      PROVE  /\ CallbackOK(b)' /\ RanOK(b)'
             /\ \A x \in ToSet(got'[b]) \cup ToSet(inbox'[b]) : ReachesAsker(b, x)
  <2>1. CallbackOK(b) /\ RanOK(b)
    BY AskParts
  <2>2. CallbackOK(b)'
    BY <1>1, <2>1 DEF CallbackOK
  <2>3. RanOK(b)'
    BY <1>1, <2>1 DEF RanOK, Ran, Usable
  <2>4. ToSet(inbox'[b]) = ToSet(inbox[b])
          \cup (IF Copies(b, m) = 0 THEN {} ELSE {m})
    BY DispatchDelivers
  <2>5. \A x \in ToSet(got[b]) \cup ToSet(inbox[b]) : ReachesAsker(b, x)
    BY AskParts
  <2>6. \A x \in ToSet(inbox'[b]) : ReachesAsker(b, x)
    BY <1>4, <2>4, <2>5
  <2> QED
    BY <1>1, <2>2, <2>3, <2>5, <2>6
<1> QED
  BY <1>3, <1>5, AskParts

LEMMA AskHandle ==
    ASSUME DataOK, \A b \in Actors : Waiting(b), AskInv, Delivered,
           NEW a \in Actors, NEW m \in Msg, Handles(a, m)
    PROVE  AskInv'
<1>1. UNCHANGED <<nextId, script, said>>
  BY DEF Handles
<1>2. /\ ToSet(inbox[a]) = ToSet(inbox'[a]) \cup {m}
      /\ ToSet(got'[a]) = ToSet(got[a]) \cup {m}
      /\ \A b \in Actors : b # a => inbox'[b] = inbox[b] /\ got'[b] = got[b]
      /\ Said' = Said
  BY HandleMoves
<1>3. ASSUME NEW b \in Actors, NEW x \in ToSet(got'[b]) \cup ToSet(inbox'[b])
      PROVE  ReachesAsker(b, x)
  BY <1>2, AskParts
<1>4. m \in Said
  BY <1>2 DEF Delivered, Said
<1>5. CASE /\ UNCHANGED <<ran, callbacks>>
           /\ m.type = "RESPONSE" => m.id \notin DOMAIN callbacks[a]
  <2>1. \A b \in Actors : \A n : Ran(b, n)' <=> Ran(b, n)
    BY <1>5 DEF Ran
  <2>2. ASSUME NEW x \in Said', Asking(x) PROVE Matched(x)'
    <3>1. PICK b : b = Asker(x)
      OBVIOUS
    <3>2. Matched(x)
      BY <1>2, <2>2, AskParts
    <3>3. Ran(b, x.n)' <=> Ran(b, x.n)
      BY <1>5 DEF Ran
    <3> QED
      BY <1>1, <1>5, <3>1, <3>2, <3>3, MatchedParts
  <2>3. Answers(a, m) => Ran(a, m.n)
    <3> SUFFICES ASSUME m.type = "RESPONSE", m.dst = a PROVE Ran(a, m.n)
      BY DEF Answers
    <3>1. Matched(m)
      BY <1>4, AskParts DEF Asking
    <3>2. Asker(m) = a
      BY DEF Asker
    <3> QED
      BY <1>5, <3>1, <3>2, MatchedParts
  <2>4. ASSUME NEW b \in Actors PROVE CallbackOK(b)' /\ RanOK(b)'
    <3>1. CallbackOK(b) /\ RanOK(b)
      BY AskParts
    <3>2. CallbackOK(b)'
      BY <1>1, <1>5, <3>1 DEF CallbackOK
    <3>3. \A x \in ToSet(got'[b]) : Answers(b, x) => Ran(b, x.n)'
      BY <1>2, <2>1, <2>3, <3>1 DEF RanOK
    <3>4. RanOK(b)'
      BY <1>1, <1>5, <3>1, <3>3 DEF RanOK, Usable
    <3> QED
      BY <3>2, <3>4
  <2> QED
    BY <1>3, <2>2, <2>4, AskParts
<1>6. CASE /\ m.type = "RESPONSE" /\ m.id \in DOMAIN callbacks[a]
           /\ ran' = [ran EXCEPT ![a] =
                 Append(@, [call |-> callbacks[a][m.id], answer |-> m])]
           /\ callbacks' = [callbacks EXCEPT ![a] = Erase(@, m.id)]
  <2>1. Usable(a, callbacks[a][m.id], m)
    <3>1. Matched(m) /\ ReachesAsker(a, m)
      BY <1>2, <1>4, <1>6, AskParts DEF Asking
    <3>2. CASE m.dst = a
      <4>1. Asker(m) = a
        BY <1>6, <3>2 DEF Asker
      <4>2. callbacks[a][m.id] = m.n /\ m.src \in {script[a][m.n].to, Node}
        BY <1>6, <3>1, <4>1, MatchedParts
      <4> QED
        BY <3>2, <4>2 DEF Usable
    <3>3. CASE m.dst # a
      BY <1>6, <3>1, <3>3 DEF Usable, ReachesAsker
    <3> QED
      BY <3>2, <3>3
  <2>2. PICK c \in Nat : /\ c = callbacks[a][m.id] /\ c \in 1..said[a]
                         /\ Usable(a, c, m)
    <3>1. callbacks[a][m.id] \in 1..said[a] /\ said[a] \in Nat
      BY <1>6 DEF Waiting, DataOK
    <3> QED
      BY <2>1, <3>1
  <2>3. PICK q \in Seq([call : Nat, answer : Msg]) : q = ran[a]
    BY DEF DataOK
  <2>4. PICK r \in [call : Nat, answer : Msg] : r = [call |-> c, answer |-> m]
    OBVIOUS
  <2>5. PICK l \in Nat : l = Len(q)
    BY LenProperties
  <2>6. /\ ran'[a] = Append(q, r)
        /\ \A b \in Actors : b # a => ran'[b] = ran[b] /\ callbacks'[b] = callbacks[b]
        /\ callbacks'[a] = Erase(callbacks[a], m.id)
    BY <1>6, <2>2, <2>3, <2>4 DEF DataOK
  <2>7. /\ Len(ran'[a]) = l + 1
        /\ ran'[a][l + 1].call = c /\ ran'[a][l + 1].answer = m
        /\ \A i \in 1..l : ran'[a][i] = ran[a][i]
    <3>1. /\ Len(Append(q, r)) = l + 1 /\ Append(q, r)[l + 1] = r
          /\ \A i \in 1..l : Append(q, r)[i] = q[i]
      BY <2>5, AppendProperties
    <3> QED
      BY <2>3, <2>4, <2>6, <3>1
  <2>8. /\ DOMAIN callbacks'[a] = DOMAIN callbacks[a] \ {m.id}
        /\ \A i \in DOMAIN callbacks'[a] : callbacks'[a][i] = callbacks[a][i]
    BY <2>6 DEF Erase
  <2>9. /\ \A n : Ran(a, n) => Ran(a, n)'
        /\ Ran(a, c)'
    <3>1. \A i \in 1..l : i \in 1 .. l + 1
      OBVIOUS
    <3>2. l + 1 \in 1 .. l + 1
      OBVIOUS
    <3>3. ASSUME NEW n, Ran(a, n) PROVE Ran(a, n)'
      <4>1. PICK i \in 1..l : ran[a][i].call = n
        BY <2>3, <2>5, <3>3 DEF Ran
      <4> QED
        BY <2>7, <3>1, <4>1 DEF Ran
    <3>4. Ran(a, c)'
      BY <2>7, <3>2 DEF Ran
    <3> QED
      BY <3>3, <3>4
  <2>10. /\ \A i, j \in DOMAIN callbacks[a] :
               callbacks[a][i] = callbacks[a][j] => i = j
         /\ \A j \in 1..l :
              /\ ran[a][j].call \in 1..said[a]
              /\ \A i \in DOMAIN callbacks[a] : ran[a][j].call # callbacks[a][i]
    BY <2>3, <2>5, AskParts DEF CallbackOK
  <2>11. CallbackOK(a)'
    <3>1. ASSUME NEW i \in DOMAIN callbacks'[a], NEW j \in DOMAIN callbacks'[a],
                 callbacks'[a][i] = callbacks'[a][j]
          PROVE  i = j
      BY <2>8, <2>10, <3>1
    <3>2. ASSUME NEW j \in 1 .. l + 1
          PROVE  /\ ran'[a][j].call \in 1..said[a]
                 /\ \A i \in DOMAIN callbacks'[a] :
                      ran'[a][j].call # callbacks'[a][i]
      <4>1. CASE j = l + 1
        <5>1. ran'[a][j].call = c
          BY <2>7, <4>1
        <5>2. ASSUME NEW i \in DOMAIN callbacks'[a] PROVE c # callbacks'[a][i]
          BY <1>6, <2>2, <2>8, <2>10
        <5> QED
          BY <2>2, <5>1, <5>2
      <4>2. CASE j # l + 1
        <5>1. j \in 1..l
          BY <4>2
        <5>2. ran'[a][j] = ran[a][j]
          BY <2>7, <5>1
        <5>3. /\ ran[a][j].call \in 1..said[a]
              /\ \A i \in DOMAIN callbacks[a] : ran[a][j].call # callbacks[a][i]
          BY <2>10, <5>1
        <5> QED
          BY <2>8, <5>2, <5>3
      <4> QED
        BY <4>1, <4>2
    <3> QED
      BY <1>1, <2>7, <3>1, <3>2 DEF CallbackOK
  <2>12. RanOK(a)'
    <3>1. RanOK(a)
      BY AskParts
    <3>2. /\ \A i, j \in 1..l : ran[a][i].call = ran[a][j].call => i = j
          /\ \A i \in 1..l : Usable(a, ran[a][i].call, ran[a][i].answer)
      BY <2>3, <2>5, <3>1 DEF RanOK
    <3>3. \A i \in 1..l : ran[a][i].call # c
      BY <1>6, <2>2, <2>10
    <3>4. \A i \in 1 .. l + 1 : i \in 1..l \/ i = l + 1
      OBVIOUS
    <3>5. ASSUME NEW i \in 1 .. l + 1, NEW j \in 1 .. l + 1,
                 ran'[a][i].call = ran'[a][j].call
          PROVE  i = j
      BY <2>7, <3>2, <3>3, <3>4, <3>5
    <3>6. ASSUME NEW i \in 1 .. l + 1
          PROVE  Usable(a, ran'[a][i].call, ran'[a][i].answer)
      <4>1. CASE i = l + 1
        BY <2>2, <2>7, <4>1
      <4>2. CASE i # l + 1
        <5>1. i \in 1..l
          BY <4>2
        <5> QED
          BY <2>7, <3>2, <5>1
      <4> QED
        BY <4>1, <4>2
    <3>7. ASSUME NEW x \in ToSet(got'[a]), Answers(a, x) PROVE Ran(a, x.n)'
      <4>1. CASE x = m
        <5>1. m.n = c
          BY <2>2, <3>7, <4>1 DEF Answers, Usable
        <5> QED
          BY <2>9, <4>1, <5>1
      <4>2. CASE x \in ToSet(got[a])
        <5>1. Ran(a, x.n)
          BY <3>1, <3>7, <4>2 DEF RanOK
        <5> QED
          BY <2>9, <5>1
      <4> QED
        BY <1>2, <4>1, <4>2
    <3> QED
      BY <1>1, <2>7, <3>5, <3>6, <3>7 DEF RanOK, Usable
  <2>13. ASSUME NEW b \in Actors PROVE CallbackOK(b)' /\ RanOK(b)'
    <3>1. CASE b = a
      BY <2>11, <2>12, <3>1
    <3>2. CASE b # a
      <4>1. CallbackOK(b) /\ RanOK(b) /\ got'[b] = got[b]
        BY <1>2, <3>2, AskParts
      <4>2. ran'[b] = ran[b] /\ callbacks'[b] = callbacks[b]
        BY <2>6, <3>2
      <4>3. CallbackOK(b)'
        BY <1>1, <4>1, <4>2 DEF CallbackOK
      <4>4. RanOK(b)'
        <5>1. UNCHANGED script
          BY <1>1
        <5>2. \A n : Ran(b, n)' <=> Ran(b, n)
          BY ONLY <4>2 DEF Ran
        <5>3. \A x \in ToSet(got[b]) : Answers(b, x) => Ran(b, x.n)'
          BY ONLY <4>1, <5>2 DEF RanOK
        <5>4. \A i, j \in 1..Len(ran[b]) : ran[b][i].call = ran[b][j].call => i = j
          BY ONLY <4>1 DEF RanOK
        <5>5. \A i \in 1..Len(ran[b]) :
                 Usable(b, ran[b][i].call, ran[b][i].answer)'
          BY ONLY <4>1, <4>2, <5>1 DEF RanOK, Usable
        <5> QED
          BY ONLY <4>1, <4>2, <5>1, <5>3, <5>4, <5>5, Zenon DEF RanOK
      <4> QED
        BY <4>3, <4>4
    <3> QED
      BY <3>1, <3>2
  <2>14. ASSUME NEW x \in Said', Asking(x) PROVE Matched(x)'
    <3>1. PICK b : b = Asker(x)
      OBVIOUS
    <3>2. Matched(x)
      BY <1>2, <2>14, AskParts
    <3>3. /\ b \in Actors
          /\ IF x.id \in DOMAIN callbacks[b] THEN callbacks[b][x.id] = x.n
             ELSE Ran(b, x.n)
      BY <3>1, <3>2, MatchedParts
    <3>4. CASE b # a
      <4>1. callbacks'[b] = callbacks[b] /\ ran'[b] = ran[b]
        BY <2>6, <3>3, <3>4
      <4>2. Ran(b, x.n)' <=> Ran(b, x.n)
        BY <4>1 DEF Ran
      <4> QED
        BY <1>1, <3>1, <3>2, <4>1, <4>2, MatchedParts
    <3>5. CASE b = a
      <4>1. IF x.id \in DOMAIN callbacks'[a] THEN callbacks'[a][x.id] = x.n
            ELSE Ran(a, x.n)'
        BY <1>6, <2>2, <2>8, <2>9, <3>3, <3>5
      <4> QED
        BY <1>1, <3>1, <3>2, <3>5, <4>1, MatchedParts
    <3> QED
      BY <3>4, <3>5
  <2> QED
    BY <1>3, <2>13, <2>14, AskParts
<1> QED
  BY <1>5, <1>6 DEF Handles

LEMMA AskStep == TypeOK /\ OrderInv /\ AskInv /\ [Next]_vars => AskInv'
<1> SUFFICES ASSUME TypeOK, OrderInv, AskInv, [Next]_vars PROVE AskInv'
  OBVIOUS
<1>0. /\ DataOK /\ \A b \in Actors : Waiting(b)
      /\ Delivered
  BY TypeParts DEF OrderInv
<1>s. said \in [Actors -> Nat]
  BY <1>0 DEF DataOK
<1>1. CASE UNCHANGED quietVars
  <2>1. /\ UNCHANGED <<inbox, got, callbacks, nextId, ran, script>>
        /\ UNCHANGED <<said, send, log>>
    BY <1>1 DEF quietVars
  <2>2. Said' = Said /\ \A b \in Actors : said'[b] \in Nat /\ said[b] <= said'[b]
    BY <1>s, <2>1 DEF Said
  <2> QED
    BY <1>0, <2>1, <2>2, AskSame
<1>2. CASE DispatchMsg
  BY <1>0, <1>2, Dispatched, AskDispatch
<1>3. ASSUME NEW a \in Actors, Handle(a) PROVE AskInv'
  BY <1>0, <1>3, Handled, AskHandle
<1>4. ASSUME NEW a \in Actors, Speak(a) PROVE AskInv'
  <2>1. /\ said' = [said EXCEPT ![a] = @ + 1] /\ said[a] < Len(script[a])
        /\ UNCHANGED <<inbox, got, ran, script, log>>
        /\ \/ UNCHANGED <<send, nextId, callbacks>>
           \/ \E m \in Msg : Tells(a, m) \/ Asks(a, m)
    BY <1>0, <1>4, Spoken
  <2>2. \A b \in Actors : said'[b] \in Nat /\ said[b] <= said'[b]
    BY <1>s, <2>1
  <2>3. CASE UNCHANGED <<send, nextId, callbacks>>
    <3>1. Said' = Said
      BY <2>1, <2>3 DEF Said
    <3> QED
      BY <1>0, <2>1, <2>2, <2>3, <3>1, AskSame
  <2>4. ASSUME NEW m \in Msg, Tells(a, m) PROVE AskInv'
    <3>1. /\ send' = [send EXCEPT ![a] = Append(@, m)]
          /\ UNCHANGED <<nextId, callbacks>> /\ ~Asking(m)
      BY <2>4 DEF Tells, Asking
    <3>2. Said' = Said \cup {m}
      BY <1>0, <2>1, <3>1, SendGrows
    <3> QED
      BY <1>0, <2>1, <2>2, <3>1, <3>2, AskSame
  <2>5. ASSUME NEW m \in Msg, Asks(a, m) PROVE AskInv'
    BY <1>0, <2>1, <2>5, AskRequest
  <2> QED
    BY <2>1, <2>3, <2>4, <2>5
<1>5. ASSUME NEW a \in Actors, Response(a) PROVE AskInv'
  <2>1. PICK req \in ToSet(got[a]), m \in Msg : Responds(a, req, m)
    BY <1>0, <1>5, Responded
  <2>2. /\ req.type = "REQUEST" /\ m.type = "RESPONSE" /\ m.src = a
        /\ m.dst = req.src /\ m.n = req.n /\ m.id = req.id
        /\ send' = [send EXCEPT ![a] = Append(@, m)]
        /\ UNCHANGED <<inbox, got, callbacks, nextId, ran, script>>
        /\ UNCHANGED <<said, log>>
    BY <2>1 DEF Responds
  <2>3. Said' = Said \cup {m}
    BY <1>0, <2>2, SendGrows
  <2>4. Matched(req) /\ ReachesAsker(a, req)
    <3>1. req \in Said
      BY <1>0 DEF Delivered, Said
    <3> QED
      BY <2>2, <3>1, AskParts DEF Asking
  <2>5. PICK b : b = Asker(req)
    OBVIOUS
  <2>6. Asker(m) = b /\ a \in {req.dst, Node}
    BY <2>2, <2>4, <2>5 DEF Asker, ReachesAsker
  <2>7. Matched(m)
    BY <2>2, <2>4, <2>5, <2>6, MatchedParts
  <2>8. \A c \in Actors : said'[c] \in Nat /\ said[c] <= said'[c]
    BY <1>s, <2>2
  <2> QED
    BY <1>0, <2>2, <2>3, <2>7, <2>8, AskSame
<1> QED
  BY <1>1, <1>2, <1>3, <1>4, <1>5, Steps

-----------------------------------------------------------------------------
(* The theorems.                                                            *)

LEMMA InvInit == Init => IInv
<1> SUFFICES ASSUME Init PROVE OrderInv /\ CopyInv /\ AskInv
  BY TypeInit DEF IInv
<1>1. /\ Len(<<>>) = 0 /\ ToSet(<<>>) = {} /\ <<>> \o <<>> = <<>>
      /\ \A i : i \notin 1..0
  BY DEF ToSet
<1>2. /\ log = <<>> /\ subs = {}
      /\ \A a \in Actors : /\ got[a] = <<>> /\ inbox[a] = <<>> /\ send[a] = <<>>
                           /\ ran[a] = <<>> /\ callbacks[a] = <<>>
  BY DEF Init
<1>3. \A a \in Actors : DOMAIN callbacks[a] = {}
  BY <1>2
<1>4. Said = {}
  BY <1>1, <1>2 DEF Said
<1>5. \A a \in Actors : Received(a) = <<>>
  BY <1>1, <1>2 DEF Received
<1>6. OrderInv
  <2>1. Delivered
    BY <1>1, <1>2 DEF Delivered
  <2>2. SaidInOrder
    BY <1>1, <1>2, <1>4 DEF SaidInOrder, InOrder
  <2>3. OrderKept
    BY <1>1, <1>5 DEF OrderKept
  <2> QED
    BY <2>1, <2>2, <2>3 DEF OrderInv
<1>7. CopyInv
  <2>1. SubsExact
    BY <1>1, <1>2 DEF SubsExact
  <2>2. \A i \in 1..Len(log) : Kept(i, log[i])
    BY <1>1, <1>2
  <2> QED
    BY <2>1, <2>2, CopyParts
<1>8. AskInv
  <2>1. ASSUME NEW a \in Actors PROVE CallbackOK(a) /\ RanOK(a)
    BY <1>1, <1>2, <1>3 DEF CallbackOK, RanOK
  <2> QED
    BY <1>1, <1>2, <1>4, <2>1, AskParts
<1> QED
  BY <1>6, <1>7, <1>8

(* The inductive invariant holds in every state: what was said is numbered  *)
(* in order on its way, the table of subscriptions is what the dispatched   *)
(* ones make it, every request and response belongs to a callback.          *)
THEOREM IInvHolds == Spec => []IInv
<1>1. IInv /\ [Next]_vars => IInv'
  BY TypeStep, OrderStep, CopyStep, AskStep DEF IInv
<1> QED
  BY <1>1, InvInit, PTL DEF Spec

(* The state keeps its types, and every callback that waits belongs to a    *)
(* request its actor made, under an id it gave out (ActorContext::Request). *)
THEOREM TypeCorrect == Spec => []TypeOK
<1>1. IInv => TypeOK
  BY DEF IInv
<1> QED
  BY <1>1, IInvHolds, PTL

(* Whatever way App::DispatchMsg routes messages, an actor receives what    *)
(* another one said, copies included, in the order it was said.             *)
THEOREM OrderIsKept == Spec => []OrderKept
<1>1. IInv => OrderKept
  BY DEF IInv, OrderInv
<1> QED
  BY <1>1, IInvHolds, PTL

(* A publication reaches each local subscriber once and the node if it is   *)
(* to leave the process, however often and in whatever modes actors         *)
(* subscribed (MsgManager::AddSubInfo, DispatchPubMsg).                     *)
THEOREM SubscribersGetOneCopy == Spec => []SubscribersGetOne
<1>1. IInv => SubscribersGetOne
  BY DEF IInv, CopyInv
<1> QED
  BY <1>1, IInvHolds, PTL

(* The node hears once of each subscription that is to leave the process,   *)
(* unless it is kHybrid and repeats a local one (App::DispatchMsg).         *)
THEOREM TheNodeIsTold == Spec => []NodeIsTold
<1>1. IInv => NodeIsTold
  BY DEF IInv, CopyInv
<1> QED
  BY <1>1, IInvHolds, PTL

(* A callback runs at most once.  If the answer is to its actor it is one   *)
(* to its own request from someone who was asked; nobody but the node runs  *)
(* one with an answer to somebody else, which was to leave the process.  An *)
(* answer to an actor that finds no callback comes after one that did       *)
(* (ActorContext::Request, Response, ProcResponse).                         *)
THEOREM CallbacksAreMatched == Spec => []CallbacksMatch
<1>1. IInv => CallbacksMatch
  BY DEF IInv, AskInv
<1> QED
  BY <1>1, IInvHolds, PTL

=============================================================================
