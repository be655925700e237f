---------------------------- MODULE MailboxProof ----------------------------
(****************************************************************************)
(* Facts about lists of any kind, induction over them included, about the   *)
(* mailbox operators, for messages and limits of any value, and about the   *)
(* numbered messages of a pair that pass through mailboxes.                 *)
(****************************************************************************)
EXTENDS Mailbox, Command, Flow, Selection, SequenceTheorems, WellFoundedInduction,
        TLAPS

(* Delivering a message keeps a queue of messages and never leaves it empty *)
(* (Mailbox::Recv ends with push_back).                                     *)
LEMMA RecvType ==
    ASSUME NEW S, NEW q \in Seq(S), NEW m \in S, NEW k \in Int
    PROVE  /\ Recv(q, m, k) \in Seq(S)
           /\ Recv(q, m, k) # <<>>
<1>1. CASE k > 0 /\ Len(q) >= k
  <2> DEFINE p == SubSeq(q, Len(q) - k + 2, Len(q))
  <2>1. Len(q) \in Nat
    BY LenProperties
  <2>2. \A i \in Len(q) - k + 2 .. Len(q) : q[i] \in S
    BY <1>1, <2>1, ElementOfSeq
  <2>3. p \in Seq(S)
    BY <2>1, <2>2, SubSeqProperties
  <2> QED
    BY <1>1, <2>3, AppendProperties DEF Recv
<1>2. CASE ~(k > 0 /\ Len(q) >= k)
  BY <1>2, AppendProperties DEF Recv
<1> QED
  BY <1>1, <1>2

(* A pending limit holds: a queue within its limit is within it afterwards. *)
LEMMA RecvBound ==
    ASSUME NEW S, NEW q \in Seq(S), NEW m \in S, NEW k \in Int,
           k > 0, Len(q) <= k
    PROVE  Len(Recv(q, m, k)) <= k
<1>1. Len(q) \in Nat
  BY LenProperties
<1>2. CASE Len(q) >= k
  <2> DEFINE p == SubSeq(q, Len(q) - k + 2, Len(q))
  <2>1. \A i \in Len(q) - k + 2 .. Len(q) : q[i] \in S
    BY <1>1, <1>2, ElementOfSeq
  <2>2. p \in Seq(S) /\ Len(p) = k - 1
    BY <1>1, <1>2, <2>1, SubSeqProperties
  <2>3. Len(Append(p, m)) = k
    BY <2>2, AppendProperties
  <2> QED
    BY <1>2, <2>3 DEF Recv
<1>3. CASE ~(Len(q) >= k)
  BY <1>1, <1>3, AppendProperties DEF Recv
<1> QED
  BY <1>2, <1>3

LEMMA BatchLenBound ==
    ASSUME NEW S, NEW q \in Seq(S), NEW k \in Int
    PROVE  /\ BatchLen(q, k) \in 0..Len(q)
           /\ k > 0 => BatchLen(q, k) <= k
           /\ q # <<>> => BatchLen(q, k) > 0
<1>1. Len(q) \in Nat /\ (q # <<>> => Len(q) # 0)
  BY LenProperties, EmptySeq
<1> QED
  BY <1>1 DEF BatchLen, Min2

(* MoveToRun splits recv in two queues of messages.                         *)
LEMMA MoveType ==
    ASSUME NEW S, NEW q \in Seq(S), NEW r \in Seq(S), NEW k \in Int
    PROVE  /\ RecvAfterMove(q, k) \in Seq(S)
           /\ RunAfterMove(q, r, k) \in Seq(S)
<1> DEFINE n == BatchLen(q, k)
           b == SubSeq(q, 1, n)
<1>1. n \in 0..Len(q) /\ Len(q) \in Nat
  BY BatchLenBound, LenProperties
<1>2. /\ \A i \in 1..n : q[i] \in S
      /\ \A i \in n + 1 .. Len(q) : q[i] \in S
  BY <1>1, ElementOfSeq
<1>3. b \in Seq(S) /\ RecvAfterMove(q, k) \in Seq(S)
  BY <1>1, <1>2, SubSeqProperties DEF RecvAfterMove
<1>4. b \o r \in Seq(S) /\ r \o b \in Seq(S)
  BY <1>3, ConcatProperties
<1> QED
  BY <1>3, <1>4 DEF RunAfterMove

(* MoveToRun moves messages: none is lost or doubled.                       *)
LEMMA MoveLen ==
    ASSUME NEW S, NEW q \in Seq(S), NEW r \in Seq(S), NEW k \in Int
    PROVE  /\ Len(RecvAfterMove(q, k)) = Len(q) - BatchLen(q, k)
           /\ Len(RunAfterMove(q, r, k)) = BatchLen(q, k) + Len(r)
<1> DEFINE n == BatchLen(q, k)
           b == SubSeq(q, 1, n)
<1>1. n \in 0..Len(q) /\ Len(q) \in Nat
  BY BatchLenBound, LenProperties
<1>2. /\ \A i \in 1..n : q[i] \in S
      /\ \A i \in n + 1 .. Len(q) : q[i] \in S
  BY <1>1, ElementOfSeq
<1>3. b \in Seq(S) /\ Len(b) = n /\ Len(RecvAfterMove(q, k)) = Len(q) - n
  BY <1>1, <1>2, SubSeqProperties DEF RecvAfterMove
<1>4. Len(b \o r) = n + Len(r) /\ Len(r \o b) = Len(r) + n
  BY <1>3, ConcatProperties
<1>5. Len(r) \in Nat
  BY LenProperties
<1> QED
  BY <1>1, <1>3, <1>4, <1>5 DEF RunAfterMove

-----------------------------------------------------------------------------
(* Queues of any kind.                                                      *)

(* A second element goes behind the first.                                  *)
LEMMA AppendPair ==
    ASSUME NEW c, NEW d
    PROVE  Append(<<c>>, d) = <<c, d>>
<1> DEFINE S == {c, d}
           t == Append(<<c>>, d)
<1>1. <<c>> \in Seq(S) /\ Len(<<c>>) = 1 /\ <<c>>[1] = c
  OBVIOUS
<1>2. <<c, d>> \in Seq(S) /\ Len(<<c, d>>) = 2
      /\ <<c, d>>[1] = c /\ <<c, d>>[2] = d
  OBVIOUS
<1>3. t \in Seq(S) /\ Len(t) = 2 /\ t[1] = c /\ t[2] = d
  BY <1>1, AppendProperties
<1>4. \A i \in 1..2 : t[i] = <<c, d>>[i]
  BY <1>2, <1>3
<1> QED
  BY <1>2, <1>3, <1>4, SeqEqual

(* What the channel operations do to the few contents a channel can have.   *)
LEMMA ToMainOps ==
    /\ Append(<<>>, "kIdle") = <<"kIdle">>
    /\ Append(<<>>, "kQuit") = <<"kQuit">>
    /\ Append(<<"kIdle">>, "kQuit") = <<"kIdle", "kQuit">>
    /\ Tail(<<"kIdle">>) = <<>> /\ Tail(<<"kQuit">>) = <<>>
    /\ Tail(<<"kIdle", "kQuit">>) = <<"kQuit">>
    /\ Head(<<"kIdle">>) = "kIdle" /\ Head(<<"kQuit">>) = "kQuit"
    /\ Head(<<"kIdle", "kQuit">>) = "kIdle"
    /\ Len(<<>>) = 0 /\ Len(<<"kIdle">>) = 1 /\ Len(<<"kQuit">>) = 1
    /\ Len(<<"kIdle", "kQuit">>) = 2
    /\ <<"kIdle">> # <<>> /\ <<"kQuit">> # <<>>
    /\ <<"kIdle">> # <<"kQuit">>
    /\ <<"kIdle", "kQuit">> \notin {<<>>, <<"kIdle">>, <<"kQuit">>}
<1>1. /\ Append(<<>>, "kIdle") = <<"kIdle">>
      /\ Append(<<>>, "kQuit") = <<"kQuit">>
      /\ Append(<<"kIdle">>, "kQuit") = <<"kIdle", "kQuit">>
  BY AppendPair
<1>2. /\ Tail(<<"kIdle">>) = <<>> /\ Tail(<<"kQuit">>) = <<>>
      /\ Tail(<<"kIdle", "kQuit">>) = <<"kQuit">>
  OBVIOUS
<1>3. /\ Head(<<"kIdle">>) = "kIdle" /\ Head(<<"kQuit">>) = "kQuit"
      /\ Head(<<"kIdle", "kQuit">>) = "kIdle"
  OBVIOUS
<1>4. /\ Len(<<>>) = 0 /\ Len(<<"kIdle">>) = 1 /\ Len(<<"kQuit">>) = 1
      /\ Len(<<"kIdle", "kQuit">>) = 2
  OBVIOUS
<1>5. /\ <<"kIdle">> # <<>> /\ <<"kQuit">> # <<>>
      /\ <<"kIdle">> # <<"kQuit">>
      /\ <<"kIdle", "kQuit">> \notin {<<>>, <<"kIdle">>, <<"kQuit">>}
  BY SMT
<1> QED
  BY <1>1, <1>2, <1>3, <1>4, <1>5, Zenon

(* Not twice in a queue.                                                    *)
Once(q)  == \A i, j \in 1..Len(q) : q[i] = q[j] => i = j

LEMMA AppendOnce ==
    ASSUME NEW S, NEW q \in Seq(S), NEW a \in S
    PROVE  /\ \A b : In(Append(q, a), b) <=> In(q, b) \/ b = a
           /\ Once(q) /\ ~In(q, a) => Once(Append(q, a))
<1> DEFINE r == Append(q, a)
<1>1. /\ Len(q) \in Nat /\ Len(r) = Len(q) + 1
      /\ \A i \in 1..Len(q) : r[i] = q[i]
      /\ r[Len(q) + 1] = a
  BY AppendProperties, LenProperties
<1> HIDE DEF r
<1>2. \A b : In(r, b) <=> In(q, b) \/ b = a
  BY <1>1 DEF In
<1>3. Once(q) /\ ~In(q, a) => Once(r)
  BY <1>1 DEF In, Once
<1> QED
  BY <1>2, <1>3 DEF r

(* Taking the first element leaves the others.                              *)
LEMMA TailIn ==
    ASSUME NEW S, NEW q \in Seq(S), q # <<>>
    PROVE  \A b : In(q, b) <=> b = Head(q) \/ In(Tail(q), b)
<1> DEFINE t == Tail(q)
           n == Len(q)
<1>1. /\ n \in Nat \ {0} /\ Len(t) = n - 1 /\ Head(q) = q[1]
      /\ \A i \in 1 .. n - 1 : t[i] = q[i + 1]
  BY HeadTailProperties, EmptySeq, LenProperties
<1>2. /\ \A b : In(q, b) <=> \E i \in 1..n : q[i] = b
      /\ \A b : In(t, b) <=> \E i \in 1 .. n - 1 : t[i] = b
  BY <1>1 DEF In
<1> HIDE DEF t, n
<1>3. ASSUME NEW i \in 1..n PROVE i = 1 \/ \E j \in 1 .. n - 1 : t[j] = q[i]
  <2>1. CASE i > 1
    <3>1. i - 1 \in 1 .. n - 1 /\ (i - 1) + 1 = i
      BY <1>1, <2>1
    <3>2. t[i - 1] = q[i]
      BY <1>1, <3>1
    <3> QED
      BY <3>1, <3>2
  <2>2. ~(i > 1) => i = 1
    BY <1>1
  <2> QED
    BY <2>1, <2>2
<1>4. 1 \in 1..n /\ \A j \in 1 .. n - 1 : j + 1 \in 1..n
  BY <1>1
<1>5. ASSUME NEW b PROVE In(q, b) <=> b = Head(q) \/ In(t, b)
  BY <1>1, <1>2, <1>3, <1>4
<1> QED
  BY <1>5 DEF t

(* What a worker reads from its channel: after the answer no other answer   *)
(* is left, after a kQuit what was there stays.                             *)
LEMMA ToOwnerTail ==
    ASSUME NEW A, "kQuit" \notin A, NEW n \in Nat,
           NEW q \in ToOwnerStates(A, n), q # <<>>
    PROVE  /\ Tail(q) \in ToOwnerStates(A, n)
           /\ Head(q) \in A \cup {"kQuit"}
           /\ Head(q) \in A => ~Answered(Tail(q), A)
           /\ \A b : In(q, b) <=> b = Head(q) \/ In(Tail(q), b)
<1> DEFINE S == A \cup {"kQuit"}
           t == Tail(q)
           l == Len(q)
<1>1. /\ q \in Seq(S)
      /\ \A i, j \in 1..l : q[i] \in A /\ q[j] \in A => i = j
      /\ l <= n + (IF Answered(q, A) THEN 1 ELSE 0)
  BY DEF ToOwnerStates
<1>2. /\ l \in Nat \ {0} /\ t \in Seq(S) /\ Len(t) = l - 1
      /\ Head(q) = q[1] /\ Head(q) \in S
      /\ \A i \in 1 .. l - 1 : t[i] = q[i + 1]
  BY <1>1, HeadTailProperties, EmptySeq, LenProperties
<1>3. \A b : In(q, b) <=> b = Head(q) \/ In(t, b)
  BY <1>1, TailIn
<1> HIDE DEF S, t, l
<1>4. \A i, j \in 1 .. Len(t) : t[i] \in A /\ t[j] \in A => i = j
  <2> SUFFICES ASSUME NEW i \in 1..Len(t), NEW j \in 1..Len(t), t[i] \in A, t[j] \in A
               PROVE  i = j
    OBVIOUS
  <2>1. i + 1 \in 1..l /\ j + 1 \in 1..l /\ q[i + 1] \in A /\ q[j + 1] \in A
    BY <1>2
  <2>2. i + 1 = j + 1
    BY <1>1, <2>1
  <2> QED
    BY <1>2, <2>2
<1>5. Head(q) \in A => ~Answered(t, A)
  <2> SUFFICES ASSUME q[1] \in A, NEW a \in A, NEW i \in 1..Len(t), t[i] = a PROVE FALSE
    BY <1>2 DEF Answered, In
  <2>1. 1 \in 1..l /\ i + 1 \in 1..l /\ q[i + 1] \in A
    BY <1>2
  <2>2. 1 = i + 1
    BY <1>1, <2>1
  <2> QED
    BY <1>2, <2>2
<1>6. Len(t) <= n + (IF Answered(t, A) THEN 1 ELSE 0)
  <2>1. CASE Head(q) \in A
    <3>1. l <= n + 1
      BY <1>1, <1>2
    <3> QED
      BY <1>2, <1>5, <2>1, <3>1
  <2>2. CASE Head(q) \notin A
    <3>1. Answered(q, A) <=> Answered(t, A)
      BY <1>3, <2>2 DEF Answered
    <3> QED
      BY <1>1, <1>2, <3>1
  <2> QED
    BY <2>1, <2>2
<1>7. t \in ToOwnerStates(A, n)
  BY <1>2, <1>4, <1>6 DEF ToOwnerStates, S
<1> QED
  BY <1>2, <1>3, <1>5, <1>7 DEF S, t

(* Another call of Quit writes its kQuit.                                   *)
LEMMA ToOwnerQuit ==
    ASSUME NEW A, "kQuit" \notin A, NEW n \in Nat, NEW q \in ToOwnerStates(A, n)
    PROVE  /\ Append(q, "kQuit") \in ToOwnerStates(A, n + 1)
           /\ \A b : In(Append(q, "kQuit"), b) <=> In(q, b) \/ b = "kQuit"
<1> DEFINE S == A \cup {"kQuit"}
           r == Append(q, "kQuit")
           l == Len(q)
<1>1. /\ q \in Seq(S)
      /\ \A i, j \in 1..l : q[i] \in A /\ q[j] \in A => i = j
      /\ l <= n + (IF Answered(q, A) THEN 1 ELSE 0)
  BY DEF ToOwnerStates
<1>2. /\ l \in Nat /\ r \in Seq(S) /\ Len(r) = l + 1 /\ r[l + 1] = "kQuit"
      /\ \A i \in 1..l : r[i] = q[i]
  BY <1>1, AppendProperties, LenProperties
<1>3. \A b : In(r, b) <=> In(q, b) \/ b = "kQuit"
  BY <1>1, AppendOnce
<1> HIDE DEF S, r, l
<1>4. ASSUME NEW i \in 1..Len(r), NEW j \in 1..Len(r), r[i] \in A, r[j] \in A
      PROVE  i = j
  <2>1. i # l + 1 /\ j # l + 1
    BY <1>2, <1>4
  <2>2. i \in 1..l /\ j \in 1..l
    BY <1>2, <2>1
  <2> QED
    BY <1>1, <1>2, <1>4, <2>2
<1>5. Answered(r, A) <=> Answered(q, A)
  BY <1>3 DEF Answered
<1>6. Len(r) <= (n + 1) + (IF Answered(r, A) THEN 1 ELSE 0)
  BY <1>1, <1>2, <1>5
<1>7. r \in ToOwnerStates(A, n + 1)
  BY <1>2, <1>4, <1>6 DEF ToOwnerStates, S
<1> QED
  BY <1>3, <1>7 DEF r

(* The main thread answers a worker that has no answer yet.                 *)
LEMMA ToOwnerAnswer ==
    ASSUME NEW A, "kQuit" \notin A, NEW n \in Nat, NEW q \in ToOwnerStates(A, n),
           NEW a \in A, ~Answered(q, A)
    PROVE  /\ Append(q, a) \in ToOwnerStates(A, n)
           /\ \A b : In(Append(q, a), b) <=> In(q, b) \/ b = a
<1> DEFINE S == A \cup {"kQuit"}
           r == Append(q, a)
           l == Len(q)
<1>1. q \in Seq(S) /\ l <= n
  BY DEF ToOwnerStates
<1>2. /\ l \in Nat /\ r \in Seq(S) /\ Len(r) = l + 1 /\ r[l + 1] = a
      /\ \A i \in 1..l : r[i] = q[i]
  BY <1>1, AppendProperties, LenProperties
<1>3. \A b : In(r, b) <=> In(q, b) \/ b = a
  BY <1>1, AppendOnce
<1>4. \A i \in 1..l : q[i] \notin A
  BY DEF Answered, In
<1> HIDE DEF S, r, l
<1>5. \A i \in 1..Len(r) : r[i] \in A => i = l + 1
  BY <1>2, <1>4
<1>6. Answered(r, A)
  BY <1>3 DEF Answered
<1>7. Len(r) <= n + (IF Answered(r, A) THEN 1 ELSE 0)
  BY <1>1, <1>2, <1>6
<1>8. \A i, j \in 1..Len(r) : r[i] \in A /\ r[j] \in A => i = j
  BY <1>5
<1>9. r \in ToOwnerStates(A, n)
  BY <1>2, <1>7, <1>8 DEF ToOwnerStates, S
<1> QED
  BY <1>3, <1>9 DEF r

LEMMA ToOwnerEmpty ==
    ASSUME NEW A, NEW n \in Nat
    PROVE  /\ <<>> \in ToOwnerStates(A, n) /\ \A b : ~In(<<>>, b)
<1>1. <<>> \in Seq(A \cup {"kQuit"}) /\ Len(<<>>) = 0
  OBVIOUS
<1>2. \A b : ~In(<<>>, b)
  BY <1>1 DEF In
<1>3. ~Answered(<<>>, A)
  BY <1>2 DEF Answered
<1> QED
  BY <1>1, <1>2, <1>3 DEF ToOwnerStates

(* One more call of Quit leaves the channel within its bounds.              *)
LEMMA ToOwnerMore ==
    ASSUME NEW A, NEW n \in Nat, NEW m \in Nat, n <= m
    PROVE  ToOwnerStates(A, n) \subseteq ToOwnerStates(A, m)
  BY LenProperties DEF ToOwnerStates

(* r is f without its k-th element.                                         *)
Without(f, r, k) ==
    /\ Len(f) \in Nat /\ k \in 1..Len(f) /\ Len(r) = Len(f) - 1
    /\ \A i \in 1 .. Len(f) - 1 : r[i] = IF i < k THEN f[i] ELSE f[i + 1]

LEMMA Removal ==
    ASSUME NEW f, NEW r, NEW k, Without(f, r, k), Once(f)
    PROVE  /\ Once(r)
           /\ \A b : In(r, b) <=> In(f, b) /\ b # f[k]
<1> DEFINE n == Len(f)
           l == Len(r)
<1>1. /\ n \in Nat /\ k \in 1..n /\ l = n - 1
      /\ \A i \in 1 .. n - 1 : r[i] = IF i < k THEN f[i] ELSE f[i + 1]
      /\ \A i, j \in 1..n : f[i] = f[j] => i = j
  BY DEF Without, Once
<1>2. /\ Once(r) <=> \A i, j \in 1..l : r[i] = r[j] => i = j
      /\ \A b : In(r, b) <=> \E i \in 1..l : r[i] = b
      /\ \A b : In(f, b) <=> \E i \in 1..n : f[i] = b
  BY DEF Once, In
<1> HIDE DEF n, l
<1>3. \A i, j \in 1..l : r[i] = r[j] => i = j
  BY ONLY <1>1
<1>4. ASSUME NEW i \in 1..l
      PROVE  (\E x \in 1..n : f[x] = r[i]) /\ r[i] # f[k]
  BY ONLY <1>1, <1>4
<1>5. ASSUME NEW i \in 1..n, f[i] # f[k]
      PROVE  \E x \in 1..l : r[x] = f[i]
  <2>1. CASE i < k
    <3>1. i \in 1..l /\ r[i] = f[i]
      BY ONLY <1>1, <1>5, <2>1
    <3> QED
      BY <3>1
  <2>2. CASE i > k
    <3>1. i - 1 \in 1..l /\ r[i - 1] = f[i]
      BY ONLY <1>1, <1>5, <2>2
    <3> QED
      BY <3>1
  <2>3. i # k /\ i \in Int /\ k \in Int
    BY ONLY <1>1, <1>5
  <2> QED
    BY <2>1, <2>2, <2>3
<1> QED
  BY <1>2, <1>3, <1>4, <1>5

-----------------------------------------------------------------------------
(* Induction.  The induction theorems of the library have the formula to be *)
(* proved as a parameter, which the provers cannot instantiate; here it is  *)
(* a set, the set of the numbers or lists of which it is true.              *)

Less == {ss \in Nat \X Nat : ss[1] < ss[2]}

(* A set of numbers has a least one.                                        *)
LEMMA LeastNumber ==
    ASSUME NEW P, P \subseteq Nat, P # {}
    PROVE  \E x \in P : \A y \in P : x <= y
<1>1. IsWellFoundedOn(Less, Nat)
  BY NatLessThanWellFounded, Zenon DEF OpToRel, Less
<1>2. PICK x \in P : \A y \in P : ~(<<y, x>> \in Less)
  BY <1>1, WFMin
<1>3. \A y \in P : ~ (y < x)
  BY <1>2 DEF Less
<1> QED
  BY <1>3

LEMMA InductNat ==
    ASSUME NEW P, 0 \in P, \A n \in Nat : n \in P => n + 1 \in P
    PROVE  Nat \subseteq P
<1> SUFFICES ASSUME NEW n \in Nat, n \notin P PROVE FALSE
  OBVIOUS
<1> DEFINE Q == { k \in Nat : k \notin P }
<1>1. PICK x \in Q : \A y \in Q : x <= y
  BY LeastNumber
<1>2. x # 0 /\ x \in Nat
  BY <1>1
<1>3. x - 1 \in Nat /\ x - 1 \notin Q
  BY <1>1, <1>2
<1>4. (x - 1) + 1 \in P
  BY <1>3
<1>5. (x - 1) + 1 = x
  BY <1>2
<1> QED
  BY <1>1, <1>4, <1>5

LEMMA InductSeq ==
    ASSUME NEW T, NEW P, <<>> \in P,
           \A s \in Seq(T) : \A x \in T : s \in P => Append(s, x) \in P
    PROVE  Seq(T) \subseteq P
<1> DEFINE Q == { n \in Nat : \A s \in Seq(T) : Len(s) = n => s \in P }
<1>1. 0 \in Q
  <2>1. \A s \in Seq(T) : Len(s) = 0 => s = <<>>
    BY EmptySeq
  <2> QED
    BY <2>1
<1>2. ASSUME NEW n \in Nat, n \in Q PROVE n + 1 \in Q
  <2>1. ASSUME NEW s \in Seq(T), Len(s) = n + 1 PROVE s \in P
    <3>1. s # <<>>
      BY <2>1, EmptySeq
    <3>2. PICK r \in Seq(T), x \in T : s = Append(r, x)
      BY <3>1, SequenceEmptyOrAppend
    <3>3. Len(r) = n
      BY <2>1, <3>2, AppendProperties, LenProperties
    <3> QED
      BY <1>2, <3>2, <3>3
  <2> QED
    BY <2>1
<1> HIDE DEF Q
<1>3. Nat \subseteq Q
  BY <1>1, <1>2, InductNat
<1> QED
  BY <1>3, LenProperties DEF Q

-----------------------------------------------------------------------------
(* Taking some elements out of a list.                                      *)

(* What the recursion of OnlyUpTo says, up to the m-th element.             *)
Selects(s, S, f, m) ==
    \A k \in 0..m :
        f[k] = IF k = 0 THEN <<>>
               ELSE IF s[k] \in S THEN Append(f[k - 1], s[k]) ELSE f[k - 1]

(* There is such a function, so OnlyUpTo is one.                            *)
LEMMA SelectionExists ==
    ASSUME NEW s, NEW S, NEW m \in Nat
    PROVE  \E f : /\ f = [k \in 0..m |-> f[k]]
                  /\ Selects(s, S, f, m)
<1> DEFINE Has(n) == \E f : f = [k \in 0..n |-> f[k]] /\ Selects(s, S, f, n)
           P == { n \in Nat : Has(n) }
<1>1. 0 \in P
  <2> DEFINE f == [k \in 0..0 |-> <<>>]
  <2>1. f = [k \in 0..0 |-> f[k]] /\ Selects(s, S, f, 0)
    BY DEF Selects
  <2> QED
    BY <2>1
<1>2. ASSUME NEW n \in Nat, n \in P PROVE n + 1 \in P
  <2>1. PICK f : f = [k \in 0..n |-> f[k]] /\ Selects(s, S, f, n)
    BY <1>2
  <2> DEFINE x == IF s[n + 1] \in S THEN Append(f[n], s[n + 1]) ELSE f[n]
             g == [k \in 0..n + 1 |-> IF k = n + 1 THEN x ELSE f[k]]
  <2>2. g[n + 1] = x /\ \A k \in 0..n : g[k] = f[k]
    OBVIOUS
  <2>3. ASSUME NEW k \in 0..n + 1
        PROVE  g[k] = IF k = 0 THEN <<>>
                      ELSE IF s[k] \in S THEN Append(g[k - 1], s[k]) ELSE g[k - 1]
    <3>1. CASE k = n + 1
      <4>1. k # 0 /\ k - 1 = n /\ g[n] = f[n] /\ n \in 0..n
        BY <2>2, <3>1
      <4> QED
        BY <2>2, <3>1, <4>1
    <3>2. CASE k # n + 1
      <4>1. k \in 0..n /\ (k # 0 => k - 1 \in 0..n)
        BY <3>2
      <4>2. f[k] = IF k = 0 THEN <<>>
                   ELSE IF s[k] \in S THEN Append(f[k - 1], s[k]) ELSE f[k - 1]
        BY <2>1, <4>1 DEF Selects
      <4>3. g[k] = f[k] /\ (k # 0 => g[k - 1] = f[k - 1])
        BY <2>2, <4>1
      <4> HIDE DEF g
      <4> QED
        BY <4>2, <4>3
    <3> QED
      BY <3>1, <3>2
  <2>4. g = [k \in 0..n + 1 |-> g[k]]
    OBVIOUS
  <2> HIDE DEF g
  <2>5. Selects(s, S, g, n + 1)
    BY <2>3 DEF Selects
  <2> QED
    BY <2>4, <2>5
<1> HIDE DEF P
<1>3. m \in P
  BY <1>1, <1>2, InductNat
<1> QED
  BY <1>3 DEF P

LEMMA OnlyUpToDef ==
    ASSUME NEW s, NEW S, Len(s) \in Nat
    PROVE  Selects(s, S, OnlyUpTo(s, S), Len(s))
<1> DEFINE Is(f) == f = [k \in 0..Len(s) |->
              IF k = 0 THEN <<>>
              ELSE IF s[k] \in S THEN Append(f[k - 1], s[k]) ELSE f[k - 1]]
<1>1. PICK f : f = [k \in 0..Len(s) |-> f[k]] /\ Selects(s, S, f, Len(s))
  BY SelectionExists
<1>2. Is(f)
  BY <1>1 DEF Selects
<1>3. Is(OnlyUpTo(s, S))
  BY <1>2 DEF OnlyUpTo
<1> HIDE DEF Is
<1>4. \A g : Is(g) => Selects(s, S, g, Len(s))
  BY DEF Is, Selects
<1> QED
  BY <1>3, <1>4

LEMMA OnlyEmpty == ASSUME NEW S PROVE Only(<<>>, S) = <<>>
<1>1. Len(<<>>) = 0
  BY EmptySeq
<1>2. Selects(<<>>, S, OnlyUpTo(<<>>, S), 0)
  BY <1>1, OnlyUpToDef
<1> QED
  BY <1>1, <1>2 DEF Only, Selects

LEMMA OnlyAppend ==
    ASSUME NEW T, NEW s \in Seq(T), NEW x \in T, NEW S
    PROVE  Only(Append(s, x), S) = IF x \in S THEN Append(Only(s, S), x) ELSE Only(s, S)
<1> DEFINE n == Len(s)
           t == Append(s, x)
           f == OnlyUpTo(s, S)
           g == OnlyUpTo(t, S)
<1>1. /\ n \in Nat /\ Len(t) = n + 1 /\ t[n + 1] = x
      /\ \A i \in 1..n : t[i] = s[i]
  BY AppendProperties, LenProperties
<1>2. Selects(s, S, f, n)
  BY <1>1, OnlyUpToDef
<1>3. Selects(t, S, g, n + 1)
  <2> DEFINE L == Len(t)
  <2>1. L = n + 1 /\ L \in Nat
    BY <1>1
  <2>2. Selects(t, S, g, L)
    BY <2>1, OnlyUpToDef
  <2> HIDE DEF L, n, t, f, g
  <2> QED
    BY <2>1, <2>2
<1> HIDE DEF n, t, f, g
<1> DEFINE P == { k \in Nat : k <= n => g[k] = f[k] }
<1>4. 0 \in P
  BY <1>1, <1>2, <1>3 DEF Selects
<1>5. ASSUME NEW k \in Nat, k \in P PROVE k + 1 \in P
  <2>1. CASE k + 1 > n
    BY <1>1, <2>1
  <2>2. CASE k + 1 <= n
    <3>1. g[k] = f[k] /\ t[k + 1] = s[k + 1]
      BY <1>1, <1>5, <2>2
    <3>2. k + 1 \in 0..n /\ k + 1 \in 0 .. n + 1 /\ k + 1 # 0 /\ (k + 1) - 1 = k
      BY <1>1, <2>2
    <3>3. f[k + 1] = IF s[k + 1] \in S THEN Append(f[k], s[k + 1]) ELSE f[k]
      BY <1>2, <3>2 DEF Selects
    <3>4. g[k + 1] = IF t[k + 1] \in S THEN Append(g[k], t[k + 1]) ELSE g[k]
      BY <1>3, <3>2 DEF Selects
    <3> QED
      BY <3>1, <3>3, <3>4
  <2> QED
    BY <1>1, <2>1, <2>2
<1> HIDE DEF P
<1>6. n \in P
  BY <1>1, <1>4, <1>5, InductNat
<1>7. g[n] = f[n]
  BY <1>1, <1>6 DEF P
<1>8. g[n + 1] = IF x \in S THEN Append(g[n], x) ELSE g[n]
  <2>1. n + 1 \in 0 .. n + 1 /\ n + 1 # 0 /\ (n + 1) - 1 = n
    BY <1>1
  <2> QED
    BY <1>1, <1>3, <2>1 DEF Selects
<1>9. Only(s, S) = f[n] /\ Only(t, S) = g[n + 1]
  BY <1>1 DEF Only, f, g, n
<1>10. Only(t, S) = IF x \in S THEN Append(Only(s, S), x) ELSE Only(s, S)
  BY <1>7, <1>8, <1>9
<1> QED
  BY <1>10 DEF t

(* The elements taken are those of the list that are in the set.            *)
LEMMA OnlyType ==
    ASSUME NEW T, NEW s \in Seq(T), NEW S
    PROVE  /\ Only(s, S) \in Seq(T)
           /\ \A b : In(Only(s, S), b) <=> b \in S /\ In(s, b)
<1> DEFINE Is(q) == Only(q, S) \in Seq(T)
                    /\ \A b : In(Only(q, S), b) <=> b \in S /\ In(q, b)
           P == { q \in Seq(T) : Is(q) }
<1>1. <<>> \in P
  <2>1. Only(<<>>, S) = <<>> /\ <<>> \in Seq(T) /\ Len(<<>>) = 0
    BY OnlyEmpty, EmptySeq
  <2>2. \A b : ~In(<<>>, b)
    BY <2>1 DEF In
  <2> QED
    BY <2>1, <2>2
<1>2. ASSUME NEW q \in Seq(T), NEW x \in T, q \in P
      PROVE  Append(q, x) \in P
  <2>1. Is(q)
    BY <1>2
  <2>2. Append(q, x) \in Seq(T)
    BY AppendProperties
  <2>3. CASE x \in S
    <3>1. Only(Append(q, x), S) = Append(Only(q, S), x)
      BY <2>3, OnlyAppend
    <3>2. Append(Only(q, S), x) \in Seq(T)
      BY <2>1, AppendProperties
    <3>3. \A b : In(Append(Only(q, S), x), b) <=> In(Only(q, S), b) \/ b = x
      BY <2>1, AppendOnce
    <3>4. \A b : In(Append(q, x), b) <=> In(q, b) \/ b = x
      BY AppendOnce
    <3>5. \A b : In(Only(Append(q, x), S), b) <=> b \in S /\ In(Append(q, x), b)
      BY <2>1, <2>3, <3>1, <3>3, <3>4, Zenon
    <3> QED
      BY <2>2, <3>1, <3>2, <3>5
  <2>4. CASE x \notin S
    <3>1. Only(Append(q, x), S) = Only(q, S)
      BY <2>4, OnlyAppend
    <3>4. \A b : In(Append(q, x), b) <=> In(q, b) \/ b = x
      BY AppendOnce
    <3>5. \A b : In(Only(Append(q, x), S), b) <=> b \in S /\ In(Append(q, x), b)
      BY <2>1, <2>4, <3>1, <3>4, Zenon
    <3> QED
      BY <2>1, <2>2, <3>1, <3>5
  <2> QED
    BY <2>3, <2>4
<1> HIDE DEF P
<1>3. s \in P
  BY <1>1, <1>2, InductSeq
<1> QED
  BY <1>3 DEF P

(* What does not distinguish the elements of the list takes the same.       *)
LEMMA OnlySame ==
    ASSUME NEW T, NEW s \in Seq(T), NEW A, NEW B,
           \A i \in 1..Len(s) : s[i] \in A <=> s[i] \in B
    PROVE  Only(s, A) = Only(s, B)
<1> DEFINE Agree(q) == \A i \in 1..Len(q) : q[i] \in A <=> q[i] \in B
           P == { q \in Seq(T) : Agree(q) => Only(q, A) = Only(q, B) }
<1>1. <<>> \in P
  BY OnlyEmpty, EmptySeq
<1>2. ASSUME NEW q \in Seq(T), NEW x \in T, q \in P
      PROVE  Append(q, x) \in P
  <2>1. Append(q, x) \in Seq(T)
    BY AppendProperties
  <2>2. ASSUME Agree(Append(q, x)) PROVE Only(Append(q, x), A) = Only(Append(q, x), B)
    <3>1. /\ Len(q) \in Nat /\ Len(Append(q, x)) = Len(q) + 1
          /\ Append(q, x)[Len(q) + 1] = x
          /\ \A i \in 1..Len(q) : Append(q, x)[i] = q[i]
      BY AppendProperties, LenProperties
    <3>2. Agree(q)
      <4> TAKE i \in 1..Len(q)
      <4>1. i \in 1..Len(Append(q, x)) /\ Append(q, x)[i] = q[i]
        BY <3>1
      <4> QED
        BY <2>2, <4>1, Zenon
    <3>3. Len(q) + 1 \in 1..Len(Append(q, x))
      BY <3>1
    <3>4. x \in A <=> x \in B
      BY <2>2, <3>1, <3>3
    <3> HIDE DEF Agree
    <3>5. Only(q, A) = Only(q, B)
      BY <1>2, <3>2
    <3>6. Only(Append(q, x), A) = IF x \in A THEN Append(Only(q, A), x) ELSE Only(q, A)
      BY OnlyAppend
    <3>7. Only(Append(q, x), B) = IF x \in B THEN Append(Only(q, B), x) ELSE Only(q, B)
      BY OnlyAppend
    <3> QED
      BY <3>4, <3>5, <3>6, <3>7
  <2> QED
    BY <2>1, <2>2
<1> HIDE DEF P
<1>3. s \in P
  BY <1>1, <1>2, InductSeq
<1> QED
  BY <1>3 DEF P

LEMMA OnlyOnly ==
    ASSUME NEW T, NEW s \in Seq(T), NEW A, NEW B
    PROVE  Only(Only(s, A), B) = Only(s, A \cap B)
<1> DEFINE P == { q \in Seq(T) : Only(Only(q, A), B) = Only(q, A \cap B) }
<1>1. <<>> \in P
  BY OnlyEmpty, EmptySeq
<1>2. ASSUME NEW q \in Seq(T), NEW x \in T, q \in P
      PROVE  Append(q, x) \in P
  <2>1. Append(q, x) \in Seq(T)
    BY AppendProperties
  <2>2. Only(q, A) \in Seq(T)
    BY OnlyType
  <2>3. Only(Append(q, x), A) = IF x \in A THEN Append(Only(q, A), x) ELSE Only(q, A)
    BY OnlyAppend
  <2>4. Only(Append(Only(q, A), x), B)
        = IF x \in B THEN Append(Only(Only(q, A), B), x) ELSE Only(Only(q, A), B)
    BY <2>2, OnlyAppend
  <2>5. Only(Append(q, x), A \cap B)
        = IF x \in A \cap B THEN Append(Only(q, A \cap B), x) ELSE Only(q, A \cap B)
    BY OnlyAppend
  <2>6. Only(Only(q, A), B) = Only(q, A \cap B)
    BY <1>2
  <2>7. Only(Only(Append(q, x), A), B) = Only(Append(q, x), A \cap B)
    <3>1. CASE x \in A
      <4>1. Only(Only(Append(q, x), A), B)
            = IF x \in B THEN Append(Only(q, A \cap B), x) ELSE Only(q, A \cap B)
        BY <2>3, <2>4, <2>6, <3>1
      <4> QED
        BY <2>5, <3>1, <4>1
    <3>2. CASE x \notin A
      <4>1. Only(Only(Append(q, x), A), B) = Only(q, A \cap B)
        BY <2>3, <2>6, <3>2
      <4> QED
        BY <2>5, <3>2, <4>1
    <3> QED
      BY <3>1, <3>2
  <2> QED
    BY <2>1, <2>7
<1> HIDE DEF P
<1>3. s \in P
  BY <1>1, <1>2, InductSeq
<1> QED
  BY <1>3 DEF P

LEMMA OnlyNone ==
    ASSUME NEW T, NEW s \in Seq(T), NEW A,
           \A i \in 1..Len(s) : s[i] \notin A
    PROVE  Only(s, A) = <<>>
<1>1. Only(s, A) \in Seq(T)
  BY OnlyType
<1>2. \A i \in 1..Len(Only(s, A)) : FALSE
  <2> SUFFICES ASSUME NEW i \in 1..Len(Only(s, A)) PROVE FALSE
    OBVIOUS
  <2>1. In(Only(s, A), Only(s, A)[i])
    BY DEF In
  <2>2. PICK j \in 1..Len(s) : s[j] = Only(s, A)[i] /\ Only(s, A)[i] \in A
    BY <2>1, OnlyType DEF In
  <2> QED
    BY <2>2
<1>3. Len(Only(s, A)) = 0
  BY <1>1, <1>2, LenProperties
<1> QED
  BY <1>1, <1>3, EmptySeq

LEMMA OnlyAll ==
    ASSUME NEW T, NEW s \in Seq(T), NEW A,
           \A i \in 1..Len(s) : s[i] \in A
    PROVE  Only(s, A) = s
<1> DEFINE P == { q \in Seq(T) : Only(q, T) = q }
<1>1. <<>> \in P
  BY OnlyEmpty, EmptySeq
<1>2. ASSUME NEW q \in Seq(T), NEW x \in T, q \in P
      PROVE  Append(q, x) \in P
  <2>1. Append(q, x) \in Seq(T)
    BY AppendProperties
  <2>2. Only(Append(q, x), T) = Append(Only(q, T), x)
    BY OnlyAppend
  <2> QED
    BY <1>2, <2>1, <2>2
<1> HIDE DEF P
<1>3. s \in P
  BY <1>1, <1>2, InductSeq
<1>4. Only(s, T) = s
  BY <1>3 DEF P
<1>5. Only(s, A) = Only(s, T)
  <2>1. \A i \in 1..Len(s) : s[i] \in T
    BY ElementOfSeq
  <2>2. \A i \in 1..Len(s) : s[i] \in A <=> s[i] \in T
    BY <2>1
  <2> QED
    BY <2>2, OnlySame
<1> QED
  BY <1>4, <1>5

(* The list of what F makes of the elements of a list.                      *)
MapOf(F, q) == [i \in 1..Len(q) |-> F[q[i]]]

Image(F, T) == { F[x] : x \in T }

LEMMA MapType ==
    ASSUME NEW T, NEW F, NEW q \in Seq(T)
    PROVE  MapOf(F, q) \in Seq(Image(F, T)) /\ Len(MapOf(F, q)) = Len(q)
<1> DEFINE U == Image(F, T)
<1>1. \A i \in 1..Len(q) : q[i] \in T
  BY ElementOfSeq
<1>2. Len(q) \in Nat
  BY LenProperties
<1>3. \A i \in 1..Len(q) : F[q[i]] \in U
  BY <1>1 DEF Image
<1> HIDE DEF U
<1>4. MapOf(F, q) \in Seq(U)
  BY <1>2, <1>3, IsASeq DEF MapOf
<1>5. DOMAIN MapOf(F, q) = 1..Len(q) /\ DOMAIN MapOf(F, q) = 1..Len(MapOf(F, q))
      /\ Len(MapOf(F, q)) \in Nat
  BY <1>4, LenProperties DEF MapOf
<1>6. Len(MapOf(F, q)) = Len(q)
  BY <1>2, <1>5
<1> QED
  BY <1>4, <1>6 DEF U

LEMMA MapElement ==
    ASSUME NEW F, NEW q, NEW i \in 1..Len(q)
    PROVE  MapOf(F, q)[i] = F[q[i]]
  BY DEF MapOf

LEMMA MapAppend ==
    ASSUME NEW T, NEW F, NEW q \in Seq(T), NEW x \in T
    PROVE  MapOf(F, Append(q, x)) = Append(MapOf(F, q), F[x])
<1> DEFINE U == Image(F, T)
           n == Len(q)
           a == Append(q, x)
           l == MapOf(F, a)
           r == Append(MapOf(F, q), F[x])
<1>1. /\ n \in Nat /\ Len(a) = n + 1 /\ a[n + 1] = x /\ a \in Seq(T)
      /\ \A i \in 1..n : a[i] = q[i]
  BY AppendProperties, LenProperties
<1>2. MapOf(F, q) \in Seq(U) /\ Len(MapOf(F, q)) = n
  BY MapType
<1>0. \A i \in 1..n : MapOf(F, q)[i] = F[q[i]]
  BY MapElement
<1>3. F[x] \in U
  BY DEF Image
<1> HIDE DEF n, a
<1>4. /\ r \in Seq(U) /\ Len(r) = n + 1 /\ r[n + 1] = F[x]
      /\ \A i \in 1..n : r[i] = MapOf(F, q)[i]
  BY <1>2, <1>3, AppendProperties
<1>5. l \in Seq(U) /\ Len(l) = n + 1
  BY <1>1, MapType
<1>7. \A i \in 1..Len(a) : l[i] = F[a[i]]
  BY MapElement
<1> HIDE DEF l, r
<1>6. ASSUME NEW i \in 1..n + 1 PROVE l[i] = r[i]
  <2>1. CASE i = n + 1
    BY <1>1, <1>4, <1>7, <2>1
  <2>2. CASE i # n + 1
    <3>1. i \in 1..n
      BY <1>1, <2>2
    <3>2. l[i] = F[a[i]]
      BY <1>1, <1>7
    <3> QED
      BY <1>0, <1>1, <1>4, <3>1, <3>2
  <2> QED
    BY <2>1, <2>2
<1>8. l = r
  BY <1>4, <1>5, <1>6, SeqEqual
<1> QED
  BY <1>8 DEF l, r, a

LEMMA MapConcat ==
    ASSUME NEW T, NEW F, NEW p \in Seq(T), NEW q \in Seq(T)
    PROVE  MapOf(F, p \o q) = MapOf(F, p) \o MapOf(F, q)
<1> DEFINE U == Image(F, T)
           m == Len(p)
           n == Len(q)
           c == p \o q
           l == MapOf(F, c)
           f == MapOf(F, p)
           g == MapOf(F, q)
           r == f \o g
<1>1. /\ m \in Nat /\ n \in Nat /\ c \in Seq(T) /\ Len(c) = m + n
      /\ \A i \in 1..m + n : c[i] = IF i <= m THEN p[i] ELSE q[i - m]
  BY ConcatProperties, LenProperties
<1>2. f \in Seq(U) /\ Len(f) = m /\ g \in Seq(U) /\ Len(g) = n
  BY MapType
<1>0. /\ \A i \in 1..m : f[i] = F[p[i]]
      /\ \A i \in 1..n : g[i] = F[q[i]]
  BY MapElement
<1> HIDE DEF m, n, c, f, g
<1>3. l \in Seq(U) /\ Len(l) = m + n
  BY <1>1, MapType
<1>7. \A i \in 1..Len(c) : l[i] = F[c[i]]
  BY MapElement
<1>4. /\ r \in Seq(U) /\ Len(r) = m + n
      /\ \A i \in 1..m + n : r[i] = IF i <= m THEN f[i] ELSE g[i - m]
  BY <1>2, ConcatProperties
<1> HIDE DEF l, r
<1>5. ASSUME NEW i \in 1..m + n PROVE l[i] = r[i]
  <2>0. l[i] = F[c[i]]
    BY <1>1, <1>7
  <2>1. CASE i <= m
    <3>1. i \in 1..m
      BY <1>1, <2>1
    <3> QED
      BY <1>0, <1>1, <1>4, <2>0, <2>1, <3>1
  <2>2. CASE ~(i <= m)
    <3>1. i - m \in 1..n
      BY <1>1, <2>2
    <3> QED
      BY <1>0, <1>1, <1>4, <2>0, <2>2, <3>1
  <2> QED
    BY <2>1, <2>2
<1>6. l = r
  BY <1>3, <1>4, <1>5, SeqEqual
<1> QED
  BY <1>6 DEF l, r, c, f, g

(* Taking elements out of such a list.                                      *)
LEMMA OnlyMap ==
    ASSUME NEW T, NEW F, NEW s \in Seq(T), NEW A
    PROVE  Only(MapOf(F, s), A) = MapOf(F, Only(s, { x \in T : F[x] \in A }))
<1> DEFINE U == Image(F, T)
           B == { x \in T : F[x] \in A }
           P == { q \in Seq(T) : Only(MapOf(F, q), A) = MapOf(F, Only(q, B)) }
<1>1. <<>> \in P
  <2>1. MapOf(F, <<>>) = <<>>
    BY EmptySeq DEF MapOf
  <2>2. Only(<<>>, A) = <<>> /\ Only(<<>>, B) = <<>> /\ <<>> \in Seq(T)
    BY OnlyEmpty, EmptySeq
  <2> HIDE DEF B
  <2> QED
    BY <2>1, <2>2
<1>2. ASSUME NEW q \in Seq(T), NEW x \in T, q \in P
      PROVE  Append(q, x) \in P
  <2> DEFINE r == MapOf(F, q)
             y == F[x]
             o == Only(q, B)
  <2>1. Append(q, x) \in Seq(T) /\ y \in U /\ r \in Seq(U) /\ o \in Seq(T)
    BY AppendProperties, MapType, OnlyType DEF Image
  <2>2. MapOf(F, Append(q, x)) = Append(r, y)
    BY MapAppend
  <2>3. Only(Append(q, x), B) = IF x \in B THEN Append(o, x) ELSE o
    BY OnlyAppend
  <2>4. MapOf(F, Append(o, x)) = Append(MapOf(F, o), y)
    BY <2>1, MapAppend
  <2>5. x \in B <=> y \in A
    OBVIOUS
  <2>6. Only(r, A) = MapOf(F, o)
    BY <1>2
  <2> HIDE DEF r, y, o, B, U
  <2>7. Only(Append(r, y), A) = IF y \in A THEN Append(Only(r, A), y) ELSE Only(r, A)
    BY <2>1, OnlyAppend
  <2>8. Only(MapOf(F, Append(q, x)), A) = MapOf(F, Only(Append(q, x), B))
    BY <2>2, <2>3, <2>4, <2>5, <2>6, <2>7
  <2> QED
    BY <2>1, <2>8
<1> HIDE DEF P
<1>3. s \in P
  BY <1>1, <1>2, InductSeq
<1> QED
  BY <1>3 DEF P

-----------------------------------------------------------------------------
(* Concatenation, selection and order.                                      *)

LEMMA ConcatAppend ==
    ASSUME NEW T, NEW p \in Seq(T), NEW s \in Seq(T), NEW x \in T
    PROVE  p \o Append(s, x) = Append(p \o s, x)
<1>1. <<x>> \in Seq(T)
  OBVIOUS
<1>2. Append(s, x) = s \o <<x>>
  BY AppendIsConcat
<1>3. p \o s \in Seq(T)
  BY ConcatProperties
<1>4. Append(p \o s, x) = (p \o s) \o <<x>>
  BY <1>3, AppendIsConcat
<1>5. (p \o s) \o <<x>> = p \o (s \o <<x>>)
  BY <1>1, ConcatAssociative
<1> QED
  BY <1>2, <1>4, <1>5

LEMMA InConcat ==
    ASSUME NEW T, NEW p \in Seq(T), NEW q \in Seq(T)
    PROVE  \A y : In(p \o q, y) <=> In(p, y) \/ In(q, y)
<1> DEFINE r == p \o q
<1>1. /\ r \in Seq(T) /\ Len(r) = Len(p) + Len(q) /\ Len(p) \in Nat /\ Len(q) \in Nat
      /\ \A k \in 1..Len(p) + Len(q) : r[k] = IF k <= Len(p) THEN p[k] ELSE q[k - Len(p)]
  BY ConcatProperties, LenProperties
<1> HIDE DEF r
<1>2. ASSUME NEW y, In(r, y) PROVE In(p, y) \/ In(q, y)
  <2>1. PICK k \in 1..Len(p) + Len(q) : r[k] = y
    BY <1>1, <1>2 DEF In
  <2>2. CASE k <= Len(p)
    <3>1. k \in 1..Len(p) /\ p[k] = y
      BY <1>1, <2>1, <2>2
    <3> QED
      BY <3>1 DEF In
  <2>3. CASE ~(k <= Len(p))
    <3> DEFINE l == k - Len(p)
    <3>1. l \in 1..Len(q) /\ q[l] = y
      BY <1>1, <2>1, <2>3
    <3> QED
      BY <3>1 DEF In
  <2> QED
    BY <2>2, <2>3
<1>3. ASSUME NEW y, In(p, y) PROVE In(r, y)
  <2>1. PICK k \in 1..Len(p) : p[k] = y
    BY <1>3 DEF In
  <2>2. k \in 1..Len(r) /\ r[k] = y
    BY <1>1, <2>1
  <2> QED
    BY <2>2 DEF In
<1>4. ASSUME NEW y, In(q, y) PROVE In(r, y)
  <2>1. PICK k \in 1..Len(q) : q[k] = y
    BY <1>4 DEF In
  <2> DEFINE l == Len(p) + k
  <2>2. l \in 1..Len(r) /\ ~(l <= Len(p)) /\ l - Len(p) = k /\ l \in 1..Len(p) + Len(q)
    BY <1>1, <2>1
  <2> HIDE DEF l
  <2>3. r[l] = y
    BY <1>1, <2>1, <2>2
  <2> QED
    BY <2>2, <2>3 DEF In
<1>5. \A y : In(r, y) <=> In(p, y) \/ In(q, y)
  BY <1>2, <1>3, <1>4
<1> QED
  BY <1>5 DEF r

LEMMA OnlyConcat ==
    ASSUME NEW T, NEW p \in Seq(T), NEW q \in Seq(T), NEW S
    PROVE  Only(p \o q, S) = Only(p, S) \o Only(q, S)
<1> DEFINE P == { s \in Seq(T) : Only(p \o s, S) = Only(p, S) \o Only(s, S) }
           o == Only(p, S)
<1>0. o \in Seq(T)
  BY OnlyType
<1>1. <<>> \in P
  <2>1. p \o <<>> = p /\ Only(<<>>, S) = <<>> /\ <<>> \in Seq(T)
    BY ConcatEmptySeq, OnlyEmpty, EmptySeq
  <2>2. o \o <<>> = o
    BY <1>0, ConcatEmptySeq
  <2> QED
    BY <2>1, <2>2
<1>2. ASSUME NEW s \in Seq(T), NEW x \in T, s \in P
      PROVE  Append(s, x) \in P
  <2> DEFINE c == p \o s
             r == Only(s, S)
  <2>1. c \in Seq(T) /\ r \in Seq(T) /\ Append(s, x) \in Seq(T)
    BY ConcatProperties, OnlyType, AppendProperties
  <2>2. p \o Append(s, x) = Append(c, x)
    BY ConcatAppend
  <2>3. Only(c, S) = o \o r
    BY <1>2
  <2>4. Only(Append(s, x), S) = IF x \in S THEN Append(r, x) ELSE r
    BY OnlyAppend
  <2>5. o \o Append(r, x) = Append(o \o r, x)
    BY <1>0, <2>1, ConcatAppend
  <2> HIDE DEF c, r, o
  <2>6. Only(Append(c, x), S) = IF x \in S THEN Append(Only(c, S), x) ELSE Only(c, S)
    BY <2>1, OnlyAppend
  <2>7. Only(p \o Append(s, x), S) = o \o Only(Append(s, x), S)
    BY <2>2, <2>3, <2>4, <2>5, <2>6
  <2> QED
    BY <2>1, <2>7 DEF o
<1> HIDE DEF P
<1>3. q \in P
  BY <1>1, <1>2, InductSeq
<1> QED
  BY <1>3 DEF P

(* Selection distributes over the concatenation of p and q.                 *)
Splits(p, q, S) == Only(p \o q, S) = Only(p, S) \o Only(q, S)

LEMMA OnlySplits ==
    ASSUME NEW T, NEW p \in Seq(T), NEW q \in Seq(T), NEW S
    PROVE  Splits(p, q, S)
BY OnlyConcat DEF Splits

LEMMA OnlyWithin ==
    ASSUME NEW T, NEW q \in Seq(T), NEW A, NEW S, S \subseteq A
    PROVE  Only(Only(q, A), S) = Only(q, S)
<1>1. A \cap S = S
  OBVIOUS
<1>2. Only(Only(q, A), S) = Only(q, A \cap S)
  BY OnlyOnly
<1> QED
  BY <1>1, <1>2, Zenon

LEMMA OnlyApart ==
    ASSUME NEW T, NEW q \in Seq(T), NEW A, NEW S, \A x \in S : x \notin A
    PROVE  Only(Only(q, A), S) = <<>>
<1> DEFINE o == Only(q, A)
<1>1. o \in Seq(T) /\ \A y : In(o, y) <=> y \in A /\ In(q, y)
  BY OnlyType
<1>2. \A k \in 1..Len(o) : o[k] \notin S
  <2>1. \A k \in 1..Len(o) : In(o, o[k])
    BY DEF In
  <2> QED
    BY <1>1, <2>1
<1> HIDE DEF o
<1>3. Only(o, S) = <<>>
  BY <1>1, <1>2, OnlyNone
<1> QED
  BY <1>3 DEF o

(* Nothing is taken from a list exactly if nothing in it is in the set.     *)
LEMMA OnlyNothing ==
    ASSUME NEW T, NEW s \in Seq(T), NEW S
    PROVE  Only(s, S) = <<>> <=> \A k \in 1..Len(s) : s[k] \notin S
<1>1. ASSUME \A k \in 1..Len(s) : s[k] \notin S PROVE Only(s, S) = <<>>
  BY <1>1, OnlyNone
<1>2. ASSUME Only(s, S) = <<>>, NEW k \in 1..Len(s), s[k] \in S PROVE FALSE
  <2>1. In(s, s[k])
    BY DEF In
  <2>2. In(Only(s, S), s[k])
    BY <1>2, <2>1, OnlyType
  <2>3. Len(Only(s, S)) = 0
    BY <1>2, EmptySeq
  <2> QED
    BY <2>2, <2>3 DEF In
<1> QED
  BY <1>1, <1>2

LEMMA OnlyIn ==
    ASSUME NEW T, NEW q \in Seq(T), NEW S
    PROVE  Only(q, S) = <<>> <=> \A y \in S : ~In(q, y)
<1>1. (\A k \in 1..Len(q) : q[k] \notin S) <=> \A y \in S : ~In(q, y)
  BY DEF In
<1> QED
  BY <1>1, OnlyNothing

(* An element that occurs once.                                             *)
LEMMA OnlyOne ==
    ASSUME NEW T, NEW s \in Seq(T), NEW k \in 1..Len(s),
           \A i \in 1..Len(s) : s[i] = s[k] => i = k
    PROVE  Only(s, {s[k]}) = <<s[k]>>
<1> DEFINE OnceIn(q, j) == \A i \in 1..Len(q) : q[i] = q[j] => i = j
           Is(q) == \A j \in 1..Len(q) : OnceIn(q, j) => Only(q, {q[j]}) = <<q[j]>>
           P == { q \in Seq(T) : Is(q) }
<1>1. <<>> \in P
  BY EmptySeq
<1>2. ASSUME NEW q \in Seq(T), NEW x \in T, q \in P
      PROVE  Append(q, x) \in P
  <2> DEFINE n == Len(q)
             a == Append(q, x)
             L == Len(a)
  <2>1. /\ a \in Seq(T) /\ n \in Nat /\ L = n + 1 /\ a[n + 1] = x
        /\ \A i \in 1..n : a[i] = q[i]
    BY AppendProperties, LenProperties
  <2> HIDE DEF n, a, L
  <2>2. ASSUME NEW j \in 1..L, \A i \in 1..L : a[i] = a[j] => i = j
        PROVE  Only(a, {a[j]}) = <<a[j]>>
    <3> DEFINE y == a[j]
    <3>1. Only(a, {y}) = IF x \in {y} THEN Append(Only(q, {y}), x) ELSE Only(q, {y})
      BY OnlyAppend DEF a
    <3>2. CASE j = n + 1
      <4>1. x = y
        BY <2>1, <3>2
      <4>2. \A i \in 1..n : q[i] \notin {y}
        BY <2>1, <2>2, <3>2
      <4>3. Only(q, {y}) = <<>>
        BY <4>2, OnlyNone DEF n
      <4>4. Append(<<>>, x) = <<x>>
        OBVIOUS
      <4> QED
        BY <3>1, <4>1, <4>3, <4>4
    <3>3. CASE j # n + 1
      <4>1. j \in 1..n /\ q[j] = y
        BY <2>1, <3>3
      <4>2. x # y
        BY <2>1, <2>2, <3>3
      <4>3. \A i \in 1..n : q[i] = q[j] => i = j
        BY <2>1, <2>2, <4>1
      <4>4. Only(q, {q[j]}) = <<q[j]>>
        BY <1>2, <4>1, <4>3 DEF n
      <4> QED
        BY <3>1, <4>1, <4>2, <4>4
    <3> QED
      BY <3>2, <3>3
  <2>3. Is(a)
    BY <2>2 DEF L
  <2> QED
    BY <2>1, <2>3 DEF a
<1> HIDE DEF P
<1>3. s \in P
  BY <1>1, <1>2, InductSeq
<1> QED
  BY <1>3 DEF P

(* A list that is sorted by a relation.                                     *)
Sorted(s, R) == \A a, b \in 1..Len(s) : a < b => <<s[a], s[b]>> \in R

LEMMA SortedAppend ==
    ASSUME NEW T, NEW s \in Seq(T), NEW x \in T, NEW R
    PROVE  Sorted(Append(s, x), R)
              <=> Sorted(s, R) /\ \A y : In(s, y) => <<y, x>> \in R
<1> DEFINE n == Len(s)
           t == Append(s, x)
           L == Len(t)
<1>1. n \in Nat /\ L = n + 1 /\ t[n + 1] = x /\ \A i \in 1..n : t[i] = s[i]
  BY AppendProperties, LenProperties
<1> HIDE DEF n, t, L
<1>2. ASSUME Sorted(t, R) PROVE Sorted(s, R)
  BY <1>1, <1>2 DEF Sorted, n, L
<1>3. ASSUME Sorted(t, R), NEW y, In(s, y) PROVE <<y, x>> \in R
  <2>1. PICK i \in 1..n : s[i] = y
    BY <1>3 DEF In, n
  <2>2. i \in 1..L /\ n + 1 \in 1..L /\ i < n + 1 /\ t[i] = y
    BY <1>1, <2>1
  <2>3. <<t[i], t[n + 1]>> \in R
    BY <1>3, <2>2 DEF Sorted, L
  <2> QED
    BY <1>1, <2>2, <2>3
<1>4. ASSUME Sorted(s, R), \A y : In(s, y) => <<y, x>> \in R,
             NEW a \in 1..L, NEW b \in 1..L, a < b
      PROVE  <<t[a], t[b]>> \in R
  <2>1. a \in 1..n /\ t[a] = s[a]
    BY <1>1, <1>4
  <2>2. CASE b = n + 1
    <3>1. In(s, s[a])
      BY <2>1 DEF In, n
    <3> QED
      BY <1>1, <1>4, <2>1, <2>2, <3>1
  <2>3. CASE b # n + 1
    <3>1. b \in 1..n /\ t[b] = s[b]
      BY <1>1, <2>3
    <3> QED
      BY <1>4, <2>1, <3>1 DEF Sorted, n
  <2> QED
    BY <2>2, <2>3
<1>5. ASSUME Sorted(s, R), \A y : In(s, y) => <<y, x>> \in R PROVE Sorted(t, R)
  BY <1>4, <1>5 DEF Sorted, L
<1> QED
  BY <1>2, <1>3, <1>5 DEF t

LEMMA OnlySorted ==
    ASSUME NEW T, NEW s \in Seq(T), NEW S, NEW R, Sorted(s, R)
    PROVE  Sorted(Only(s, S), R)
<1> DEFINE P == { q \in Seq(T) : Sorted(q, R) => Sorted(Only(q, S), R) }
<1>1. <<>> \in P
  <2>1. Only(<<>>, S) = <<>> /\ <<>> \in Seq(T)
    BY OnlyEmpty, EmptySeq
  <2> QED
    BY <2>1
<1>2. ASSUME NEW q \in Seq(T), NEW x \in T, q \in P
      PROVE  Append(q, x) \in P
  <2> DEFINE o == Only(q, S)
  <2>1. Append(q, x) \in Seq(T) /\ o \in Seq(T) /\ \A y : In(o, y) => In(q, y)
    BY AppendProperties, OnlyType
  <2>2. Only(Append(q, x), S) = IF x \in S THEN Append(o, x) ELSE o
    BY OnlyAppend
  <2>3. Sorted(q, R) => Sorted(o, R)
    BY <1>2
  <2> HIDE DEF o
  <2>4. Sorted(Append(q, x), R) <=> Sorted(q, R) /\ \A y : In(q, y) => <<y, x>> \in R
    BY SortedAppend
  <2>5. Sorted(Append(o, x), R) <=> Sorted(o, R) /\ \A y : In(o, y) => <<y, x>> \in R
    BY <2>1, SortedAppend
  <2>6. Sorted(Append(q, x), R) => Sorted(Only(Append(q, x), S), R)
    BY <2>1, <2>2, <2>3, <2>4, <2>5
  <2> QED
    BY <2>1, <2>6
<1> HIDE DEF P
<1>3. s \in P
  BY <1>1, <1>2, InductSeq
<1> QED
  BY <1>3 DEF P

LEMMA SortedConcat ==
    ASSUME NEW T, NEW p \in Seq(T), NEW q \in Seq(T), NEW R, Sorted(p, R), Sorted(q, R),
           \A y, z : In(p, y) /\ In(q, z) => <<y, z>> \in R
    PROVE  Sorted(p \o q, R)
<1> DEFINE r == p \o q
           l == Len(p)
           n == Len(q)
           L == Len(r)
<1>1. /\ L = l + n /\ l \in Nat /\ n \in Nat
      /\ \A k \in 1..l + n : r[k] = IF k <= l THEN p[k] ELSE q[k - l]
  BY ConcatProperties, LenProperties
<1> HIDE DEF r, l, n, L
<1>2. ASSUME NEW a \in 1..L, NEW b \in 1..L, a < b PROVE <<r[a], r[b]>> \in R
  <2>1. CASE b <= l
    <3>1. a \in 1..l /\ b \in 1..l /\ r[a] = p[a] /\ r[b] = p[b]
      BY <1>1, <1>2, <2>1
    <3> QED
      BY <1>2, <3>1 DEF Sorted, l
  <2>2. CASE a <= l /\ ~(b <= l)
    <3>1. a \in 1..l /\ b - l \in 1..n /\ r[a] = p[a] /\ r[b] = q[b - l]
      BY <1>1, <1>2, <2>2
    <3>2. In(p, r[a]) /\ In(q, r[b])
      BY <3>1 DEF In, l, n
    <3> QED
      BY <3>2
  <2>3. CASE ~(a <= l)
    <3>1. a - l \in 1..n /\ b - l \in 1..n /\ r[a] = q[a - l] /\ r[b] = q[b - l] /\ a - l < b - l
      BY <1>1, <1>2, <2>3
    <3> QED
      BY <3>1 DEF Sorted, n
  <2> QED
    BY <1>1, <1>2, <2>1, <2>2, <2>3
<1> QED
  BY <1>2 DEF Sorted, r, L

-----------------------------------------------------------------------------
(* Messages on their way.                                                   *)

(* o is the part of q behind its first k elements, or some of that part.    *)
Window(o, q, k) ==
    /\ Len(o) \in Nat /\ Len(q) \in Nat /\ k \in Nat /\ k + Len(o) <= Len(q)
    /\ \A i \in 1..Len(o) : o[i] = q[k + i]

(* The number of m, if m goes from s to d.                                  *)
New(m, s, d) == IF m.src = s /\ m.dst = d THEN {m.n} ELSE {}

(* A part of a queue is in order if the queue is.                           *)
LEMMA WindowFlow ==
    ASSUME NEW o, NEW q, NEW k, Window(o, q, k), NEW s, NEW d
    PROVE  /\ Numbers(o, s, d) \subseteq Numbers(q, s, d)
           /\ Rising(q, s, d) => Rising(o, s, d)
<1> DEFINE l == Len(o)
           n == Len(q)
           A == From(o, s, d)
           B == From(q, s, d)
<1>1. /\ l \in Nat /\ n \in Nat /\ k \in Nat /\ k + l <= n
      /\ \A i \in 1..l : o[i] = q[k + i]
      /\ A = { i \in 1..l : o[i].src = s /\ o[i].dst = d }
      /\ B = { i \in 1..n : q[i].src = s /\ q[i].dst = d }
  BY DEF Window, From
<1>2. /\ Numbers(o, s, d) = { o[i].n : i \in A }
      /\ Numbers(q, s, d) = { q[i].n : i \in B }
      /\ Rising(o, s, d) <=> \A i, j \in A : i < j => o[i].n < o[j].n
      /\ Rising(q, s, d) <=> \A i, j \in B : i < j => q[i].n < q[j].n
  BY DEF Numbers, Rising
<1> HIDE DEF l, n, A, B
<1>3. \A i \in A : k + i \in B /\ o[i] = q[k + i] /\ i \in Int
  BY ONLY <1>1
<1>4. { o[i].n : i \in A } \subseteq { q[i].n : i \in B }
  BY ONLY <1>3
<1>5. ASSUME \A i, j \in B : i < j => q[i].n < q[j].n,
             NEW i \in A, NEW j \in A, i < j
      PROVE  o[i].n < o[j].n
  <2>1. k + i < k + j
    BY ONLY <1>1, <1>3, <1>5
  <2> QED
    BY ONLY <1>3, <1>5, <2>1
<1> QED
  BY <1>2, <1>4, <1>5

(* A queue is made of two parts.                                            *)
LEMMA ConcatFlow ==
    ASSUME NEW S, NEW p \in Seq(S), NEW q \in Seq(S), NEW s, NEW d
    PROVE  /\ Numbers(p \o q, s, d) = Numbers(p, s, d) \cup Numbers(q, s, d)
           /\ Rising(p \o q, s, d) <=>
                Rising(p, s, d) /\ Rising(q, s, d) /\ Below(p, q, s, d)
<1> DEFINE l == Len(p)
           n == Len(q)
           r == p \o q
           A == From(p, s, d)
           B == From(q, s, d)
           C == From(r, s, d)
<1>1. /\ l \in Nat /\ n \in Nat /\ Len(r) = l + n
      /\ \A i \in 1 .. l + n : r[i] = IF i <= l THEN p[i] ELSE q[i - l]
  BY LenProperties, ConcatProperties
<1> HIDE DEF r
<1>2. /\ A = { i \in 1..l : p[i].src = s /\ p[i].dst = d }
      /\ B = { i \in 1..n : q[i].src = s /\ q[i].dst = d }
      /\ C = { i \in 1..l + n : r[i].src = s /\ r[i].dst = d }
  BY <1>1 DEF From
<1>3. /\ Numbers(p, s, d) = { p[i].n : i \in A }
      /\ Numbers(q, s, d) = { q[i].n : i \in B }
      /\ Numbers(r, s, d) = { r[i].n : i \in C }
      /\ Rising(p, s, d) <=> \A i, j \in A : i < j => p[i].n < p[j].n
      /\ Rising(q, s, d) <=> \A i, j \in B : i < j => q[i].n < q[j].n
      /\ Rising(r, s, d) <=> \A i, j \in C : i < j => r[i].n < r[j].n
  BY DEF Numbers, Rising
<1> HIDE DEF l, n, A, B, C
<1>4. /\ \A i \in A : i \in C /\ r[i] = p[i] /\ i \in Int /\ i <= l
      /\ \A i \in B : l + i \in C /\ r[l + i] = q[i] /\ i \in Int
      /\ \A i \in C : \/ i \in A /\ i <= l /\ r[i] = p[i]
                      \/ i - l \in B /\ r[i] = q[i - l] /\ i > l
      /\ C \subseteq Int /\ l \in Int
  BY ONLY <1>1, <1>2
<1>5. Numbers(r, s, d) = Numbers(p, s, d) \cup Numbers(q, s, d)
  <2>1. ASSUME NEW i \in C
        PROVE  r[i].n \in Numbers(p, s, d) \cup Numbers(q, s, d)
    BY ONLY <1>3, <1>4
  <2>2. ASSUME NEW i \in A PROVE p[i].n \in Numbers(r, s, d)
    BY ONLY <1>3, <1>4
  <2>3. ASSUME NEW i \in B PROVE q[i].n \in Numbers(r, s, d)
    BY ONLY <1>3, <1>4
  <2> QED
    BY <1>3, <2>1, <2>2, <2>3
<1>6. ASSUME Rising(p, s, d), Rising(q, s, d), Below(p, q, s, d),
             NEW i \in C, NEW j \in C, i < j
      PROVE  r[i].n < r[j].n
  <2>1. CASE i \in A /\ j \in A
    BY <1>3, <1>4, <1>6, <2>1
  <2>2. CASE i - l \in B /\ r[i] = q[i - l] /\ j - l \in B /\ r[j] = q[j - l]
    <3>1. i - l < j - l
      BY <1>4, <1>6
    <3> QED
      BY <1>3, <1>6, <2>2, <3>1
  <2>3. CASE i \in A /\ j - l \in B /\ r[j] = q[j - l]
    <3>1. r[i].n \in Numbers(p, s, d) /\ r[j].n \in Numbers(q, s, d)
      BY <1>3, <1>4, <2>3
    <3> QED
      BY <1>6, <3>1 DEF Below
  <2> QED
    BY <1>4, <1>6, <2>1, <2>2, <2>3
<1>7. ASSUME Rising(r, s, d)
      PROVE  Rising(p, s, d) /\ Rising(q, s, d) /\ Below(p, q, s, d)
  <2>1. Rising(p, s, d)
    BY <1>3, <1>4, <1>7
  <2>2. ASSUME NEW i \in B, NEW j \in B, i < j PROVE q[i].n < q[j].n
    <3>1. l + i < l + j
      BY <1>4, <2>2
    <3> QED
      BY <1>3, <1>4, <1>7, <2>2, <3>1
  <2>3. ASSUME NEW i \in A, NEW j \in B PROVE p[i].n < q[j].n
    <3>1. i < l + j
      BY <1>1, <1>2, <1>4 DEF B
    <3> QED
      BY <1>3, <1>4, <1>7, <3>1
  <2> QED
    BY <1>3, <2>1, <2>2, <2>3 DEF Below
<1> QED
  BY <1>3, <1>5, <1>6, <1>7 DEF r

(* A message is added behind all others of its pair.                        *)
LEMMA AppendFlow ==
    ASSUME NEW S, NEW q \in Seq(S), NEW m \in S, NEW s, NEW d
    PROVE  /\ Numbers(Append(q, m), s, d) = Numbers(q, s, d) \cup New(m, s, d)
           /\ Rising(q, s, d)
              /\ (\A x \in Numbers(q, s, d), y \in New(m, s, d) : x < y)
                => Rising(Append(q, m), s, d)
<1> DEFINE p == <<m>>
<1>1. p \in Seq(S) /\ Len(p) = 1 /\ p[1] = m
  OBVIOUS
<1> HIDE DEF p
<1>2. From(p, s, d) = { i \in {1} : m.src = s /\ m.dst = d }
  BY <1>1 DEF From
<1>3. Numbers(p, s, d) = New(m, s, d) /\ Rising(p, s, d)
  BY <1>1, <1>2 DEF Numbers, New, Rising
<1>4. Append(q, m) = q \o p
  BY AppendIsConcat DEF p
<1> QED
  BY <1>1, <1>3, <1>4, ConcatFlow DEF Below

(* The first message of a pair has its lowest number.                       *)
LEMMA TailFlow ==
    ASSUME NEW S, NEW q \in Seq(S), q # <<>>, NEW s, NEW d
    PROVE  /\ Numbers(q, s, d) = New(Head(q), s, d) \cup Numbers(Tail(q), s, d)
           /\ Rising(q, s, d) =>
                /\ Rising(Tail(q), s, d)
                /\ \A x \in New(Head(q), s, d), y \in Numbers(Tail(q), s, d) :
                     x < y
<1> DEFINE t == Tail(q)
           n == Len(q)
           m == Head(q)
           A == From(q, s, d)
           B == From(t, s, d)
<1>1. /\ n \in Nat \ {0} /\ Len(t) = n - 1 /\ m = q[1]
      /\ \A i \in 1 .. n - 1 : t[i] = q[i + 1]
  BY HeadTailProperties, EmptySeq, LenProperties
<1> HIDE DEF t, m
<1>2. /\ A = { i \in 1..n : q[i].src = s /\ q[i].dst = d }
      /\ B = { i \in 1 .. n - 1 : t[i].src = s /\ t[i].dst = d }
  BY <1>1 DEF From
<1>3. /\ Numbers(q, s, d) = { q[i].n : i \in A }
      /\ Numbers(t, s, d) = { t[i].n : i \in B }
      /\ Rising(q, s, d) <=> \A i, j \in A : i < j => q[i].n < q[j].n
      /\ Rising(t, s, d) <=> \A i, j \in B : i < j => t[i].n < t[j].n
  BY DEF Numbers, Rising
<1>4. /\ 1 \in A <=> m.src = s /\ m.dst = d
      /\ New(m, s, d) = IF 1 \in A THEN {q[1].n} ELSE {}
  BY <1>1, <1>2 DEF New
<1> HIDE DEF n, A, B
<1>5. /\ \A i \in B : i + 1 \in A /\ t[i] = q[i + 1] /\ i \in Int /\ i > 0
      /\ \A i \in A : i # 1 => i - 1 \in B /\ q[i] = t[i - 1]
  BY ONLY <1>1, <1>2
<1>6. Numbers(q, s, d) = New(m, s, d) \cup Numbers(t, s, d)
  <2>1. ASSUME NEW i \in A
        PROVE  q[i].n \in New(m, s, d) \cup Numbers(t, s, d)
    BY ONLY <1>3, <1>4, <1>5, <2>1
  <2>2. ASSUME NEW i \in B PROVE t[i].n \in Numbers(q, s, d)
    BY ONLY <1>3, <1>5, <2>2
  <2>3. New(m, s, d) \subseteq Numbers(q, s, d)
    BY <1>3, <1>4
  <2> QED
    BY <1>3, <2>1, <2>2, <2>3
<1>7. ASSUME Rising(q, s, d)
      PROVE  /\ Rising(t, s, d)
             /\ \A x \in New(m, s, d), y \in Numbers(t, s, d) : x < y
  <2>1. ASSUME NEW i \in B, NEW j \in B, i < j PROVE t[i].n < t[j].n
    <3>1. i + 1 < j + 1
      BY <1>5, <2>1
    <3> QED
      BY <1>3, <1>5, <1>7, <2>1, <3>1
  <2>2. ASSUME NEW i \in B, 1 \in A PROVE q[1].n < t[i].n
    <3>1. 1 < i + 1
      BY <1>5
    <3> QED
      BY <1>3, <1>5, <1>7, <2>2, <3>1
  <2> QED
    BY <1>3, <1>4, <2>1, <2>2
<1> QED
  BY <1>6, <1>7 DEF t, m

(* A queue that receives a message keeps the order of its pair, and all its *)
(* messages if it has no limit.                                             *)
LEMMA RecvFlow ==
    ASSUME NEW S, NEW q \in Seq(S), NEW m \in S, NEW k \in Int, NEW s, NEW d
    PROVE  /\ Numbers(Recv(q, m, k), s, d)
                \subseteq Numbers(q, s, d) \cup New(m, s, d)
           /\ k <= 0 => Numbers(Recv(q, m, k), s, d)
                          = Numbers(q, s, d) \cup New(m, s, d)
           /\ Rising(q, s, d)
              /\ (\A x \in Numbers(q, s, d), y \in New(m, s, d) : x < y)
                => Rising(Recv(q, m, k), s, d)
<1>1. Len(q) \in Nat
  BY LenProperties
<1>2. CASE k > 0 /\ Len(q) >= k
  <2> DEFINE p == SubSeq(q, Len(q) - k + 2, Len(q))
  <2>1. \A i \in Len(q) - k + 2 .. Len(q) : q[i] \in S
    BY <1>1, <1>2, ElementOfSeq
  <2>2. /\ p \in Seq(S) /\ Len(p) = k - 1
        /\ \A i \in 1 .. k - 1 : p[i] = q[Len(q) - k + 1 + i]
    BY <1>1, <1>2, <2>1, SubSeqProperties
  <2>3. Recv(q, m, k) = Append(p, m)
    BY <1>2 DEF Recv
  <2> HIDE DEF p
  <2>4. Window(p, q, Len(q) - k + 1)
    BY <1>1, <1>2, <2>2 DEF Window
  <2>5. /\ Numbers(p, s, d) \subseteq Numbers(q, s, d)
        /\ Rising(q, s, d) => Rising(p, s, d)
    BY <2>4, WindowFlow
  <2>6. /\ Numbers(Append(p, m), s, d) = Numbers(p, s, d) \cup New(m, s, d)
        /\ Rising(p, s, d)
           /\ (\A x \in Numbers(p, s, d), y \in New(m, s, d) : x < y)
             => Rising(Append(p, m), s, d)
    BY <2>2, AppendFlow
  <2> QED
    BY <1>2, <2>3, <2>5, <2>6
<1>3. CASE ~(k > 0 /\ Len(q) >= k)
  <2>1. Recv(q, m, k) = Append(q, m)
    BY <1>3 DEF Recv
  <2>2. /\ Numbers(Append(q, m), s, d) = Numbers(q, s, d) \cup New(m, s, d)
        /\ Rising(q, s, d)
           /\ (\A x \in Numbers(q, s, d), y \in New(m, s, d) : x < y)
             => Rising(Append(q, m), s, d)
    BY AppendFlow
  <2> QED
    BY <2>1, <2>2
<1> QED
  BY <1>2, <1>3

(* Moving a batch into an empty run queue splits recv.                      *)
LEMMA MoveFlow ==
    ASSUME NEW S, NEW q \in Seq(S), NEW k \in Int, NEW s, NEW d
    PROVE  LET b == RunAfterMove(q, <<>>, k)
               o == RecvAfterMove(q, k)
           IN  /\ Numbers(q, s, d) = Numbers(b, s, d) \cup Numbers(o, s, d)
               /\ Rising(q, s, d) =>
                    Rising(b, s, d) /\ Rising(o, s, d) /\ Below(b, o, s, d)
<1> DEFINE n == BatchLen(q, k)
           l == Len(q)
           b == SubSeq(q, 1, n)
           o == RecvAfterMove(q, k)
           r == b \o o
<1>1. n \in 0..l /\ l \in Nat
  BY BatchLenBound, LenProperties
<1>2. /\ \A i \in 1..n : q[i] \in S
      /\ \A i \in n + 1 .. l : q[i] \in S
  BY <1>1, ElementOfSeq
<1>3. /\ b \in Seq(S) /\ Len(b) = n
      /\ \A i \in 1..n : b[i] = q[i]
  BY <1>1, <1>2, SubSeqProperties
<1>4. /\ o \in Seq(S) /\ Len(o) = l - n
      /\ \A i \in 1..l - n : o[i] = q[n + i]
  BY <1>1, <1>2, SubSeqProperties DEF RecvAfterMove
<1>5. RunAfterMove(q, <<>>, k) = b
  BY <1>3, ConcatEmptySeq DEF RunAfterMove
<1> HIDE DEF n, b, o
<1>6. /\ r \in Seq(S) /\ Len(r) = n + (l - n)
      /\ \A i \in 1 .. n + (l - n) : r[i] = IF i <= n THEN b[i] ELSE o[i - n]
  BY <1>3, <1>4, ConcatProperties
<1> HIDE DEF r, l
<1>7. Len(r) = l /\ \A i \in 1..l : r[i] = q[i]
  <2>1. Len(r) = l
    BY ONLY <1>1, <1>6
  <2>2. ASSUME NEW i \in 1..l PROVE r[i] = q[i]
    <3>1. r[i] = IF i <= n THEN b[i] ELSE o[i - n]
      BY ONLY <1>1, <1>6, <2>2
    <3>2. CASE i <= n
      BY <1>1, <1>3, <3>1, <3>2
    <3>3. CASE i > n
      <4>1. i - n \in 1 .. l - n /\ n + (i - n) = i
        BY ONLY <1>1, <2>2, <3>3
      <4> QED
        BY <1>1, <1>4, <3>1, <3>3, <4>1
    <3> QED
      BY <1>1, <3>2, <3>3
  <2> QED
    BY <2>1, <2>2
<1>8. r = q
  BY <1>6, <1>7, SeqEqual DEF l
<1>9. /\ Numbers(q, s, d) = Numbers(b, s, d) \cup Numbers(o, s, d)
      /\ Rising(q, s, d) =>
           Rising(b, s, d) /\ Rising(o, s, d) /\ Below(b, o, s, d)
  <2>1. /\ Numbers(r, s, d) = Numbers(b, s, d) \cup Numbers(o, s, d)
        /\ Rising(r, s, d) <=>
             Rising(b, s, d) /\ Rising(o, s, d) /\ Below(b, o, s, d)
    BY <1>3, <1>4, ConcatFlow DEF r
  <2> QED
    BY <1>8, <2>1
<1> QED
  BY <1>5, <1>9 DEF o

(* Messages of other pairs come and go.                                     *)
LEMMA OtherAppendFlow ==
    ASSUME NEW S, NEW p, NEW q, NEW r \in Seq(S), NEW m \in S, NEW s, NEW d,
           NEW lo, NEW hi, ~(m.src = s /\ m.dst = d),
           Flows(p, q, r, s, d, lo, hi)
    PROVE  /\ Flows(p, q, Append(r, m), s, d, lo, hi)
           /\ Full(p, q, r, s, d, lo, hi)
                => Full(p, q, Append(r, m), s, d, lo, hi)
<1>1. New(m, s, d) = {} /\ Rising(r, s, d)
  BY DEF New, Flows
<1>2. Numbers(Append(r, m), s, d) = Numbers(r, s, d) /\ Rising(Append(r, m), s, d)
  <2>1. \A x \in Numbers(r, s, d), y \in New(m, s, d) : x < y
    BY <1>1
  <2>2. /\ Numbers(Append(r, m), s, d) = Numbers(r, s, d) \cup New(m, s, d)
        /\ Rising(r, s, d)
           /\ (\A x \in Numbers(r, s, d), y \in New(m, s, d) : x < y)
             => Rising(Append(r, m), s, d)
    BY AppendFlow
  <2> QED
    BY <1>1, <2>1, <2>2
<1> QED
  BY <1>2 DEF Flows, Full, Below, OnTheWay

LEMMA OtherTailFlow ==
    ASSUME NEW S, NEW p, NEW q, NEW r \in Seq(S), r # <<>>, NEW s, NEW d,
           NEW lo, NEW hi, ~(Head(r).src = s /\ Head(r).dst = d),
           Flows(p, q, r, s, d, lo, hi)
    PROVE  /\ Flows(p, q, Tail(r), s, d, lo, hi)
           /\ Full(p, q, r, s, d, lo, hi) => Full(p, q, Tail(r), s, d, lo, hi)
<1>1. New(Head(r), s, d) = {} /\ Rising(r, s, d)
  BY DEF New, Flows
<1>2. Numbers(Tail(r), s, d) = Numbers(r, s, d) /\ Rising(Tail(r), s, d)
  <2>1. /\ Numbers(r, s, d) = New(Head(r), s, d) \cup Numbers(Tail(r), s, d)
        /\ Rising(Tail(r), s, d)
    BY <1>1, TailFlow
  <2> QED
    BY <1>1, <2>1
<1> QED
  BY <1>2 DEF Flows, Full, Below, OnTheWay

LEMMA OtherRecvFlow ==
    ASSUME NEW S, NEW p, NEW q \in Seq(S), NEW r, NEW m \in S, NEW k \in Int,
           NEW s, NEW d, NEW lo, NEW hi, ~(m.src = s /\ m.dst = d),
           Flows(p, q, r, s, d, lo, hi)
    PROVE  /\ Flows(p, Recv(q, m, k), r, s, d, lo, hi)
           /\ k <= 0 /\ Full(p, q, r, s, d, lo, hi)
                => Full(p, Recv(q, m, k), r, s, d, lo, hi)
<1> DEFINE u == Recv(q, m, k)
<1>1. New(m, s, d) = {} /\ Rising(q, s, d)
  BY DEF New, Flows
<1>2. /\ Numbers(u, s, d) \subseteq Numbers(q, s, d) /\ Rising(u, s, d)
      /\ k <= 0 => Numbers(u, s, d) = Numbers(q, s, d)
  <2>1. \A x \in Numbers(q, s, d), y \in New(m, s, d) : x < y
    BY <1>1
  <2>2. /\ Numbers(u, s, d) \subseteq Numbers(q, s, d) \cup New(m, s, d)
        /\ Rising(u, s, d)
        /\ k <= 0 => Numbers(u, s, d) = Numbers(q, s, d) \cup New(m, s, d)
    BY <1>1, <2>1, RecvFlow
  <2> QED
    BY <1>1, <2>2
<1> HIDE DEF u
<1>3. /\ Flows(p, u, r, s, d, lo, hi)
      /\ k <= 0 /\ Full(p, q, r, s, d, lo, hi) => Full(p, u, r, s, d, lo, hi)
  BY <1>2 DEF Flows, Full, Below, OnTheWay
<1> QED
  BY <1>3 DEF u

(* The next message of p arrives.                                           *)
LEMMA ArriveFlow ==
    ASSUME NEW S, NEW p \in Seq(S), p # <<>>, NEW q, NEW r, NEW s, NEW d,
           NEW lo \in Int, NEW hi \in Int, Flows(p, q, r, s, d, lo, hi)
    PROVE  LET m == Head(p)
               now == IF m.src = s /\ m.dst = d THEN m.n ELSE lo
           IN  /\ Flows(Tail(p), q, r, s, d, now, hi)
               /\ Full(p, q, r, s, d, lo, hi) => Full(Tail(p), q, r, s, d, now, hi)
<1> DEFINE m == Head(p)
           t == Tail(p)
           P == Numbers(p, s, d)
           T == Numbers(t, s, d)
           Q == Numbers(q, s, d)
           R == Numbers(r, s, d)
           N == New(m, s, d)
           now == IF m.src = s /\ m.dst = d THEN m.n ELSE lo
<1>1. /\ Rising(p, s, d) /\ Rising(q, s, d) /\ Rising(r, s, d) /\ lo <= hi
      /\ \A x \in P, y \in Q \cup R : x < y
      /\ \A x \in Q, y \in R : x < y
      /\ \A x \in P \cup Q \cup R : x \in Int /\ lo + 1 <= x /\ x <= hi
      /\ Full(p, q, r, s, d, lo, hi) <=> lo + 1 .. hi \subseteq P \cup Q \cup R
  BY DEF Flows, Below, OnTheWay, Full
<1>2. /\ P = N \cup T /\ Rising(t, s, d)
      /\ \A x \in N, y \in T : x < y
  BY <1>1, TailFlow
<1>3. IF N = {} THEN now = lo ELSE N = {now}
  BY DEF New
<1> HIDE DEF t, m, P, T, Q, R, N, now
<1>4. /\ now <= hi /\ now \in Int
      /\ \A x \in T \cup Q \cup R : x \in Int /\ now + 1 <= x /\ x <= hi
      /\ lo + 1 .. hi \subseteq P \cup Q \cup R
           => now + 1 .. hi \subseteq T \cup Q \cup R
  <2>1. CASE N = {}
    BY <1>1, <1>2, <1>3, <2>1
  <2>2. CASE N # {}
    <3>1. /\ N = {now} /\ now \in P /\ now \in Int /\ lo + 1 <= now /\ now <= hi
          /\ \A x \in T \cup Q \cup R : now < x /\ x \in Int /\ x <= hi
      BY <1>1, <1>2, <1>3, <2>2
    <3>2. now + 1 .. hi \subseteq lo + 1 .. hi /\ now \notin now + 1 .. hi
      BY <3>1
    <3>3. lo + 1 .. hi \subseteq P \cup Q \cup R
            => now + 1 .. hi \subseteq T \cup Q \cup R
      BY <1>2, <3>1, <3>2
    <3> QED
      BY <3>1, <3>3
  <2> QED
    BY <2>1, <2>2
<1>5. /\ Below(t, q, s, d) /\ Below(t, r, s, d) /\ Below(q, r, s, d)
      /\ OnTheWay(t, q, r, s, d) \subseteq now + 1 .. hi
      /\ Full(t, q, r, s, d, now, hi) <=> now + 1 .. hi \subseteq T \cup Q \cup R
  BY <1>1, <1>2, <1>4 DEF Below, OnTheWay, Full, P, T, Q, R
<1>6. /\ Flows(t, q, r, s, d, now, hi)
      /\ Full(p, q, r, s, d, lo, hi) => Full(t, q, r, s, d, now, hi)
  BY <1>1, <1>2, <1>4, <1>5 DEF Flows
<1> QED
  BY <1>6 DEF t, now, m

(* The next message of the pair is sent.                                    *)
LEMMA SendFlow ==
    ASSUME NEW S, NEW p, NEW q, NEW r \in Seq(S), NEW m \in S, NEW s, NEW d,
           NEW lo \in Int, NEW hi \in Int, Flows(p, q, r, s, d, lo, hi),
           m.src = s, m.dst = d, m.n = hi + 1
    PROVE  /\ Flows(p, q, Append(r, m), s, d, lo, hi + 1)
           /\ Full(p, q, r, s, d, lo, hi)
                => Full(p, q, Append(r, m), s, d, lo, hi + 1)
<1> DEFINE t == Append(r, m)
           P == Numbers(p, s, d)
           T == Numbers(t, s, d)
           Q == Numbers(q, s, d)
           R == Numbers(r, s, d)
<1>1. /\ Rising(p, s, d) /\ Rising(q, s, d) /\ Rising(r, s, d) /\ lo <= hi
      /\ \A x \in P, y \in Q \cup R : x < y
      /\ \A x \in Q, y \in R : x < y
      /\ \A x \in P \cup Q \cup R : x \in Int /\ lo + 1 <= x /\ x <= hi
      /\ Full(p, q, r, s, d, lo, hi) <=> lo + 1 .. hi \subseteq P \cup Q \cup R
  BY DEF Flows, Below, OnTheWay, Full
<1>2. New(m, s, d) = {hi + 1} /\ \A x \in P \cup Q \cup R : x < hi + 1
  BY <1>1 DEF New
<1>3. T = R \cup {hi + 1} /\ Rising(t, s, d)
  <2>1. \A x \in Numbers(r, s, d), y \in New(m, s, d) : x < y
    BY <1>2
  <2> QED
    BY <1>1, <1>2, <2>1, AppendFlow
<1> HIDE DEF t, P, T, Q, R
<1>4. /\ \A x \in P, y \in Q \cup T : x < y
      /\ \A x \in Q, y \in T : x < y
      /\ P \cup Q \cup T \subseteq lo + 1 .. hi + 1
      /\ lo + 1 .. hi \subseteq P \cup Q \cup R
           => lo + 1 .. hi + 1 \subseteq P \cup Q \cup T
  BY <1>1, <1>2, <1>3
<1>5. /\ Below(p, q, s, d) /\ Below(p, t, s, d) /\ Below(q, t, s, d)
      /\ OnTheWay(p, q, t, s, d) \subseteq lo + 1 .. hi + 1
      /\ Full(p, q, t, s, d, lo, hi + 1)
           <=> lo + 1 .. hi + 1 \subseteq P \cup Q \cup T
  BY <1>4 DEF Below, OnTheWay, Full, P, T, Q, R
<1>6. lo <= hi + 1
  BY <1>1
<1> QED
  BY <1>1, <1>3, <1>4, <1>5, <1>6 DEF Flows, t

(* The next message of r is dispatched to q.                                *)
LEMMA DispatchFlow ==
    ASSUME NEW S, NEW p, NEW q \in Seq(S), NEW r \in Seq(S), r # <<>>,
           NEW s, NEW d, NEW lo, NEW hi, NEW k \in Int,
           Flows(p, q, r, s, d, lo, hi)
    PROVE  /\ Flows(p, Recv(q, Head(r), k), Tail(r), s, d, lo, hi)
           /\ k <= 0 /\ Full(p, q, r, s, d, lo, hi)
                => Full(p, Recv(q, Head(r), k), Tail(r), s, d, lo, hi)
<1> DEFINE m == Head(r)
           t == Tail(r)
           u == Recv(q, m, k)
           P == Numbers(p, s, d)
           Q == Numbers(q, s, d)
           R == Numbers(r, s, d)
           T == Numbers(t, s, d)
           U == Numbers(u, s, d)
           N == New(m, s, d)
<1>1. /\ Rising(p, s, d) /\ Rising(q, s, d) /\ Rising(r, s, d) /\ lo <= hi
      /\ \A x \in P, y \in Q \cup R : x < y
      /\ \A x \in Q, y \in R : x < y
      /\ P \cup Q \cup R \subseteq lo + 1 .. hi
      /\ Full(p, q, r, s, d, lo, hi) <=> lo + 1 .. hi \subseteq P \cup Q \cup R
  BY DEF Flows, Below, OnTheWay, Full
<1>2. /\ R = N \cup T /\ Rising(t, s, d)
      /\ \A x \in N, y \in T : x < y
  BY <1>1, TailFlow
<1>3. m \in S
  BY HeadTailProperties
<1>4. /\ U \subseteq Q \cup N /\ Rising(u, s, d)
      /\ k <= 0 => U = Q \cup N
  <2>1. \A x \in Numbers(q, s, d), y \in New(m, s, d) : x < y
    BY <1>1, <1>2
  <2> HIDE DEF m
  <2> QED
    BY <1>1, <1>3, <2>1, RecvFlow
<1> HIDE DEF m, t, u, P, Q, R, T, U, N
<1>5. /\ \A x \in P, y \in U \cup T : x < y
      /\ \A x \in U, y \in T : x < y
      /\ P \cup U \cup T \subseteq lo + 1 .. hi
      /\ k <= 0 /\ lo + 1 .. hi \subseteq P \cup Q \cup R
           => lo + 1 .. hi \subseteq P \cup U \cup T
  BY <1>1, <1>2, <1>4
<1>6. /\ Below(p, u, s, d) /\ Below(p, t, s, d) /\ Below(u, t, s, d)
      /\ OnTheWay(p, u, t, s, d) \subseteq lo + 1 .. hi
      /\ Full(p, u, t, s, d, lo, hi) <=> lo + 1 .. hi \subseteq P \cup U \cup T
  BY <1>5 DEF Below, OnTheWay, Full, P, T, U
<1>7. Flows(p, u, t, s, d, lo, hi)
  BY <1>1, <1>2, <1>4, <1>6 DEF Flows
<1> QED
  BY <1>1, <1>5, <1>6, <1>7 DEF u, t, m

(* A batch of q is moved to an empty p.                                     *)
LEMMA MoveFlows ==
    ASSUME NEW S, NEW q \in Seq(S), NEW r, NEW s, NEW d, NEW lo, NEW hi,
           NEW k \in Int, Flows(<<>>, q, r, s, d, lo, hi)
    PROVE  LET b == RunAfterMove(q, <<>>, k)
               o == RecvAfterMove(q, k)
           IN  /\ Flows(b, o, r, s, d, lo, hi)
               /\ Full(<<>>, q, r, s, d, lo, hi) => Full(b, o, r, s, d, lo, hi)
<1> DEFINE b == RunAfterMove(q, <<>>, k)
           o == RecvAfterMove(q, k)
<1>1. /\ Numbers(q, s, d) = Numbers(b, s, d) \cup Numbers(o, s, d)
      /\ Rising(q, s, d) =>
           Rising(b, s, d) /\ Rising(o, s, d) /\ Below(b, o, s, d)
  BY MoveFlow
<1>2. Numbers(<<>>, s, d) = {}
  <2>1. Len(<<>>) = 0
    BY EmptySeq
  <2> QED
    BY <2>1 DEF Numbers, From
<1> HIDE DEF b, o
<1>3. /\ Flows(b, o, r, s, d, lo, hi)
      /\ Full(<<>>, q, r, s, d, lo, hi) => Full(b, o, r, s, d, lo, hi)
  BY <1>1, <1>2 DEF Flows, Full, Below, OnTheWay
<1> QED
  BY <1>3 DEF b, o

(* Without a batch limit all of q is moved behind p.                        *)
LEMMA MoveAllFlows ==
    ASSUME NEW S, NEW p \in Seq(S), NEW q \in Seq(S), NEW r, NEW s, NEW d,
           NEW lo, NEW hi, NEW k \in Int, k <= 0,
           Flows(p, q, r, s, d, lo, hi)
    PROVE  LET b == RunAfterMove(q, p, k)
               o == RecvAfterMove(q, k)
           IN  /\ Flows(b, o, r, s, d, lo, hi)
               /\ Full(p, q, r, s, d, lo, hi) => Full(b, o, r, s, d, lo, hi)
<1> DEFINE b == RunAfterMove(q, p, k)
           o == RecvAfterMove(q, k)
           c == SubSeq(q, 1, Len(q))
<1>1. BatchLen(q, k) = Len(q) /\ Len(q) \in Nat
  BY LenProperties DEF BatchLen
<1>2. \A i \in 1..Len(q) : q[i] \in S
  BY ElementOfSeq
<1>3. c = q
  <2>1. c \in Seq(S) /\ Len(c) = Len(q) /\ \A i \in 1..Len(q) : c[i] = q[i]
    BY <1>1, <1>2, SubSeqProperties
  <2> HIDE DEF c
  <2> QED
    BY <2>1, SeqEqual
<1>4. b = p \o q
  <2>1. ~(k > 0)
    OBVIOUS
  <2>2. SubSeq(q, 1, BatchLen(q, k)) = q
    BY <1>1, <1>3
  <2> QED
    BY <2>1, <2>2, Zenon DEF RunAfterMove
<1>5. Len(o) = 0
  BY <1>1, SubSeqProperties DEF RecvAfterMove
<1> HIDE DEF b, o, c
<1>6. From(o, s, d) = {}
  BY <1>5 DEF From
<1>7. Numbers(o, s, d) = {} /\ Rising(o, s, d)
  BY <1>6 DEF Numbers, Rising
<1>8. /\ Numbers(b, s, d) = Numbers(p, s, d) \cup Numbers(q, s, d)
      /\ Rising(b, s, d)
  <2>1. Rising(p, s, d) /\ Rising(q, s, d) /\ Below(p, q, s, d)
    BY DEF Flows
  <2> QED
    BY <1>4, <2>1, ConcatFlow
<1>9. /\ Flows(b, o, r, s, d, lo, hi)
      /\ Full(p, q, r, s, d, lo, hi) => Full(b, o, r, s, d, lo, hi)
  BY <1>7, <1>8 DEF Flows, Full, Below, OnTheWay
<1> QED
  BY <1>9 DEF b, o

(* A message from outside is delivered at once.                             *)
LEMMA OutsideFlow ==
    ASSUME NEW S, NEW p, NEW q \in Seq(S), NEW m \in S, NEW k \in Int,
           NEW s, NEW d, NEW lo \in Int, NEW hi \in Int,
           Flows(p, q, <<>>, s, d, lo, hi), m.src = s, m.dst = d, m.n = hi + 1
    PROVE  /\ Flows(p, Recv(q, m, k), <<>>, s, d, lo, hi + 1)
           /\ k <= 0 /\ Full(p, q, <<>>, s, d, lo, hi)
                => Full(p, Recv(q, m, k), <<>>, s, d, lo, hi + 1)
<1> DEFINE r == Append(<<>>, m)
<1>1. <<>> \in Seq(S)
  BY EmptySeq
<1>2. r \in Seq(S) /\ r # <<>> /\ Head(r) = m /\ Tail(r) = <<>>
  OBVIOUS
<1>3. /\ Flows(p, q, r, s, d, lo, hi + 1)
      /\ Full(p, q, <<>>, s, d, lo, hi) => Full(p, q, r, s, d, lo, hi + 1)
  BY <1>1, SendFlow
<1> HIDE DEF r
<1>4. /\ Flows(p, Recv(q, Head(r), k), Tail(r), s, d, lo, hi + 1)
      /\ k <= 0 /\ Full(p, q, r, s, d, lo, hi + 1)
           => Full(p, Recv(q, Head(r), k), Tail(r), s, d, lo, hi + 1)
  BY <1>2, <1>3, DispatchFlow
<1> QED
  BY <1>2, <1>3, <1>4

=============================================================================
