----------------------------- MODULE EchoProofs -----------------------------
(***************************************************************************)
(* Connection implements EchoService, for any number of workers and chunks *)
(* and any size of the send buffer.                                        *)
(***************************************************************************)
EXTENDS ConnectionProofs, FiniteSetTheorems

-----------------------------------------------------------------------------
(* What a sequence operation does to the numbers in a sequence, and to     *)
(* their order.                                                            *)

LEMMA AbsType == \A n \in Int : Abs(n) \in Nat
BY DEF Abs

LEMMA AbsOfNat == \A n \in Nat : Abs(n) = n
BY DEF Abs

LEMMA InNums ==
    ASSUME NEW s \in Seq(Int), NEW x
    PROVE  x \in Nums(s) <=> \E i \in 1..Len(s) : x = Abs(s[i])
BY DEF Nums, Range

LEMMA InRange ==
    ASSUME NEW s \in Seq(Int), NEW x
    PROVE  x \in Range(s) <=> \E i \in 1..Len(s) : x = s[i]
BY DEF Range

LEMMA RangeConcat ==
    ASSUME NEW s \in Seq(Int), NEW t \in Seq(Int)
    PROVE  Range(s \o t) \subseteq Range(s) \cup Range(t)
<1> DEFINE st == s \o t
<1>1. st \in Seq(Int) /\ Len(st) = Len(s) + Len(t) /\ Len(s) \in Nat /\ Len(t) \in Nat
  BY Joined
<1>2. \A i \in 1..Len(s) : st[i] = s[i]
  OBVIOUS
<1>3. \A i \in 1..(Len(s) + Len(t)) : i \notin 1..Len(s) => i - Len(s) \in 1..Len(t) /\ st[i] = t[i - Len(s)]
  OBVIOUS
<1> HIDE DEF st
<1>4. ASSUME NEW x \in Range(st) PROVE x \in Range(s) \cup Range(t)
  <2>1. PICK i \in 1..Len(st) : x = st[i]
    BY <1>1, InRange
  <2>2. CASE i \in 1..Len(s)
    BY <1>2, <2>1, <2>2, InRange
  <2>3. CASE i \notin 1..Len(s)
    BY <1>1, <1>3, <2>1, <2>3, InRange
  <2> QED BY <2>2, <2>3
<1>5. Range(st) \subseteq Range(s) \cup Range(t)
  BY <1>4
<1> QED BY <1>5 DEF st

LEMMA PartsInRange ==
    ASSUME NEW s \in Seq(Int), NEW t \in Seq(Int)
    PROVE  Range(s) \subseteq Range(s \o t) /\ Range(t) \subseteq Range(s \o t)
<1> DEFINE st == s \o t
<1>1. st \in Seq(Int) /\ Len(st) = Len(s) + Len(t) /\ Len(s) \in Nat /\ Len(t) \in Nat
  BY Joined
<1>2. \A i \in 1..Len(s) : st[i] = s[i]
  OBVIOUS
<1>3. \A i \in 1..Len(t) : st[Len(s) + i] = t[i]
  OBVIOUS
<1> HIDE DEF st
<1>4. ASSUME NEW x \in Range(s) PROVE x \in Range(st)
  <2>1. PICK i \in 1..Len(s) : x = s[i]
    BY InRange
  <2>2. i \in 1..Len(st)
    BY <1>1
  <2> QED BY <1>1, <1>2, <2>1, <2>2, InRange
<1>5. ASSUME NEW x \in Range(t) PROVE x \in Range(st)
  <2>1. PICK i \in 1..Len(t) : x = t[i]
    BY InRange
  <2>2. Len(s) + i \in 1..Len(st)
    BY <1>1
  <2> QED BY <1>1, <1>3, <2>1, <2>2, InRange
<1>6. Range(s) \subseteq Range(st) /\ Range(t) \subseteq Range(st)
  BY <1>4, <1>5
<1> QED BY <1>6 DEF st

LEMMA NumsType ==
    ASSUME NEW s \in Seq(Int)
    PROVE  Nums(s) \subseteq Int
<1> SUFFICES ASSUME NEW x \in Nums(s) PROVE x \in Int
  OBVIOUS
<1>1. PICK i \in 1..Len(s) : x = Abs(s[i])
  BY InNums
<1>2. s[i] \in Int
  OBVIOUS
<1> QED BY <1>1, <1>2, AbsType, SMTT(30)

LEMMA NumsConcat ==
    ASSUME NEW s \in Seq(Int), NEW t \in Seq(Int)
    PROVE  Nums(s \o t) = Nums(s) \cup Nums(t)
<1> DEFINE st == s \o t
<1>1. /\ st \in Seq(Int) /\ Len(st) = Len(s) + Len(t)
      /\ \A i \in 1..Len(s) : st[i] = s[i]
      /\ \A i \in 1..Len(t) : st[Len(s) + i] = t[i]
      /\ Len(s) \in Nat /\ Len(t) \in Nat
  OBVIOUS
<1> HIDE DEF st
<1>2. ASSUME NEW x \in Nums(st) PROVE x \in Nums(s) \cup Nums(t)
  <2>1. PICK i \in 1..Len(st) : x = Abs(st[i])
    BY <1>1, InNums
  <2>2. CASE i \in 1..Len(s)
    BY <1>1, <2>1, <2>2, InNums
  <2>3. CASE i \notin 1..Len(s)
    <3>1. i - Len(s) \in 1..Len(t) /\ st[i] = t[i - Len(s)]
      <4>1. i - Len(s) \in 1..Len(t) /\ Len(s) + (i - Len(s)) = i
        BY <1>1, <2>3
      <4> QED BY <1>1, <4>1
    <3> QED BY <2>1, <3>1, InNums
  <2> QED BY <2>2, <2>3
<1>3. ASSUME NEW x \in Nums(s) PROVE x \in Nums(st)
  <2>1. PICK i \in 1..Len(s) : x = Abs(s[i])
    BY InNums
  <2>2. i \in 1..Len(st) /\ st[i] = s[i]
    BY <1>1
  <2> QED BY <1>1, <2>1, <2>2, InNums
<1>4. ASSUME NEW x \in Nums(t) PROVE x \in Nums(st)
  <2>1. PICK i \in 1..Len(t) : x = Abs(t[i])
    BY InNums
  <2>2. Len(s) + i \in 1..Len(st) /\ st[Len(s) + i] = t[i]
    BY <1>1
  <2> QED BY <1>1, <2>1, <2>2, InNums
<1>5. Nums(st) = Nums(s) \cup Nums(t)
  BY <1>2, <1>3, <1>4
<1> QED
  BY <1>5 DEF st

LEMMA NumsAppend ==
    ASSUME NEW s \in Seq(Int), NEW e \in Int
    PROVE  Nums(Append(s, e)) = Nums(s) \cup {Abs(e)}
<1>1. Range(Append(s, e)) = Range(s) \cup {e}
  BY AppendRange
<1> QED
  BY <1>1 DEF Nums

LEMMA SortedConcat ==
    ASSUME NEW p, NEW s \in Seq(Int), NEW t \in Seq(Int)
    PROVE  Sorted(p, s \o t) <=> Sorted(p, s) /\ Sorted(p, t) /\ Ahead(p, Nums(s), Nums(t))
<1> DEFINE st == s \o t
<1>1. /\ st \in Seq(Int) /\ Len(st) = Len(s) + Len(t)
      /\ \A i \in 1..Len(s) : st[i] = s[i]
      /\ \A i \in 1..Len(t) : st[Len(s) + i] = t[i]
      /\ Len(s) \in Nat /\ Len(t) \in Nat
      /\ DOMAIN s = 1..Len(s) /\ DOMAIN t = 1..Len(t) /\ DOMAIN st = 1..Len(st)
  OBVIOUS
<1>0. \A i \in 1..Len(st) : i \notin 1..Len(s) => i - Len(s) \in 1..Len(t) /\ st[i] = t[i - Len(s)]
  <2> TAKE i \in 1..Len(st)
  <2> HAVE i \notin 1..Len(s)
  <2>1. i - Len(s) \in 1..Len(t) /\ Len(s) + (i - Len(s)) = i
    BY <1>1
  <2> QED BY <1>1, <2>1
<1> HIDE DEF st
<1>2. ASSUME Sorted(p, st) PROVE Sorted(p, s) /\ Sorted(p, t) /\ Ahead(p, Nums(s), Nums(t))
  <2>1. Sorted(p, s)
    BY <1>1, <1>2 DEF Sorted
  <2>2. Sorted(p, t)
    <3> SUFFICES ASSUME NEW i \in 1..Len(t), NEW j \in 1..Len(t), i < j
                 PROVE  Before(p, Abs(t[i]), Abs(t[j]))
      BY <1>1 DEF Sorted
    <3>1. /\ Len(s) + i \in 1..Len(st) /\ Len(s) + j \in 1..Len(st) /\ Len(s) + i < Len(s) + j
          /\ st[Len(s) + i] = t[i] /\ st[Len(s) + j] = t[j]
      BY <1>1, SMTT(30)
    <3> QED BY <1>1, <1>2, <3>1 DEF Sorted
  <2>3. ASSUME NEW a \in Nums(s), NEW b \in Nums(t) PROVE Before(p, a, b)
    <3>1. PICK i \in 1..Len(s) : a = Abs(s[i])
      BY InNums
    <3>2. PICK j \in 1..Len(t) : b = Abs(t[j])
      BY InNums
    <3>3. /\ i \in 1..Len(st) /\ Len(s) + j \in 1..Len(st) /\ i < Len(s) + j
          /\ st[i] = s[i] /\ st[Len(s) + j] = t[j]
      BY <1>1, SMTT(30)
    <3> QED BY <1>1, <1>2, <3>1, <3>2, <3>3 DEF Sorted
  <2> QED BY <2>1, <2>2, <2>3 DEF Ahead
<1>3. ASSUME Sorted(p, s), Sorted(p, t), Ahead(p, Nums(s), Nums(t)) PROVE Sorted(p, st)
  <2> SUFFICES ASSUME NEW i \in 1..Len(st), NEW j \in 1..Len(st), i < j
               PROVE  Before(p, Abs(st[i]), Abs(st[j]))
    BY <1>1 DEF Sorted
  <2>1. CASE j \in 1..Len(s)
    <3>1. i \in 1..Len(s) /\ st[i] = s[i] /\ st[j] = s[j]
      BY <1>1, <2>1
    <3> QED BY <1>1, <1>3, <2>1, <3>1 DEF Sorted
  <2>2. CASE i \in 1..Len(s) /\ j \notin 1..Len(s)
    <3>1. Abs(st[i]) \in Nums(s)
      BY <1>1, <2>2, InNums
    <3>2. Abs(st[j]) \in Nums(t)
      BY <1>0, <2>2, InNums
    <3> QED BY <1>3, <3>1, <3>2 DEF Ahead
  <2>3. CASE i \notin 1..Len(s) /\ j \notin 1..Len(s)
    <3>1. i - Len(s) < j - Len(s)
      BY <1>1
    <3> QED BY <1>0, <1>1, <1>3, <2>3, <3>1 DEF Sorted
  <2> QED BY <1>1, <2>1, <2>2, <2>3
<1>4. Sorted(p, st) <=> Sorted(p, s) /\ Sorted(p, t) /\ Ahead(p, Nums(s), Nums(t))
  BY <1>2, <1>3
<1> QED
  BY <1>4 DEF st

LEMMA HeadFirst ==
    ASSUME NEW s \in Seq(Int), s # <<>>
    PROVE  /\ Head(s) \in Int /\ Tail(s) \in Seq(Int)
           /\ Nums(s) = {Abs(Head(s))} \cup Nums(Tail(s))
           /\ \A p : Sorted(p, s) => Sorted(p, Tail(s)) /\ Ahead(p, {Abs(Head(s))}, Nums(Tail(s)))
<1> DEFINE h == <<Head(s)>>
           t == Tail(s)
<1>1. /\ Head(s) \in Int /\ t \in Seq(Int) /\ h \in Seq(Int)
      /\ s = h \o t
  OBVIOUS
<1>2. Nums(h) = {Abs(Head(s))}
  BY <1>1 DEF Nums, Range
<1> HIDE DEF h, t
<1>3. /\ Nums(s) = Nums(h) \cup Nums(t)
      /\ \A p : Sorted(p, s) => Sorted(p, t) /\ Ahead(p, Nums(h), Nums(t))
  BY <1>1, NumsConcat, SortedConcat
<1>4. /\ Nums(s) = {Abs(Head(s))} \cup Nums(t)
      /\ \A p : Sorted(p, s) => Sorted(p, t) /\ Ahead(p, {Abs(Head(s))}, Nums(t))
  BY <1>2, <1>3
<1> QED
  BY <1>1, <1>4 DEF t

LEMMA Split ==
    ASSUME NEW s \in Seq(Int), NEW k \in 0..Len(s)
    PROVE  LET a == SubSeq(s, 1, k)
               b == SubSeq(s, k + 1, Len(s))
           IN  /\ a \in Seq(Int) /\ b \in Seq(Int)
               /\ s = a \o b
               /\ Nums(s) = Nums(a) \cup Nums(b)
               /\ \A p : Sorted(p, s) => Sorted(p, a) /\ Sorted(p, b) /\ Ahead(p, Nums(a), Nums(b))
<1> DEFINE a == SubSeq(s, 1, k)
           b == SubSeq(s, k + 1, Len(s))
<1>1. a \in Seq(Int) /\ b \in Seq(Int) /\ s = a \o b
  BY Cut
<1> HIDE DEF a, b
<1>2. /\ Nums(s) = Nums(a) \cup Nums(b)
      /\ \A p : Sorted(p, s) => Sorted(p, a) /\ Sorted(p, b) /\ Ahead(p, Nums(a), Nums(b))
  BY <1>1, NumsConcat, SortedConcat
<1> QED
  BY <1>1, <1>2 DEF a, b

LEMMA InQueueNums ==
    ASSUME NEW q, NEW x
    PROVE  x \in QueueNums(q) <=> \E i \in DOMAIN q : x \in Nums(q[i])
BY DEF QueueNums

LEMMA QueueAdd ==
    ASSUME NEW q \in Seq(Seq(Int)), NEW m \in Seq(Int)
    PROVE  /\ QueueNums(Append(q, m)) = QueueNums(q) \cup Nums(m)
           /\ \A p : QueueSorted(p, q) /\ Ascending(m) /\ Ahead(p, QueueNums(q), Nums(m))
                        => QueueSorted(p, Append(q, m))
<1> DEFINE r == Append(q, m)
<1>1. /\ DOMAIN q = 1..Len(q) /\ DOMAIN r = 1..(Len(q) + 1) /\ Len(q) \in Nat
      /\ \A i \in DOMAIN q : r[i] = q[i]
      /\ r[Len(q) + 1] = m
  OBVIOUS
<1> HIDE DEF r
<1>2. \A i \in DOMAIN r : i \in DOMAIN q \/ i = Len(q) + 1
  <2>1. \A n \in Nat : \A i \in 1..(n + 1) : i \in 1..n \/ i = n + 1
    OBVIOUS
  <2> QED BY <1>1, <2>1
<1>3. \A i \in DOMAIN q : i \in DOMAIN r
  BY <1>1
<1>4. Len(q) + 1 \in DOMAIN r
  BY <1>1
<1>5. QueueNums(r) = QueueNums(q) \cup Nums(m)
  <2>1. ASSUME NEW x \in QueueNums(r) PROVE x \in QueueNums(q) \cup Nums(m)
    BY <1>1, <1>2, InQueueNums
  <2>2. ASSUME NEW x \in QueueNums(q) \cup Nums(m) PROVE x \in QueueNums(r)
    BY <1>1, <1>3, <1>4, InQueueNums
  <2> QED BY <2>1, <2>2
<1>6. ASSUME NEW p, QueueSorted(p, q), Ascending(m), Ahead(p, QueueNums(q), Nums(m))
      PROVE  QueueSorted(p, r)
  <2>1. \A i \in DOMAIN r : Ascending(r[i])
    BY <1>1, <1>2, <1>6 DEF QueueSorted
  <2>2. ASSUME NEW i \in DOMAIN r, NEW j \in DOMAIN r, i < j
        PROVE  Ahead(p, Nums(r[i]), Nums(r[j]))
    <3>1. i \in DOMAIN q
      BY <1>1, <2>2
    <3>2. CASE j \in DOMAIN q
      BY <1>1, <1>6, <2>2, <3>1, <3>2 DEF QueueSorted
    <3>3. CASE j = Len(q) + 1
      BY <1>1, <1>6, <3>1, <3>3, InQueueNums DEF Ahead
    <3> QED BY <1>2, <3>2, <3>3
  <2> QED BY <2>1, <2>2 DEF QueueSorted
<1> QED
  BY <1>5, <1>6 DEF r

LEMMA QueueTake ==
    ASSUME NEW q \in Seq(Seq(Int)), q # <<>>
    PROVE  /\ Head(q) \in Seq(Int) /\ Tail(q) \in Seq(Seq(Int))
           /\ QueueNums(q) = Nums(Head(q)) \cup QueueNums(Tail(q))
           /\ \A p : QueueSorted(p, q) => /\ Ascending(Head(q)) /\ QueueSorted(p, Tail(q))
                                          /\ Ahead(p, Nums(Head(q)), QueueNums(Tail(q)))
<1> DEFINE m == Head(q)
           r == Tail(q)
<1>1. /\ m \in Seq(Int) /\ r \in Seq(Seq(Int)) /\ Len(q) \in Nat
      /\ DOMAIN q = 1..Len(q) /\ DOMAIN r = 1..(Len(q) - 1) /\ 1 \in DOMAIN q
      /\ \A i \in DOMAIN r : r[i] = q[i + 1]
      /\ m = q[1]
  OBVIOUS
<1> HIDE DEF m, r
<1>2. \A i \in DOMAIN r : i + 1 \in DOMAIN q /\ 1 < i + 1
  BY <1>1, SMTT(30)
<1>3. \A i \in DOMAIN q : i = 1 \/ (i - 1 \in DOMAIN r /\ r[i - 1] = q[i])
  <2> TAKE i \in DOMAIN q
  <2>1. i # 1 => i - 1 \in DOMAIN r /\ (i - 1) + 1 = i
    BY <1>1
  <2> QED BY <1>1, <2>1
<1>4. QueueNums(q) = Nums(m) \cup QueueNums(r)
  <2>1. ASSUME NEW x \in QueueNums(q) PROVE x \in Nums(m) \cup QueueNums(r)
    <3>1. PICK i \in DOMAIN q : x \in Nums(q[i])
      BY <2>1, InQueueNums
    <3>2. CASE i = 1
      BY <1>1, <3>1, <3>2
    <3>3. CASE i - 1 \in DOMAIN r /\ r[i - 1] = q[i]
      BY <3>1, <3>3, InQueueNums
    <3> QED BY <1>3, <3>2, <3>3
  <2>2. ASSUME NEW x \in Nums(m) \cup QueueNums(r) PROVE x \in QueueNums(q)
    BY <1>1, <1>2, InQueueNums
  <2> QED BY <2>1, <2>2
<1>5. ASSUME NEW p, QueueSorted(p, q)
      PROVE  Ascending(m) /\ QueueSorted(p, r) /\ Ahead(p, Nums(m), QueueNums(r))
  <2>1. Ascending(m) /\ \A i \in DOMAIN r : Ascending(r[i])
    BY <1>1, <1>2, <1>5 DEF QueueSorted
  <2>2. ASSUME NEW i \in DOMAIN r, NEW j \in DOMAIN r, i < j
        PROVE  Ahead(p, Nums(r[i]), Nums(r[j]))
    <3>1. i + 1 \in DOMAIN q /\ j + 1 \in DOMAIN q /\ i \in Nat /\ j \in Nat
      BY <1>1, <1>2, SMTT(30)
    <3>2. i + 1 < j + 1
      BY <2>2, <3>1
    <3> QED BY <1>1, <1>5, <3>1, <3>2 DEF QueueSorted
  <2>3. Ahead(p, Nums(m), QueueNums(r))
    <3> SUFFICES ASSUME NEW a \in Nums(m), NEW b \in QueueNums(r) PROVE Before(p, a, b)
      BY DEF Ahead
    <3>1. PICK j \in DOMAIN r : b \in Nums(r[j])
      BY InQueueNums
    <3>2. Ahead(p, Nums(m), Nums(r[j]))
      BY <1>1, <1>2, <1>5 DEF QueueSorted
    <3> QED BY <3>1, <3>2 DEF Ahead
  <2> QED BY <2>1, <2>2, <2>3 DEF QueueSorted
<1> QED
  BY <1>1, <1>4, <1>5 DEF m, r

-----------------------------------------------------------------------------
(* Chunks that move from one station to another.                           *)

LEMMA StrictlyBefore ==
    ASSUME NEW p, NEW a \in Int, NEW b \in Int, a < b
    PROVE  Before(p, a, b)
BY DEF Before

LEMMA NoPoolIsStrict == \A a, b \in Int : Before({}, a, b) => a < b
<1>1. Cardinality({}) = 0
  BY FS_EmptySet
<1> QED
  BY <1>1 DEF Before

(* Chunks in the order of sending are in order for any number of workers.  *)
LEMMA StrictOrder ==
    ASSUME NEW p, NEW s \in Seq(Int), NEW t \in Seq(Int)
    PROVE  /\ Ascending(s) => Sorted(p, s)
           /\ Ahead({}, Nums(s), Nums(t)) => Ahead(p, Nums(s), Nums(t))
<1>1. ASSUME NEW a \in Int, NEW b \in Int, Before({}, a, b) PROVE Before(p, a, b)
  BY <1>1, NoPoolIsStrict, StrictlyBefore
<1>2. \A i \in DOMAIN s : Abs(s[i]) \in Int
  BY AbsType
<1>3. Nums(s) \subseteq Int /\ Nums(t) \subseteq Int
  BY NumsType
<1> QED
  BY <1>1, <1>2, <1>3 DEF Ascending, Sorted, Ahead

LEMMA BeforeIsOther ==
    ASSUME NEW p, NEW a \in Int, NEW b \in Int, Before(p, a, b)
    PROVE  a # b
BY DEF Before

Chunks(S) == UNION {S[i] : i \in 1..7}

LEMMA InChunks ==
    ASSUME NEW S, NEW x
    PROVE  x \in Chunks(S) <=> \E i \in 1..7 : x \in S[i]
BY DEF Chunks

LEMMA ChunksWithin ==
    ASSUME NEW S, NEW N
    PROVE  (\A k \in 1..7 : S[k] \subseteq N) <=> Chunks(S) \subseteq N
BY DEF Chunks

(* X leaves station j, where it came first, for station i.                 *)
LEMMA Move ==
    ASSUME NEW p, NEW A, NEW B, NEW X, NEW i \in 1..7, NEW j \in 1..7, i < j,
           Chain(p, A),
           A[j] = X \cup B[j], Ahead(p, X, B[j]),
           B[i] = A[i] \cup X,
           \A k \in 1..7 : k # i /\ k # j => B[k] = A[k],
           \A k \in 1..7 : i < k /\ k < j => A[k] = {}
    PROVE  Chain(p, B) /\ Chunks(B) = Chunks(A)
<1>1. ASSUME NEW k \in 1..7, NEW l \in 1..7, k < l, NEW a \in B[k], NEW b \in B[l]
      PROVE  Before(p, a, b)
  <2>1. a \in A[k] \/ (k = i /\ a \in X)
    <3>1. CASE k # i /\ k # j BY <1>1, <3>1
    <3>2. CASE k = i BY <1>1, <3>2
    <3>3. CASE k = j BY <1>1, <3>3
    <3> QED BY <3>1, <3>2, <3>3
  <2>2. b \in A[l] \/ (l = i /\ b \in X)
    <3>1. CASE l # i /\ l # j BY <1>1, <3>1
    <3>2. CASE l = i BY <1>1, <3>2
    <3>3. CASE l = j BY <1>1, <3>3
    <3> QED BY <3>1, <3>2, <3>3
  <2>3. X \subseteq A[j]
    OBVIOUS
  <2>4. CASE a \in A[k] /\ b \in A[l]
    BY <1>1, <2>4 DEF Chain, Ahead
  <2>5. CASE a \in A[k] /\ l = i /\ b \in X
    <3>1. k < j
      BY <1>1, <2>5
    <3> QED BY <2>3, <2>5, <3>1 DEF Chain, Ahead
  <2>6. CASE k = i /\ a \in X /\ b \in A[l]
    <3>1. CASE l = j
      BY <1>1, <2>6, <3>1 DEF Ahead
    <3>2. CASE j < l
      BY <2>3, <2>6, <3>2 DEF Chain, Ahead
    <3>3. CASE l < j
      BY <1>1, <2>6, <3>3
    <3> QED BY <3>1, <3>2, <3>3
  <2> QED BY <1>1, <2>1, <2>2, <2>4, <2>5, <2>6
<1>2. ASSUME NEW x \in Chunks(A) PROVE x \in Chunks(B)
  <2>1. PICK k \in 1..7 : x \in A[k]
    BY InChunks
  <2>2. x \in B[k] \/ x \in B[i]
    <3>1. CASE k = i BY <2>1, <3>1
    <3>2. CASE k = j BY <2>1, <3>2
    <3>3. CASE k # i /\ k # j BY <2>1, <3>3
    <3> QED BY <3>1, <3>2, <3>3
  <2> QED BY <2>2, InChunks
<1>3. ASSUME NEW x \in Chunks(B) PROVE x \in Chunks(A)
  <2>1. PICK k \in 1..7 : x \in B[k]
    BY InChunks
  <2>2. x \in A[k] \/ x \in A[j]
    <3>1. CASE k = i BY <2>1, <3>1
    <3>2. CASE k = j BY <2>1, <3>2
    <3>3. CASE k # i /\ k # j BY <2>1, <3>3
    <3> QED BY <3>1, <3>2, <3>3
  <2> QED BY <2>2, InChunks
<1> QED
  BY <1>1, <1>2, <1>3 DEF Chain, Ahead

(* Chunks that are gone leave an order behind.                             *)
LEMMA Leave ==
    ASSUME NEW p, NEW A, NEW B, Chain(p, A), \A k \in 1..7 : B[k] \subseteq A[k]
    PROVE  Chain(p, B)
BY DEF Chain, Ahead

(* A chunk that is newer than all others may come last.                    *)
LEMMA Arrive ==
    ASSUME NEW p, NEW A, NEW B, NEW n \in Nat, Chain(p, A),
           \A k \in 1..7 : A[k] \subseteq 1..n,
           \A k \in 1..6 : B[k] = A[k],
           B[7] = A[7] \cup {n + 1}
    PROVE  /\ Chain(p, B) /\ Chunks(B) = Chunks(A) \cup {n + 1}
           /\ \A k \in 1..7 : B[k] \subseteq 1..(n + 1)
<1>1. ASSUME NEW k \in 1..7, NEW l \in 1..7, k < l, NEW a \in B[k], NEW b \in B[l]
      PROVE  Before(p, a, b)
  <2>1. k \in 1..6 /\ a \in A[k] /\ a \in 1..n
    BY <1>1
  <2>2. b \in A[l] \/ b = n + 1
    BY <1>1
  <2>3. CASE b \in A[l]
    BY <1>1, <2>1, <2>3 DEF Chain, Ahead
  <2>4. CASE b = n + 1
    BY <2>1, <2>4, StrictlyBefore
  <2> QED BY <2>2, <2>3, <2>4
<1>2. \A k \in 1..7 : k \in 1..6 \/ k = 7
  OBVIOUS
<1>3. ASSUME NEW x PROVE x \in Chunks(B) <=> x \in Chunks(A) \cup {n + 1}
  <2>1. (\E k \in 1..7 : x \in B[k]) <=> (\E k \in 1..7 : x \in A[k]) \/ x = n + 1
    BY <1>2
  <2> QED BY <2>1, InChunks
<1>4. 1..n \subseteq 1..(n + 1) /\ n + 1 \in 1..(n + 1)
  OBVIOUS
<1>5. \A k \in 1..7 : B[k] \subseteq 1..(n + 1)
  BY <1>2, <1>4
<1> QED
  BY <1>1, <1>3, <1>5 DEF Chain, Ahead

-----------------------------------------------------------------------------
(* The stations of a state.                                                *)

LEMMA LargerSet ==
    ASSUME NEW S, NEW T, S \subseteq T, NEW s \in Seq(S)
    PROVE  s \in Seq(T)
OBVIOUS

LEMMA Numbers ==
    ASSUME NEW S, S \subseteq Int
    PROVE  Seq(S) \subseteq Seq(Int) /\ Seq(Seq(S) \ {<<>>}) \subseteq Seq(Seq(Int))
<1>1. Seq(S) \subseteq Seq(Int)
  BY LargerSet
<1>2. Seq(S) \ {<<>>} \subseteq Seq(Int)
  BY <1>1
<1> QED
  BY <1>1, <1>2, LargerSet

LEMMA Sequences ==
    TypeOK => /\ sndbuf \in Seq(Int) /\ outputbuffer \in Seq(Int)
              /\ taskqueue \in Seq(Seq(Int)) /\ workqueue \in Seq(Seq(Int))
              /\ message \in [Workers -> Seq(Int)]
              /\ inputbuffer \in Seq(Int) /\ inbound \in Seq(Int)
<1> SUFFICES ASSUME TypeOK
             PROVE  /\ sndbuf \in Seq(Int) /\ outputbuffer \in Seq(Int)
                    /\ taskqueue \in Seq(Seq(Int)) /\ workqueue \in Seq(Seq(Int))
                    /\ message \in [Workers -> Seq(Int)]
                    /\ inputbuffer \in Seq(Int) /\ inbound \in Seq(Int)
  OBVIOUS
<1>1. Sent \subseteq Int /\ Answers \subseteq Int
  BY ConnectionAssumption DEF Sent, Answers
<1>2. Seq(Sent) \subseteq Seq(Int) /\ Seq(Answers) \subseteq Seq(Int) /\ Seq(Seq(Sent) \ {<<>>}) \subseteq Seq(Seq(Int))
  BY <1>1, Numbers
<1> QED
  BY <1>2 DEF TypeOK

(* OnTheWay is what is at the stations that still have a way to the client.*)
LEMMA OnTheWayIs ==
    TypeOK => /\ Reset => OnTheWay = {}
              /\ ~Reset /\ disconnect => OnTheWay = Stations[1]
              /\ ~Reset /\ ~disconnect => OnTheWay = Chunks(Stations)
<1> SUFFICES ASSUME TypeOK
             PROVE  /\ Reset => OnTheWay = {}
                    /\ ~Reset /\ disconnect => OnTheWay = Stations[1]
                    /\ ~Reset /\ ~disconnect => OnTheWay = Chunks(Stations)
  OBVIOUS
<1>1. Reset => OnTheWay = {}
  BY DEF OnTheWay
<1>2. Stations[1] = {Abs(n) : n \in Range(sndbuf)}
  BY DEF Stations, Nums
<1>3. ~Reset /\ disconnect => OnTheWay = Stations[1]
  BY <1>2 DEF OnTheWay
<1>4. ASSUME ~Reset, ~disconnect PROVE OnTheWay = Chunks(Stations)
  <2>1. OnTheWay = {Abs(n) : n \in Range(sndbuf) \cup InServer}
    BY <1>4 DEF OnTheWay
  <2>2. ASSUME NEW q, NEW x
        PROVE  x \in QueueNums(q) <=> \E m \in Range(q) : \E n \in Range(m) : x = Abs(n)
    BY DEF QueueNums, Nums, Range
  <2>3. ASSUME NEW x
        PROVE  x \in Chunks(Stations) <=> \/ x \in Nums(sndbuf) \/ x \in Nums(outputbuffer)
                                          \/ x \in QueueNums(taskqueue) \/ x \in QueueNums(message)
                                          \/ x \in QueueNums(workqueue)
                                          \/ x \in Nums(inputbuffer) \/ x \in Nums(inbound)
    <3>1. \A k \in 1..7 : k \in {1, 2, 3, 4, 5, 6, 7}
      OBVIOUS
    <3> QED BY <3>1, InChunks DEF Stations
  <2>4. ASSUME NEW n
        PROVE  n \in InServer <=> \/ n \in Range(inbound) \/ n \in Range(inputbuffer) \/ n \in Range(outputbuffer)
                                  \/ \E m \in Range(workqueue) : n \in Range(m)
                                  \/ \E m \in Range(message) : n \in Range(m)
                                  \/ \E m \in Range(taskqueue) : n \in Range(m)
    <3> DEFINE M == {inbound, inputbuffer, outputbuffer} \cup Range(workqueue) \cup Range(message) \cup Range(taskqueue)
    <3>1. InServer = UNION {Range(m) : m \in M}
      BY DEF InServer
    <3>2. n \in InServer <=> \E m \in M : n \in Range(m)
      BY <3>1
    <3> QED BY <3>2
  <2>5. ASSUME NEW s, NEW x PROVE x \in Nums(s) <=> \E n \in Range(s) : x = Abs(n)
    BY DEF Nums
  <2>6. ASSUME NEW x PROVE x \in OnTheWay <=> \E n : (n \in Range(sndbuf) \/ n \in InServer) /\ x = Abs(n)
    BY <2>1
  <2>7. ASSUME NEW x PROVE x \in OnTheWay <=> x \in Chunks(Stations)
    BY <2>2, <2>3, <2>4, <2>5, <2>6
  <2> QED BY <2>7
<1> QED
  BY <1>1, <1>3, <1>4

LEMMA OnTheWayWillBe ==
    (TypeOK => /\ Reset => OnTheWay = {}
               /\ ~Reset /\ disconnect => OnTheWay = Stations[1]
               /\ ~Reset /\ ~disconnect => OnTheWay = Chunks(Stations))'
BY OnTheWayIs, PTL

LEMMA SequencesNext ==
    (TypeOK => /\ sndbuf \in Seq(Int) /\ outputbuffer \in Seq(Int)
               /\ taskqueue \in Seq(Seq(Int)) /\ workqueue \in Seq(Seq(Int))
               /\ message \in [Workers -> Seq(Int)]
               /\ inputbuffer \in Seq(Int) /\ inbound \in Seq(Int))'
BY Sequences, PTL

LEMMA SortedAppend ==
    ASSUME NEW p, NEW s \in Seq(Int), NEW e \in Int,
           Sorted(p, s), Ahead(p, Nums(s), {Abs(e)})
    PROVE  Sorted(p, Append(s, e))
<1> DEFINE t == <<e>>
<1>1. t \in Seq(Int) /\ Append(s, e) = s \o t /\ Nums(t) = {Abs(e)} /\ Sorted(p, t)
  BY DEF Nums, Range, Sorted
<1> HIDE DEF t
<1>2. Sorted(p, s \o t)
  BY <1>1, SortedConcat
<1> QED
  BY <1>1, <1>2

(* What has not been handed over is in order before and after a read.      *)
LEMMA Unread ==
    ASSUME NEW s \in Seq(Int), NEW t \in Seq(Int)
    PROVE  Ascending(s \o t) <=> Ascending(s) /\ Ascending(t) /\ Ahead({}, Nums(s), Nums(t))
BY SortedConcat DEF Ascending

(* The service does not notice a step that moves chunks only.              *)
LEMMA SameService ==
    ASSUME TypeOK, TypeOK', UNCHANGED <<pool, clientsent, received, peer, disconnect>>,
           ~disconnect => Chunks(Stations') = Chunks(Stations),
           disconnect => sndbuf' = sndbuf
    PROVE  UNCHANGED ES!vars
<1>1. Reset' <=> Reset
  BY DEF Reset
<1>2. disconnect => Stations'[1] = Stations[1]
  BY DEF Stations
<1>3. disconnect' = disconnect
  OBVIOUS
<1>4. OnTheWay' = OnTheWay
  <2>1. CASE Reset
    BY <1>1, <2>1, OnTheWayIs, OnTheWayWillBe
  <2>2. CASE ~Reset /\ disconnect
    BY <1>1, <1>2, <1>3, <2>2, OnTheWayIs, OnTheWayWillBe
  <2>3. CASE ~Reset /\ ~disconnect
    BY <1>1, <1>3, <2>3, OnTheWayIs, OnTheWayWillBe
  <2> QED BY <2>1, <2>2, <2>3
<1>5. (Cardinality(pool) <= 1)' = (Cardinality(pool) <= 1) /\ (~disconnect /\ ~Reset)' = (~disconnect /\ ~Reset)
  BY <1>1
<1> QED
  BY <1>4, <1>5 DEF ES!vars

-----------------------------------------------------------------------------
(* Every step keeps EchoInv and is a step of the service, or none.         *)

LEMMA StationIndex == \A k \in 1..7 : k \in {1, 2, 3, 4, 5, 6, 7}
OBVIOUS

(* Steps that leave every chunk where it is.                               *)
LEMMA IdleSteps ==
    ASSUME EchoInv, IInv', UNCHANGED <<clientsent, received, inbound, sndbuf, inputbuffer, outputbuffer,
                                       disconnect, taskqueue, pool, workqueue, message>>,
           Reset' <=> Reset, peer' # "open" \/ UNCHANGED peer,
           \A w \in Workers : wpc'[w] = wpc[w] \/ (wpc[w] # "idle" /\ wpc'[w] # "idle" /\ w \in pool)
    PROVE  EchoInv' /\ UNCHANGED ES!vars
<1>1. Stations' = Stations
  BY DEF Stations
<1>2. InOrder'
  BY <1>1 DEF EchoInv, InOrder
<1>3. Legible' /\ Idlers' /\ CloseHasReason'
  BY DEF EchoInv, Legible, Idlers, CloseHasReason
<1>4. OnTheWay' = OnTheWay
  <2>1. TypeOK /\ TypeOK' /\ disconnect' = disconnect
    BY DEF EchoInv, IInv
  <2>2. CASE Reset
    BY <2>1, <2>2, OnTheWayIs, OnTheWayWillBe
  <2>3. CASE ~Reset /\ disconnect
    BY <1>1, <2>1, <2>3, OnTheWayIs, OnTheWayWillBe
  <2>4. CASE ~Reset /\ ~disconnect
    BY <1>1, <2>1, <2>4, OnTheWayIs, OnTheWayWillBe
  <2> QED BY <2>2, <2>3, <2>4
<1>5. (Cardinality(pool) <= 1)' = (Cardinality(pool) <= 1) /\ (~disconnect /\ ~Reset)' = (~disconnect /\ ~Reset)
  OBVIOUS
<1>6. UNCHANGED ES!vars
  BY <1>4, <1>5 DEF ES!vars
<1> QED
  BY <1>2, <1>3, <1>6 DEF EchoInv

LEMMA SendStep == ASSUME EchoInv, IInv', ClientSend PROVE EchoInv' /\ ES!Send
<1> DEFINE n == clientsent
<1>1. /\ peer = "open" /\ clientsent' = n + 1 /\ inbound' = Append(inbound, n + 1)
      /\ UNCHANGED <<received, peer, sndbuf, inputbuffer, outputbuffer, disconnect, taskqueue, pool, workqueue,
                     message, wpc>>
  BY DEF ClientSend, servervars, connvars, workvars
<1>2. /\ n \in Nat /\ inbound \in Seq(Int) /\ inputbuffer \in Seq(Int) /\ TypeOK /\ TypeOK'
      /\ InOrder /\ Abs(n + 1) = n + 1 /\ inbound' \in Seq(Int)
  <2>1. TypeOK /\ TypeOK' /\ InOrder
    BY DEF EchoInv, IInv
  <2>2. n \in Nat
    BY <2>1 DEF TypeOK
  <2> HIDE DEF n
  <2>3. Abs(n + 1) = n + 1
    BY <2>2, AbsOfNat
  <2> QED BY <2>1, <2>2, <2>3, Sequences, SequencesNext
<1> HIDE DEF n
<1>3. /\ \A k \in 1..6 : Stations'[k] = Stations[k]
      /\ Stations'[7] = Stations[7] \cup {n + 1}
      /\ Stations[6] = Nums(inputbuffer) /\ Stations[7] = Nums(inbound)
  BY <1>1, <1>2, NumsAppend DEF Stations
<1>4. Chain(pool, Stations) /\ \A k \in 1..7 : Stations[k] \subseteq 1..n
  BY <1>2 DEF InOrder, n
<1>5. /\ Chain(pool, Stations') /\ Chunks(Stations') = Chunks(Stations) \cup {n + 1}
      /\ \A k \in 1..7 : Stations'[k] \subseteq 1..(n + 1)
  BY <1>2, <1>3, <1>4, Arrive
<1>6. Ascending(inputbuffer \o inbound')
  <2>1. /\ Ascending(inputbuffer) /\ Ascending(inbound) /\ Ahead({}, Nums(inputbuffer), Nums(inbound))
    BY <1>2, Unread DEF InOrder
  <2>2. ASSUME NEW a \in Nums(inputbuffer) \cup Nums(inbound) PROVE Before({}, a, n + 1)
    <3>1. a \in 1..n
      BY <1>3, <1>4
    <3> QED BY <1>2, <3>1, StrictlyBefore
  <2>3. Ascending(inbound')
    BY <1>1, <1>2, <2>1, <2>2, SortedAppend DEF Ascending, Ahead
  <2>4. Ahead({}, Nums(inputbuffer), Nums(inbound'))
    BY <1>1, <1>2, <2>1, <2>2, NumsAppend DEF Ahead
  <2> QED BY <1>2, <2>1, <2>3, <2>4, Unread
<1>7. InOrder'
  BY <1>1, <1>2, <1>5, <1>6 DEF InOrder
<1>8. Legible' /\ Idlers' /\ CloseHasReason' /\ ~disconnect /\ ~Reset /\ ~disconnect' /\ ~Reset'
  BY <1>1 DEF EchoInv, Legible, Idlers, CloseHasReason, Reset
<1>9. OnTheWay' = OnTheWay \cup {n + 1}
  BY <1>2, <1>5, <1>8, OnTheWayIs, OnTheWayWillBe
<1> QED
  BY <1>1, <1>7, <1>8, <1>9 DEF EchoInv, ES!Send, n

LEMMA ReceiveStep ==
    ASSUME EchoInv, IInv', ClientReceive
    PROVE  EchoInv' /\ (WithZero = {} => \E n \in OnTheWay : ES!Return(n))
<1> DEFINE h == Head(sndbuf)
           n == Abs(h)
<1>1. /\ ~Reset /\ sndbuf # <<>> /\ received' = Append(received, h) /\ sndbuf' = Tail(sndbuf)
      /\ UNCHANGED <<clientsent, peer, inbound, inputbuffer, outputbuffer, disconnect, taskqueue, pool, workqueue,
                     message, wpc>>
  BY DEF ClientReceive, servervars, connvars, workvars
<1>2. /\ sndbuf \in Seq(Int) /\ received \in Seq(Answers) /\ TypeOK /\ TypeOK' /\ InOrder
  BY Sequences DEF EchoInv, IInv, TypeOK
<1>3. /\ h \in Int /\ Nums(sndbuf) = {n} \cup Nums(sndbuf') /\ Sorted(pool, sndbuf')
      /\ Ahead(pool, {n}, Nums(sndbuf')) /\ sndbuf' \in Seq(Int)
  BY <1>1, <1>2, HeadFirst DEF InOrder
<1>4. h \in Range(sndbuf) /\ \A x \in Range(sndbuf') : x \in Range(sndbuf)
  <2>2. h = sndbuf[1] /\ 1 \in 1..Len(sndbuf)
    BY <1>1, <1>2
  <2>3. \A i \in 1..Len(sndbuf') : sndbuf'[i] = sndbuf[i + 1] /\ i + 1 \in 1..Len(sndbuf)
    BY <1>1, <1>2
  <2> HIDE DEF h
  <2>4. h \in Range(sndbuf)
    BY <1>2, <2>2, InRange
  <2>5. ASSUME NEW x \in Range(sndbuf') PROVE x \in Range(sndbuf)
    <3> DEFINE t == sndbuf'
    <3> HIDE DEF t
    <3>1. t \in Seq(Int) /\ x \in Range(t)
      BY <1>3, <2>5 DEF t
    <3>2. PICK i \in 1..Len(t) : x = t[i]
      BY <3>1, InRange
    <3>3. x = sndbuf[i + 1] /\ i + 1 \in 1..Len(sndbuf)
      BY <2>3, <3>2 DEF t
    <3> QED BY <1>2, <3>3, InRange
  <2> QED BY <2>4, <2>5
<1>5. WithZero = {} => h = n
  BY <1>3, <1>4 DEF EchoInv, Legible, BehindZero, Abs
<1> HIDE DEF h, n
<1>6. /\ \A k \in 1..7 : k # 1 => Stations'[k] = Stations[k]
      /\ Stations[1] = {n} \cup Stations'[1] /\ Stations'[1] = Nums(sndbuf')
  BY <1>1, <1>3, StationIndex DEF Stations
<1>7. Chain(pool, Stations) /\ \A k \in 1..7 : Stations[k] \subseteq 1..clientsent
  BY <1>2 DEF InOrder
<1>8. Chain(pool, Stations') /\ \A k \in 1..7 : Stations'[k] \subseteq 1..clientsent
  <2>1. \A k \in 1..7 : Stations'[k] \subseteq Stations[k]
    BY <1>6
  <2> QED BY <1>7, <2>1, Leave
<1>9. InOrder'
  BY <1>1, <1>2, <1>3, <1>8 DEF InOrder
<1>10. Legible' /\ Idlers' /\ CloseHasReason' /\ (Reset' <=> Reset) /\ disconnect' = disconnect
  BY <1>1, <1>4 DEF EchoInv, Legible, Idlers, CloseHasReason, Reset
<1>11. \A k \in 1..7 : \A m \in Stations'[k] : Before(pool, n, m)
  BY <1>3, <1>6, <1>7, SMTT(30) DEF Chain, Ahead
<1>12. n \in Int /\ \A k \in 1..7 : Stations'[k] \subseteq Int
  BY <1>6, <1>8, <1>7
<1>13. \A k \in 1..7 : \A m \in Stations'[k] : m # n
  BY <1>11, <1>12, BeforeIsOther
<1>14. n \in OnTheWay /\ OnTheWay' = OnTheWay \ {n}
  <2>1. CASE disconnect
    <3>1. OnTheWay = Stations[1] /\ OnTheWay' = Stations'[1]
      BY <1>1, <1>2, <1>10, <2>1, OnTheWayIs, OnTheWayWillBe
    <3> QED BY <1>6, <1>13, <3>1
  <2>2. CASE ~disconnect
    <3>1. OnTheWay = Chunks(Stations) /\ OnTheWay' = Chunks(Stations')
      BY <1>1, <1>2, <1>10, <2>2, OnTheWayIs, OnTheWayWillBe
    <3>2. ASSUME NEW x PROVE x \in Chunks(Stations) <=> x = n \/ x \in Chunks(Stations')
      BY <1>6, InChunks
    <3>3. n \notin Chunks(Stations')
      BY <1>13, InChunks
    <3> QED BY <3>1, <3>2, <3>3
  <2> QED BY <2>1, <2>2
<1>15. Cardinality(pool) <= 1 => \A m \in OnTheWay : n <= m
  <2>1. ASSUME NEW m \in OnTheWay PROVE m = n \/ \E k \in 1..7 : m \in Stations'[k]
    <3>1. m = n \/ m \in OnTheWay'
      BY <1>14, <2>1
    <3>2. m \in OnTheWay' => \E k \in 1..7 : m \in Stations'[k]
      BY <1>1, <1>2, <1>10, InChunks, OnTheWayWillBe
    <3> QED BY <3>1, <3>2
  <2>2. ASSUME NEW m \in OnTheWay, Cardinality(pool) <= 1 PROVE n <= m
    <3>1. CASE m = n
      BY <1>12, <3>1
    <3>2. CASE \E k \in 1..7 : m \in Stations'[k]
      <4>1. Before(pool, n, m) /\ m \in Int
        BY <1>11, <1>12, <3>2
      <4> QED BY <1>12, <2>2, <4>1 DEF Before
    <3> QED BY <2>1, <2>2, <3>1, <3>2
  <2> QED BY <2>2
<1> QED
  BY <1>1, <1>5, <1>9, <1>10, <1>14, <1>15 DEF EchoInv, ES!Return

(* An abort drops what the kernel has not delivered.                       *)
LEMMA AbortStep == ASSUME EchoInv, IInv', ClientAbort PROVE EchoInv' /\ ES!Cut
<1>1. /\ ~Reset /\ sndbuf' = <<>> /\ peer' \in {"reset", "broken"}
      /\ UNCHANGED <<clientsent, received, inbound, inputbuffer, outputbuffer, disconnect, taskqueue, pool, workqueue,
                     message, wpc>>
  BY DEF ClientAbort, servervars, connvars, workvars
<1>2. TypeOK /\ TypeOK' /\ InOrder
  BY DEF EchoInv, IInv
<1>3. Nums(sndbuf') = {} /\ Range(sndbuf') = {} /\ Sorted(pool, sndbuf')
  BY <1>1 DEF Nums, Range, Sorted
<1>4. \A k \in 1..7 : Stations'[k] \subseteq Stations[k]
  BY <1>1, <1>3, StationIndex DEF Stations
<1>5. InOrder'
  BY <1>1, <1>2, <1>3, <1>4, Leave DEF InOrder
<1>6. Legible' /\ Idlers' /\ CloseHasReason' /\ Reset'
  BY <1>1, <1>3 DEF EchoInv, Legible, Idlers, CloseHasReason, Reset
<1>7. OnTheWay' = {}
  BY <1>2, <1>6, OnTheWayWillBe
<1> QED
  BY <1>1, <1>5, <1>6, <1>7 DEF EchoInv, ES!Cut

(* read() moves the head of the receive buffer to inputbuffer_.            *)
LEMMA ReadMoves == ASSUME EchoInv, IInv', Read PROVE EchoInv' /\ UNCHANGED ES!vars
<1>1. /\ UNCHANGED <<clientsent, received, peer, sndbuf, outputbuffer, disconnect, taskqueue, pool, workqueue,
                     message, wpc>>
  BY DEF Read, channelvars, loopvars, workvars
<1>2. PICK n \in 1..Len(inbound) :
        /\ inputbuffer' = inputbuffer \o SubSeq(inbound, 1, n)
        /\ inbound' = SubSeq(inbound, n + 1, Len(inbound))
  BY DEF Read
<1>3. /\ inbound \in Seq(Int) /\ inputbuffer \in Seq(Int) /\ TypeOK /\ TypeOK' /\ InOrder
      /\ looppc = "read" /\ n \in 0..Len(inbound)
  BY <1>2, Sequences DEF EchoInv, IInv, Read, LoopAt
<1> DEFINE a == SubSeq(inbound, 1, n)
<1>4. /\ a \in Seq(Int) /\ inbound' \in Seq(Int) /\ inbound = a \o inbound'
      /\ Nums(inbound) = Nums(a) \cup Nums(inbound')
      /\ \A p : Sorted(p, inbound) => Sorted(p, a) /\ Sorted(p, inbound') /\ Ahead(p, Nums(a), Nums(inbound'))
  BY <1>2, <1>3, Split
<1>5. inputbuffer' = inputbuffer \o a
  BY <1>2
<1> HIDE DEF a
<1>6. Ascending(inputbuffer) /\ Ascending(inbound) /\ Ahead({}, Nums(inputbuffer), Nums(inbound))
  BY <1>3, Unread DEF InOrder
<1>7. Ascending(inputbuffer' \o inbound')
  <2>1. inputbuffer' \o inbound' = inputbuffer \o inbound
    <3> DEFINE c == inbound'
    <3> HIDE DEF c
    <3>1. c \in Seq(Int) => (inputbuffer \o a) \o c = inputbuffer \o (a \o c)
      BY <1>3, <1>4, ConcatAssociative, SMTT(30)
    <3> QED BY <1>4, <1>5, <3>1 DEF c
  <2> QED BY <1>3, <2>1 DEF InOrder
<1>8. Nums(inputbuffer') = Nums(inputbuffer) \cup Nums(a)
  BY <1>3, <1>4, <1>5, NumsConcat
<1>9. Ahead(pool, Nums(a), Nums(inbound'))
  <2>1. Ahead({}, Nums(a), Nums(inbound'))
    BY <1>4, <1>6 DEF Ascending
  <2> QED BY <1>4, <2>1, StrictOrder
<1>10. /\ Stations[7] = Nums(a) \cup Stations'[7] /\ Stations'[6] = Stations[6] \cup Nums(a)
       /\ Ahead(pool, Nums(a), Stations'[7])
       /\ \A k \in 1..7 : k # 6 /\ k # 7 => Stations'[k] = Stations[k]
  BY <1>1, <1>4, <1>8, <1>9, StationIndex DEF Stations
<1>11. Chain(pool, Stations') /\ Chunks(Stations') = Chunks(Stations)
  <2> DEFINE B == Stations'
             i == 6
             j == 7
  <2>1. Chain(pool, Stations) /\ i \in 1..7 /\ j \in 1..7 /\ i < j
    BY <1>3 DEF InOrder
  <2>2. Stations[j] = Nums(a) \cup B[j] /\ B[i] = Stations[i] \cup Nums(a) /\ Ahead(pool, Nums(a), B[j])
    BY <1>10
  <2>3. \A k \in 1..7 : k # i /\ k # j => B[k] = Stations[k]
    BY <1>10
  <2>4. \A k \in 1..7 : i < k /\ k < j => Stations[k] = {}
    OBVIOUS
  <2> HIDE DEF B, i, j
  <2>5. Chain(pool, B) /\ Chunks(B) = Chunks(Stations)
    BY <2>1, <2>2, <2>3, <2>4, Move
  <2> QED BY <2>5 DEF B
<1>12. \A k \in 1..7 : Stations'[k] \subseteq 1..clientsent
  BY <1>3, <1>11, ChunksWithin DEF InOrder
<1>13. InOrder'
  BY <1>1, <1>3, <1>7, <1>11, <1>12 DEF InOrder
<1>14. Legible' /\ Idlers' /\ CloseHasReason'
  BY <1>1 DEF EchoInv, Legible, Idlers, CloseHasReason
<1>15. UNCHANGED ES!vars
  BY <1>1, <1>3, <1>11, SameService
<1> QED
  BY <1>13, <1>14, <1>15 DEF EchoInv

(* The copy of a message answers the chunks of the message.                *)
LEMMA CopyAnswers ==
    ASSUME NEW m \in Seq(Sent), Ascending(m)
    PROVE  LET c == StrdupCopy(m)
           IN  /\ c \in Seq(Int) /\ Nums(c) = Nums(m)
               /\ \A p : Sorted(p, c)
               /\ \A n \in Range(c) : BehindZero(n)
<1> DEFINE c == StrdupCopy(m)
<1>1. /\ m \in Seq(Int) /\ c \in Seq(Int) /\ Len(c) = Len(m)
      /\ \A i \in 1..Len(m) : m[i] \in Nat /\ m[i] > 0
  <2>1. Sent \subseteq Int /\ Answers \subseteq Int
    BY ConnectionAssumption DEF Sent, Answers
  <2>2. c \in Seq(Answers) /\ Len(c) = Len(m)
    BY CopyType
  <2>3. \A i \in 1..Len(m) : m[i] \in Nat /\ m[i] > 0
    BY ConnectionAssumption DEF Sent
  <2> HIDE DEF c
  <2> QED BY <2>1, <2>2, <2>3, LargerSet
<1>2. \A i \in 1..Len(m) : c[i] = IF \E j \in 1..i : m[j] \in WithZero THEN -m[i] ELSE m[i]
  BY DEF StrdupCopy
<1> HIDE DEF c
<1>3. \A i \in 1..Len(m) : Abs(c[i]) = m[i] /\ Abs(m[i]) = m[i]
  BY <1>1, <1>2 DEF Abs
<1>4. DOMAIN m = 1..Len(m) /\ DOMAIN c = 1..Len(m)
  BY <1>1
<1>5. Nums(c) = Nums(m)
  <2>1. \A i \in 1..Len(m) : Abs(c[i]) = Abs(m[i])
    BY <1>3
  <2>2. ASSUME NEW x PROVE x \in Nums(c) <=> x \in Nums(m)
    <3>1. x \in Nums(c) <=> \E i \in 1..Len(m) : x = Abs(c[i])
      BY <1>1, InNums
    <3>2. x \in Nums(m) <=> \E i \in 1..Len(m) : x = Abs(m[i])
      BY <1>1, InNums
    <3> QED BY <2>1, <3>1, <3>2
  <2> QED BY <2>2
<1>6. ASSUME NEW p PROVE Sorted(p, c)
  <2>1. Sorted(p, m)
    BY <1>1, StrictOrder
  <2>2. \A i \in DOMAIN m : Abs(c[i]) = Abs(m[i])
    BY <1>3, <1>4
  <2> QED BY <1>4, <2>1, <2>2 DEF Sorted
<1>7. ASSUME NEW n \in Range(c) PROVE BehindZero(n)
  <2>1. PICK i \in 1..Len(m) : n = c[i]
    BY <1>1, InRange
  <2>2. CASE \E j \in 1..i : m[j] \in WithZero
    <3>1. n = -m[i] /\ -n = m[i]
      BY <1>1, <1>2, <2>1, <2>2, SMTT(30)
    <3>2. PICK j \in 1..i : m[j] \in WithZero
      BY <2>2
    <3>3. m[j] <= m[i]
      <4>1. j \in 1..Len(m) /\ (j < i \/ j = i)
        OBVIOUS
      <4>2. CASE j < i
        <5>1. Before({}, Abs(m[j]), Abs(m[i]))
          BY <1>4, <4>1, <4>2 DEF Ascending, Sorted
        <5>2. m[j] < m[i]
          BY <1>1, <1>3, <4>1, <5>1, NoPoolIsStrict
        <5> QED BY <1>1, <4>1, <5>2
      <4> QED BY <1>1, <4>1, <4>2
    <3> QED BY <3>1, <3>2, <3>3 DEF BehindZero
  <2>3. CASE ~\E j \in 1..i : m[j] \in WithZero
    <3>1. n = m[i] /\ n > 0 /\ n \in Nat
      BY <1>1, <1>2, <2>1, <2>3
    <3> QED BY <3>1 DEF BehindZero
  <2> QED BY <2>2, <2>3
<1> QED
  BY <1>1, <1>5, <1>6, <1>7 DEF c

(* sendinloop() puts a message behind what is in the output buffer.        *)
LEMMA SendInLoopMoves ==
    ASSUME EchoInv, NEW m \in Seq(Sent), Ascending(m), Ahead(pool, Nums(outputbuffer), Nums(m)),
           SendInLoop(m)
    PROVE  /\ Nums(outputbuffer') = Nums(outputbuffer) \cup Nums(m)
           /\ Sorted(pool, outputbuffer')
           /\ \A n \in Range(outputbuffer') : BehindZero(n)
<1> DEFINE c == StrdupCopy(m)
           o == outputbuffer'
<1>1. o = outputbuffer \o c
  BY DEF SendInLoop, SendWith
<1>2. /\ c \in Seq(Int) /\ Nums(c) = Nums(m)
      /\ \A p : Sorted(p, c)
      /\ \A n \in Range(c) : BehindZero(n)
  BY CopyAnswers
<1>3. outputbuffer \in Seq(Int) /\ Sorted(pool, outputbuffer)
      /\ \A n \in Range(outputbuffer) : BehindZero(n)
  BY Sequences DEF EchoInv, IInv, InOrder, Legible
<1> HIDE DEF c, o
<1>4. Nums(o) = Nums(outputbuffer) \cup Nums(m) /\ Sorted(pool, o)
  BY <1>1, <1>2, <1>3, NumsConcat, SortedConcat
<1>5. Range(o) \subseteq Range(outputbuffer) \cup Range(c)
  BY <1>1, <1>2, <1>3, RangeConcat
<1> QED
  BY <1>2, <1>3, <1>4, <1>5 DEF o

(* handlewakeup() runs the oldest sendinloop() in the loop's queue.        *)
LEMMA TaskMoves == ASSUME EchoInv, IInv', HandleWakeupTask PROVE EchoInv' /\ UNCHANGED ES!vars
<1> DEFINE m == Head(taskqueue)
<1>1. /\ UNCHANGED <<clientsent, received, peer, inbound, sndbuf, inputbuffer, disconnect, pool, workqueue,
                     message, wpc>>
      /\ taskqueue # <<>> /\ taskqueue' = Tail(taskqueue) /\ SendInLoop(m)
  BY DEF HandleWakeupTask, clientvars, loopvars, workvars
<1>2. /\ taskqueue \in Seq(Seq(Int)) /\ outputbuffer \in Seq(Int) /\ TypeOK /\ TypeOK' /\ InOrder
      /\ taskqueue \in Seq(Seq(Sent) \ {<<>>}) /\ QueueSorted(pool, taskqueue)
  BY Sequences DEF EchoInv, IInv, TypeOK, InOrder
<1>3. m \in Seq(Sent)
  BY <1>1, <1>2, HeadTail
<1> HIDE DEF m
<1>4. /\ QueueNums(taskqueue) = Nums(m) \cup QueueNums(taskqueue')
      /\ Ascending(m) /\ QueueSorted(pool, taskqueue')
      /\ Ahead(pool, Nums(m), QueueNums(taskqueue'))
  BY <1>1, <1>2, QueueTake DEF m
<1>5. Ahead(pool, Nums(outputbuffer), Nums(m))
  <2>1. Ahead(pool, Stations[2], Stations[3])
    BY <1>2 DEF InOrder, Chain
  <2>2. Ahead(pool, Nums(outputbuffer), QueueNums(taskqueue))
    BY <2>1 DEF Stations
  <2> QED BY <1>4, <2>2 DEF Ahead
<1>6. /\ Nums(outputbuffer') = Nums(outputbuffer) \cup Nums(m)
      /\ Sorted(pool, outputbuffer')
      /\ \A n \in Range(outputbuffer') : BehindZero(n)
  BY <1>1, <1>3, <1>4, <1>5, SendInLoopMoves
<1>7. /\ Stations[3] = Nums(m) \cup Stations'[3] /\ Stations'[2] = Stations[2] \cup Nums(m)
      /\ Ahead(pool, Nums(m), Stations'[3])
      /\ \A k \in 1..7 : k # 2 /\ k # 3 => Stations'[k] = Stations[k]
  BY <1>1, <1>4, <1>6, StationIndex DEF Stations
<1>8. Chain(pool, Stations') /\ Chunks(Stations') = Chunks(Stations)
  <2> DEFINE B == Stations'
             i == 2
             j == 3
  <2>1. Chain(pool, Stations) /\ i \in 1..7 /\ j \in 1..7 /\ i < j
    BY <1>2 DEF InOrder
  <2>2. Stations[j] = Nums(m) \cup B[j] /\ B[i] = Stations[i] \cup Nums(m) /\ Ahead(pool, Nums(m), B[j])
    BY <1>7
  <2>3. \A k \in 1..7 : k # i /\ k # j => B[k] = Stations[k]
    BY <1>7
  <2>4. \A k \in 1..7 : i < k /\ k < j => Stations[k] = {}
    OBVIOUS
  <2> HIDE DEF B, i, j
  <2>5. Chain(pool, B) /\ Chunks(B) = Chunks(Stations)
    BY <2>1, <2>2, <2>3, <2>4, Move
  <2> QED BY <2>5 DEF B
<1>9. \A k \in 1..7 : Stations'[k] \subseteq 1..clientsent
  BY <1>2, <1>8, ChunksWithin DEF InOrder
<1>10. InOrder'
  BY <1>1, <1>2, <1>4, <1>6, <1>8, <1>9 DEF InOrder
<1>11. Legible' /\ Idlers' /\ CloseHasReason'
  BY <1>1, <1>6 DEF EchoInv, Legible, Idlers, CloseHasReason
<1>12. UNCHANGED ES!vars
  BY <1>1, <1>2, <1>8, SameService
<1> QED
  BY <1>10, <1>11, <1>12 DEF EchoInv

LEMMA NothingWithoutPool ==
    ASSUME EchoInv, pool = {}
    PROVE  Stations[3] = {} /\ Stations[4] = {} /\ Stations[5] = {}
<1>1. /\ taskqueue = <<>> /\ workqueue = <<>> /\ message \in [Workers -> Seq(Int)]
      /\ \A w \in Workers : message[w] = <<>>
  BY Sequences DEF EchoInv, IInv, NobodyAtWork, Idlers
<1>2. Nums(<<>>) = {}
  BY DEF Nums, Range
<1> QED
  BY <1>1, <1>2 DEF Stations, QueueNums

(* EAGAIN: what has been read goes to the workers.                         *)
LEMMA HandOverMoves ==
    ASSUME EchoInv, IInv', ReadAgain, inputbuffer # <<>>, pool # {}
    PROVE  EchoInv' /\ UNCHANGED ES!vars
<1> DEFINE m == inputbuffer
<1>1. /\ UNCHANGED <<clientsent, received, peer, inbound, sndbuf, outputbuffer, disconnect, taskqueue, pool,
                     message, wpc>>
      /\ inputbuffer' = <<>> /\ workqueue' = Append(workqueue, m) /\ inbound = <<>>
  BY DEF ReadAgain, HandleMessage, clientvars
<1>2. /\ workqueue \in Seq(Seq(Int)) /\ m \in Seq(Int) /\ TypeOK /\ TypeOK' /\ InOrder /\ inbound \in Seq(Int)
  BY Sequences DEF EchoInv, IInv
<1>3. Nums(inputbuffer') = {} /\ inputbuffer' \o inbound' = <<>> /\ Ascending(<<>>)
  BY <1>1 DEF Nums, Range, Ascending, Sorted
<1>4. Ascending(m) /\ QueueSorted(pool, workqueue)
  BY <1>2, Unread DEF InOrder
<1> HIDE DEF m
<1>5. Ahead(pool, QueueNums(workqueue), Nums(m))
  <2>1. Ahead(pool, Stations[5], Stations[6])
    BY <1>2 DEF InOrder, Chain
  <2> QED BY <2>1 DEF Stations, m
<1>6. QueueNums(workqueue') = QueueNums(workqueue) \cup Nums(m) /\ QueueSorted(pool, workqueue')
  BY <1>1, <1>2, <1>4, <1>5, QueueAdd
<1>7. /\ Stations[6] = Nums(m) \cup Stations'[6] /\ Stations'[5] = Stations[5] \cup Nums(m)
      /\ Ahead(pool, Nums(m), Stations'[6])
      /\ \A k \in 1..7 : k # 5 /\ k # 6 => Stations'[k] = Stations[k]
  BY <1>1, <1>3, <1>6, StationIndex DEF Stations, Ahead, m
<1>8. Chain(pool, Stations') /\ Chunks(Stations') = Chunks(Stations)
  <2> DEFINE B == Stations'
             i == 5
             j == 6
  <2>1. Chain(pool, Stations) /\ i \in 1..7 /\ j \in 1..7 /\ i < j
    BY <1>2 DEF InOrder
  <2>2. Stations[j] = Nums(m) \cup B[j] /\ B[i] = Stations[i] \cup Nums(m) /\ Ahead(pool, Nums(m), B[j])
    BY <1>7
  <2>3. \A k \in 1..7 : k # i /\ k # j => B[k] = Stations[k]
    BY <1>7
  <2>4. \A k \in 1..7 : i < k /\ k < j => Stations[k] = {}
    OBVIOUS
  <2> HIDE DEF B, i, j
  <2>5. Chain(pool, B) /\ Chunks(B) = Chunks(Stations)
    BY <2>1, <2>2, <2>3, <2>4, Move
  <2> QED BY <2>5 DEF B
<1>9. \A k \in 1..7 : Stations'[k] \subseteq 1..clientsent
  BY <1>2, <1>8, ChunksWithin DEF InOrder
<1>10. InOrder'
  BY <1>1, <1>2, <1>3, <1>6, <1>8, <1>9 DEF InOrder
<1>11. Legible' /\ Idlers' /\ CloseHasReason'
  BY <1>1 DEF EchoInv, Legible, Idlers, CloseHasReason
<1>12. UNCHANGED ES!vars
  BY <1>1, <1>2, <1>8, SameService
<1> QED
  BY <1>10, <1>11, <1>12 DEF EchoInv

(* EAGAIN without workers: the IO thread answers at once.                  *)
LEMMA AnswerMoves ==
    ASSUME EchoInv, IInv', ReadAgain, inputbuffer # <<>>, pool = {}
    PROVE  EchoInv' /\ UNCHANGED ES!vars
<1> DEFINE m == inputbuffer
<1>1. /\ UNCHANGED <<clientsent, received, peer, inbound, sndbuf, disconnect, taskqueue, pool, workqueue,
                     message, wpc>>
      /\ inputbuffer' = <<>> /\ SendInLoop(m) /\ inbound = <<>>
  BY DEF ReadAgain, HandleMessage, clientvars
<1>2. /\ m \in Seq(Int) /\ TypeOK /\ TypeOK' /\ InOrder /\ inbound \in Seq(Int) /\ m \in Seq(Sent)
  BY Sequences DEF EchoInv, IInv, TypeOK
<1>3. Nums(inputbuffer') = {} /\ inputbuffer' \o inbound' = <<>> /\ Ascending(<<>>)
  BY <1>1 DEF Nums, Range, Ascending, Sorted
<1>4. Ascending(m)
  BY <1>2, Unread DEF InOrder
<1> HIDE DEF m
<1>5. Ahead(pool, Nums(outputbuffer), Nums(m))
  <2>1. Ahead(pool, Stations[2], Stations[6])
    BY <1>2 DEF InOrder, Chain
  <2> QED BY <2>1 DEF Stations, m
<1>6. /\ Nums(outputbuffer') = Nums(outputbuffer) \cup Nums(m)
      /\ Sorted(pool, outputbuffer')
      /\ \A n \in Range(outputbuffer') : BehindZero(n)
  BY <1>1, <1>2, <1>4, <1>5, SendInLoopMoves
<1>7. /\ Stations[6] = Nums(m) \cup Stations'[6] /\ Stations'[2] = Stations[2] \cup Nums(m)
      /\ Ahead(pool, Nums(m), Stations'[6])
      /\ \A k \in 1..7 : k # 2 /\ k # 6 => Stations'[k] = Stations[k]
  BY <1>1, <1>3, <1>6, StationIndex DEF Stations, Ahead, m
<1>8. Chain(pool, Stations') /\ Chunks(Stations') = Chunks(Stations)
  <2> DEFINE B == Stations'
             i == 2
             j == 6
  <2>1. Chain(pool, Stations) /\ i \in 1..7 /\ j \in 1..7 /\ i < j
    BY <1>2 DEF InOrder
  <2>2. Stations[j] = Nums(m) \cup B[j] /\ B[i] = Stations[i] \cup Nums(m) /\ Ahead(pool, Nums(m), B[j])
    BY <1>7
  <2>3. \A k \in 1..7 : k # i /\ k # j => B[k] = Stations[k]
    BY <1>7
  <2>4. \A k \in 1..7 : i < k /\ k < j => Stations[k] = {}
    BY NothingWithoutPool, StationIndex
  <2> HIDE DEF B, i, j
  <2>5. Chain(pool, B) /\ Chunks(B) = Chunks(Stations)
    BY <2>1, <2>2, <2>3, <2>4, Move
  <2> QED BY <2>5 DEF B
<1>9. \A k \in 1..7 : Stations'[k] \subseteq 1..clientsent
  BY <1>2, <1>8, ChunksWithin DEF InOrder
<1>10. InOrder'
  BY <1>1, <1>2, <1>3, <1>6, <1>8, <1>9 DEF InOrder
<1>11. Legible' /\ Idlers' /\ CloseHasReason'
  BY <1>1, <1>6 DEF EchoInv, Legible, Idlers, CloseHasReason
<1>12. UNCHANGED ES!vars
  BY <1>1, <1>2, <1>8, SameService
<1> QED
  BY <1>10, <1>11, <1>12 DEF EchoInv

(* The close: the answers that the kernel has are still delivered.         *)
LEMMA CloseStep == ASSUME EchoInv, IInv', ReadClosed PROVE EchoInv' /\ ES!Cut
<1>1. /\ peer # "open" /\ disconnect' = TRUE
      /\ UNCHANGED <<clientsent, received, peer, inbound, sndbuf, inputbuffer, outputbuffer, taskqueue, pool,
                     workqueue, message, wpc>>
  BY DEF ReadClosed, ReadClosedWith, CloseCallback, clientvars, workvars
<1>2. TypeOK /\ TypeOK' /\ InOrder /\ ~disconnect
  BY ReaderIsRegistered DEF EchoInv, IInv, ReadClosed, ReadClosedWith, LoopAt
<1>3. Stations' = Stations
  BY <1>1 DEF Stations
<1>4. InOrder'
  BY <1>1, <1>2, <1>3 DEF InOrder
<1>5. Legible' /\ Idlers' /\ CloseHasReason' /\ (Reset' <=> Reset)
  BY <1>1 DEF EchoInv, Legible, Idlers, CloseHasReason, Reset
<1>6. /\ OnTheWay' \in SUBSET OnTheWay
      /\ Cardinality(pool) <= 1 => \A n \in OnTheWay' : \A m \in OnTheWay \ OnTheWay' : n < m
  <2>1. CASE Reset
    BY <1>2, <1>5, <2>1, OnTheWayIs, OnTheWayWillBe
  <2>2. CASE ~Reset
    <3>1. OnTheWay = Chunks(Stations) /\ OnTheWay' = Stations[1]
      BY <1>1, <1>2, <1>3, <1>5, <2>2, OnTheWayIs, OnTheWayWillBe
    <3>2. OnTheWay' \in SUBSET OnTheWay
      BY <3>1, InChunks
    <3>3. ASSUME Cardinality(pool) <= 1, NEW n \in OnTheWay', NEW m \in OnTheWay \ OnTheWay'
          PROVE  n < m
      <4>1. PICK k \in 1..7 : m \in Stations[k]
        BY <3>1, InChunks
      <4>2. k # 1
        BY <3>1, <4>1
      <4>3. Before(pool, n, m)
        BY <1>2, <3>1, <4>1, <4>2 DEF InOrder, Chain, Ahead
      <4> QED BY <3>3, <4>3 DEF Before
    <3> QED BY <3>2, <3>3
  <2> QED BY <2>1, <2>2
<1> QED
  BY <1>1, <1>4, <1>5, <1>6 DEF EchoInv, ES!Cut

(* What send() takes moves to the kernel.                                  *)
LEMMA WriteMoves == ASSUME EchoInv, IInv', WriteCallback PROVE EchoInv' /\ UNCHANGED ES!vars
<1> DEFINE a == SubSeq(outputbuffer, 1, Written)
<1>1. /\ UNCHANGED <<clientsent, received, peer, inbound, inputbuffer, disconnect, taskqueue, pool, workqueue,
                     message, wpc>>
      /\ sndbuf' = sndbuf \o a /\ outputbuffer' = SubSeq(outputbuffer, Written + 1, Len(outputbuffer))
      /\ "out" \in batch
  BY DEF WriteCallback, WriteWith, Rest, HandleEvent, workvars
<1>2. /\ sndbuf \in Seq(Int) /\ outputbuffer \in Seq(Int) /\ TypeOK /\ TypeOK' /\ InOrder
      /\ Written \in 0..Len(outputbuffer) /\ ~disconnect
  BY <1>1, Sequences, WrittenFits DEF EchoInv, IInv, ClosedIsQuiet
<1>3. /\ a \in Seq(Int) /\ outputbuffer' \in Seq(Int) /\ outputbuffer = a \o outputbuffer'
      /\ Nums(outputbuffer) = Nums(a) \cup Nums(outputbuffer')
      /\ Sorted(pool, a) /\ Sorted(pool, outputbuffer') /\ Ahead(pool, Nums(a), Nums(outputbuffer'))
  BY <1>1, <1>2, Split DEF InOrder
<1> HIDE DEF a
<1>4. Ahead(pool, Nums(sndbuf), Nums(a))
  <2>1. Ahead(pool, Stations[1], Stations[2])
    BY <1>2 DEF InOrder, Chain
  <2>2. Ahead(pool, Nums(sndbuf), Nums(outputbuffer))
    BY <2>1 DEF Stations
  <2> QED BY <1>3, <2>2 DEF Ahead
<1>5. Nums(sndbuf') = Nums(sndbuf) \cup Nums(a) /\ Sorted(pool, sndbuf')
  BY <1>1, <1>2, <1>3, <1>4, NumsConcat, SortedConcat DEF InOrder
<1>6. \A n \in Range(sndbuf') \cup Range(outputbuffer') : n \in Range(sndbuf) \cup Range(outputbuffer)
  <2> DEFINE o == outputbuffer'
  <2>1. o \in Seq(Int) /\ outputbuffer = a \o o
    BY <1>3
  <2> HIDE DEF o
  <2>2. Range(a) \subseteq Range(outputbuffer) /\ Range(o) \subseteq Range(outputbuffer)
    BY <1>3, <2>1, PartsInRange
  <2>3. Range(sndbuf') \subseteq Range(sndbuf) \cup Range(a)
    BY <1>1, <1>2, <1>3, RangeConcat
  <2> QED BY <2>2, <2>3 DEF o
<1>7. /\ Stations[2] = Nums(a) \cup Stations'[2] /\ Stations'[1] = Stations[1] \cup Nums(a)
      /\ Ahead(pool, Nums(a), Stations'[2])
      /\ \A k \in 1..7 : k # 1 /\ k # 2 => Stations'[k] = Stations[k]
  BY <1>1, <1>3, <1>5, StationIndex DEF Stations
<1>8. Chain(pool, Stations') /\ Chunks(Stations') = Chunks(Stations)
  <2> DEFINE B == Stations'
             i == 1
             j == 2
  <2>1. Chain(pool, Stations) /\ i \in 1..7 /\ j \in 1..7 /\ i < j
    BY <1>2 DEF InOrder
  <2>2. Stations[j] = Nums(a) \cup B[j] /\ B[i] = Stations[i] \cup Nums(a) /\ Ahead(pool, Nums(a), B[j])
    BY <1>7
  <2>3. \A k \in 1..7 : k # i /\ k # j => B[k] = Stations[k]
    BY <1>7
  <2>4. \A k \in 1..7 : i < k /\ k < j => Stations[k] = {}
    OBVIOUS
  <2> HIDE DEF B, i, j
  <2>5. Chain(pool, B) /\ Chunks(B) = Chunks(Stations)
    BY <2>1, <2>2, <2>3, <2>4, Move
  <2> QED BY <2>5 DEF B
<1>9. \A k \in 1..7 : Stations'[k] \subseteq 1..clientsent
  BY <1>2, <1>8, ChunksWithin DEF InOrder
<1>10. InOrder'
  BY <1>1, <1>2, <1>3, <1>5, <1>8, <1>9 DEF InOrder
<1>11. Legible' /\ Idlers' /\ CloseHasReason'
  BY <1>1, <1>6 DEF EchoInv, Legible, Idlers, CloseHasReason
<1>12. UNCHANGED ES!vars
  BY <1>1, <1>2, <1>8, SameService
<1> QED
  BY <1>10, <1>11, <1>12 DEF EchoInv

(* What a worker takes into its hands, and lets go.                        *)
LEMMA MessageTaken ==
    ASSUME NEW f \in [Workers -> Seq(Int)], NEW w \in Workers, f[w] = <<>>, NEW m
    PROVE  QueueNums([f EXCEPT ![w] = m]) = QueueNums(f) \cup Nums(m)
<1> DEFINE g == [f EXCEPT ![w] = m]
<1>1. DOMAIN g = Workers /\ DOMAIN f = Workers /\ g[w] = m /\ \A v \in Workers : v # w => g[v] = f[v]
  OBVIOUS
<1>2. Nums(f[w]) = {}
  BY DEF Nums, Range
<1> HIDE DEF g
<1>3. ASSUME NEW x PROVE x \in QueueNums(g) <=> x \in QueueNums(f) \/ x \in Nums(m)
  BY <1>1, <1>2, InQueueNums
<1>4. QueueNums(g) = QueueNums(f) \cup Nums(m)
  BY <1>3
<1> QED BY <1>4 DEF g

LEMMA MessageLetGo ==
    ASSUME NEW f \in [Workers -> Seq(Int)], NEW w \in Workers
    PROVE  LET g == [f EXCEPT ![w] = <<>>]
           IN  /\ QueueNums(f) = Nums(f[w]) \cup QueueNums(g)
               /\ \A x \in QueueNums(g) : \E v \in Workers : v # w /\ x \in Nums(f[v])
<1> DEFINE g == [f EXCEPT ![w] = <<>>]
<1>1. DOMAIN g = Workers /\ DOMAIN f = Workers /\ g[w] = <<>> /\ \A v \in Workers : v # w => g[v] = f[v]
  OBVIOUS
<1>2. Nums(<<>>) = {}
  BY DEF Nums, Range
<1> HIDE DEF g
<1>3. ASSUME NEW x PROVE x \in QueueNums(f) <=> x \in Nums(f[w]) \/ x \in QueueNums(g)
  BY <1>1, <1>2, InQueueNums
<1>4. QueueNums(f) = Nums(f[w]) \cup QueueNums(g)
  BY <1>3
<1>5. ASSUME NEW x \in QueueNums(g) PROVE \E v \in Workers : v # w /\ x \in Nums(f[v])
  BY <1>1, <1>2, InQueueNums
<1> QED BY <1>4, <1>5 DEF g

(* With one worker there is no other.                                      *)
LEMMA OnlyWorker ==
    ASSUME TypeOK, Cardinality(pool) <= 1, NEW v \in pool, NEW w \in pool
    PROVE  v = w
<1>1. IsFiniteSet(pool)
  BY ConnectionAssumption, FS_Subset DEF TypeOK
<1>2. SUFFICES ASSUME v # w PROVE FALSE
  OBVIOUS
<1>3. IsFiniteSet({v, w}) /\ Cardinality({v, w}) = 2
  <2>1. IsFiniteSet({v}) /\ Cardinality({v}) = 1
    BY FS_Singleton
  <2>2. w \notin {v} /\ {v} \cup {w} = {v, w}
    BY <1>2
  <2> QED BY <2>1, <2>2, FS_AddElement
<1>4. Cardinality({v, w}) <= Cardinality(pool)
  BY <1>1, FS_Subset
<1>5. Cardinality(pool) \in Nat
  BY <1>1, FS_CardinalityType
<1> QED BY <1>3, <1>4, <1>5

LEMMA TakeMoves ==
    ASSUME EchoInv, IInv', NEW w \in Workers, TakeMessage(w)
    PROVE  EchoInv' /\ UNCHANGED ES!vars
<1> DEFINE m == Head(workqueue)
<1>1. /\ UNCHANGED <<clientsent, received, peer, inbound, sndbuf, inputbuffer, outputbuffer, disconnect, taskqueue,
                     pool>>
      /\ w \in pool /\ wpc[w] = "idle" /\ workqueue # <<>> /\ workqueue' = Tail(workqueue)
      /\ message' = [message EXCEPT ![w] = m] /\ wpc' = [wpc EXCEPT ![w] = "send"]
  BY DEF TakeMessage, WorkerAt, clientvars, connvars
<1>2. /\ workqueue \in Seq(Seq(Int)) /\ message \in [Workers -> Seq(Int)] /\ TypeOK /\ TypeOK' /\ InOrder
      /\ wpc \in [Workers -> {"idle", "send", "queue"}]
  BY Sequences DEF EchoInv, IInv, TypeOK
<1>3. message[w] = <<>> /\ \A v \in Workers : v \notin pool => wpc[v] = "idle" /\ message[v] = <<>>
  BY <1>1 DEF EchoInv, Idlers
<1>4. /\ m \in Seq(Int) /\ QueueNums(workqueue) = Nums(m) \cup QueueNums(workqueue')
      /\ Ascending(m) /\ QueueSorted(pool, workqueue') /\ Ahead(pool, Nums(m), QueueNums(workqueue'))
  BY <1>1, <1>2, QueueTake DEF InOrder
<1> HIDE DEF m
<1>5. QueueNums(message') = QueueNums(message) \cup Nums(m)
  BY <1>1, <1>2, <1>3, MessageTaken
<1>6. Ahead(pool, QueueNums(message), Nums(m))
  <2>1. Ahead(pool, Stations[4], Stations[5])
    BY <1>2 DEF InOrder, Chain
  <2>2. Ahead(pool, QueueNums(message), QueueNums(workqueue))
    BY <2>1 DEF Stations
  <2> QED BY <1>4, <2>2 DEF Ahead
<1>7. ASSUME NEW v \in Workers, v # w
      PROVE  Ahead(pool, Nums(message[v]), Nums(m)) /\ Ahead(pool, Nums(m), Nums(message[v]))
  <2>1. Nums(message[v]) \subseteq QueueNums(message)
    BY <1>2, InQueueNums
  <2>2. Ahead(pool, Nums(message[v]), Nums(m))
    BY <1>6, <2>1 DEF Ahead
  <2>3. CASE Cardinality(pool) <= 1
    <3>1. message[v] = <<>>
      BY <1>1, <1>2, <1>3, <1>7, <2>3, OnlyWorker
    <3>2. Nums(message[v]) = {}
      BY <3>1 DEF Nums, Range
    <3> QED BY <3>2 DEF Ahead
  <2>4. CASE ~(Cardinality(pool) <= 1)
    BY <2>2, <2>4 DEF Ahead, Before
  <2> QED BY <2>2, <2>3, <2>4
<1>8. /\ message'[w] = m /\ \A v \in Workers : v # w => message'[v] = message[v]
      /\ wpc'[w] = "send" /\ \A v \in Workers : v # w => wpc'[v] = wpc[v]
  BY <1>1, <1>2
<1>9. \A u, v \in Workers : u # v => Ahead(pool, Nums(message'[u]), Nums(message'[v]))
  BY <1>2, <1>7, <1>8 DEF InOrder
<1>10. /\ Stations[5] = Nums(m) \cup Stations'[5] /\ Stations'[4] = Stations[4] \cup Nums(m)
       /\ Ahead(pool, Nums(m), Stations'[5])
       /\ \A k \in 1..7 : k # 4 /\ k # 5 => Stations'[k] = Stations[k]
  <2>1. UNCHANGED <<sndbuf, outputbuffer, taskqueue, inputbuffer, inbound>>
    BY <1>1
  <2> QED BY <1>4, <1>5, <2>1, StationIndex DEF Stations
<1>11. Chain(pool, Stations') /\ Chunks(Stations') = Chunks(Stations)
  <2> DEFINE B == Stations'
             i == 4
             j == 5
  <2>1. Chain(pool, Stations) /\ i \in 1..7 /\ j \in 1..7 /\ i < j
    BY <1>2 DEF InOrder
  <2>2. Stations[j] = Nums(m) \cup B[j] /\ B[i] = Stations[i] \cup Nums(m) /\ Ahead(pool, Nums(m), B[j])
    BY <1>10
  <2>3. \A k \in 1..7 : k # i /\ k # j => B[k] = Stations[k]
    BY <1>10
  <2>4. \A k \in 1..7 : i < k /\ k < j => Stations[k] = {}
    OBVIOUS
  <2> HIDE DEF B, i, j
  <2>5. Chain(pool, B) /\ Chunks(B) = Chunks(Stations)
    BY <2>1, <2>2, <2>3, <2>4, Move
  <2> QED BY <2>5 DEF B
<1>12. \A k \in 1..7 : Stations'[k] \subseteq 1..clientsent
  BY <1>2, <1>11, ChunksWithin DEF InOrder
<1>13. \A v \in Workers : Ascending(message'[v])
  BY <1>2, <1>4, <1>8 DEF InOrder
<1>14. InOrder'
  BY <1>1, <1>2, <1>4, <1>9, <1>11, <1>12, <1>13 DEF InOrder
<1>15. Idlers'
  BY <1>1, <1>8 DEF EchoInv, Idlers
<1>16. Legible' /\ CloseHasReason'
  BY <1>1 DEF EchoInv, Legible, CloseHasReason
<1>17. UNCHANGED ES!vars
  BY <1>1, <1>2, <1>11, SameService
<1> QED
  BY <1>14, <1>15, <1>16, <1>17 DEF EchoInv

(* OnMessage() returns, and what the worker had is gone, or in the queue.  *)
LEMMA DoneMoves ==
    ASSUME EchoInv, IInv', NEW w \in Workers, SendGiveUp(w) \/ SendQueue(w)
    PROVE  EchoInv' /\ UNCHANGED ES!vars
<1> DEFINE m == message[w]
<1>1. /\ UNCHANGED <<clientsent, received, peer, inbound, sndbuf, inputbuffer, outputbuffer, disconnect, pool,
                     workqueue>>
      /\ message' = [message EXCEPT ![w] = <<>>] /\ wpc' = [wpc EXCEPT ![w] = "idle"]
      /\ \/ disconnect /\ taskqueue' = taskqueue
         \/ taskqueue' = Append(taskqueue, m)
  BY DEF SendGiveUp, SendQueue, Done, WorkerAt, clientvars, connvars
<1>2. /\ taskqueue \in Seq(Seq(Int)) /\ message \in [Workers -> Seq(Int)] /\ TypeOK /\ TypeOK' /\ InOrder
      /\ wpc \in [Workers -> {"idle", "send", "queue"}] /\ m \in Seq(Int)
  BY Sequences DEF EchoInv, IInv, TypeOK
<1>3. Ascending(m) /\ QueueSorted(pool, taskqueue)
  BY <1>2 DEF InOrder
<1> HIDE DEF m
<1>4. /\ QueueNums(message) = Nums(m) \cup QueueNums(message')
      /\ \A x \in QueueNums(message') : \E v \in Workers : v # w /\ x \in Nums(message[v])
  BY <1>1, <1>2, MessageLetGo DEF m
<1>5. Ahead(pool, Nums(m), QueueNums(message'))
  BY <1>2, <1>4 DEF InOrder, Ahead, m
<1>6. /\ message'[w] = <<>> /\ \A v \in Workers : v # w => message'[v] = message[v]
      /\ wpc'[w] = "idle" /\ \A v \in Workers : v # w => wpc'[v] = wpc[v]
  BY <1>1, <1>2
<1>7. Nums(<<>>) = {} /\ Ascending(<<>>)
  BY DEF Nums, Range, Ascending, Sorted
<1>8. /\ \A u, v \in Workers : u # v => Ahead(pool, Nums(message'[u]), Nums(message'[v]))
      /\ \A v \in Workers : Ascending(message'[v])
  BY <1>2, <1>6, <1>7 DEF InOrder, Ahead
<1>9. Idlers' /\ Legible' /\ CloseHasReason'
  BY <1>1, <1>6 DEF EchoInv, Idlers, Legible, CloseHasReason
<1>10. CASE disconnect /\ taskqueue' = taskqueue
  <2>1. \A k \in 1..7 : Stations'[k] \subseteq Stations[k]
    <3>1. UNCHANGED <<sndbuf, outputbuffer, taskqueue, workqueue, inputbuffer, inbound>>
      BY <1>1, <1>10
    <3>2. QueueNums(message') \subseteq QueueNums(message)
      BY <1>4
    <3> QED BY <3>1, <3>2, StationIndex DEF Stations
  <2>2. InOrder'
    BY <1>1, <1>2, <1>8, <1>10, <2>1, Leave DEF InOrder
  <2>3. UNCHANGED ES!vars
    BY <1>1, <1>2, <1>10, SameService
  <2> QED BY <1>9, <2>2, <2>3 DEF EchoInv
<1>11. CASE taskqueue' = Append(taskqueue, m)
  <2>1. Ahead(pool, QueueNums(taskqueue), Nums(m))
    <3>1. Ahead(pool, Stations[3], Stations[4])
      BY <1>2 DEF InOrder, Chain
    <3>2. Ahead(pool, QueueNums(taskqueue), QueueNums(message))
      BY <3>1 DEF Stations
    <3> QED BY <1>4, <3>2 DEF Ahead
  <2>2. QueueNums(taskqueue') = QueueNums(taskqueue) \cup Nums(m) /\ QueueSorted(pool, taskqueue')
    BY <1>2, <1>3, <1>11, <2>1, QueueAdd
  <2>3. /\ Stations[4] = Nums(m) \cup Stations'[4] /\ Stations'[3] = Stations[3] \cup Nums(m)
        /\ Ahead(pool, Nums(m), Stations'[4])
        /\ \A k \in 1..7 : k # 3 /\ k # 4 => Stations'[k] = Stations[k]
    <3>1. UNCHANGED <<sndbuf, outputbuffer, workqueue, inputbuffer, inbound>>
      BY <1>1
    <3> QED BY <1>4, <1>5, <2>2, <3>1, StationIndex DEF Stations
  <2>4. Chain(pool, Stations') /\ Chunks(Stations') = Chunks(Stations)
    <3> DEFINE B == Stations'
               i == 3
               j == 4
    <3>1. Chain(pool, Stations) /\ i \in 1..7 /\ j \in 1..7 /\ i < j
      BY <1>2 DEF InOrder
    <3>2. Stations[j] = Nums(m) \cup B[j] /\ B[i] = Stations[i] \cup Nums(m) /\ Ahead(pool, Nums(m), B[j])
      BY <2>3
    <3>3. \A k \in 1..7 : k # i /\ k # j => B[k] = Stations[k]
      BY <2>3
    <3>4. \A k \in 1..7 : i < k /\ k < j => Stations[k] = {}
      OBVIOUS
    <3> HIDE DEF B, i, j
    <3>5. Chain(pool, B) /\ Chunks(B) = Chunks(Stations)
      BY <3>1, <3>2, <3>3, <3>4, Move
    <3> QED BY <3>5 DEF B
  <2>5. \A k \in 1..7 : Stations'[k] \subseteq 1..clientsent
    BY <1>2, <2>4, ChunksWithin DEF InOrder
  <2>6. InOrder'
    BY <1>1, <1>2, <1>8, <2>2, <2>4, <2>5 DEF InOrder
  <2>7. UNCHANGED ES!vars
    BY <1>1, <1>2, <2>4, SameService
  <2> QED BY <1>9, <2>6, <2>7 DEF EchoInv
<1> QED
  BY <1>1, <1>10, <1>11

-----------------------------------------------------------------------------
LEMMA InitEcho == Init => EchoInv /\ ES!Init
<1> SUFFICES ASSUME Init PROVE EchoInv /\ ES!Init
  OBVIOUS
<1>1. IInv
  BY InitIInv
<1>2. /\ Nums(<<>>) = {} /\ Range(<<>>) = {} /\ QueueNums(<<>>) = {} /\ \A p : Sorted(p, <<>>) /\ QueueSorted(p, <<>>)
      /\ QueueNums([w \in Workers |-> <<>>]) = {}
  BY DEF Nums, Range, QueueNums, Sorted, QueueSorted
<1>3. \A k \in 1..7 : Stations[k] = {}
  BY <1>2, StationIndex DEF Init, Stations
<1>4. InOrder
  <2>1. Chain(pool, Stations) /\ \A k \in 1..7 : Stations[k] \subseteq 1..clientsent
    BY <1>3 DEF Chain, Ahead
  <2>2. inputbuffer \o inbound = <<>>
    BY DEF Init
  <2> QED BY <1>2, <2>1, <2>2 DEF Init, InOrder, Ascending, Ahead
<1>5. Legible /\ Idlers /\ CloseHasReason
  BY <1>2 DEF Init, Legible, Idlers, CloseHasReason
<1>6. OnTheWay = {}
  <2>1. TypeOK /\ ~Reset /\ ~disconnect
    BY <1>1 DEF Init, IInv, Reset
  <2> QED BY <1>3, <2>1, OnTheWayIs, InChunks
<1> QED
  BY <1>1, <1>4, <1>5, <1>6 DEF EchoInv, ES!Init, Init, Reset

LEMMA NextEcho == EchoInv /\ [Next]_vars => EchoInv' /\ (WithZero = {} => [ES!Next]_ES!vars)
<1> SUFFICES ASSUME EchoInv, [Next]_vars PROVE EchoInv' /\ (WithZero = {} => [ES!Next]_ES!vars)
  OBVIOUS
<1> USE DEF ES!Next
<1>1. IInv'
  BY NextIInv DEF EchoInv
<1>2. CASE UNCHANGED vars
  BY <1>1, <1>2, IdleSteps DEF vars, clientvars, servervars, connvars, workvars, Reset
<1>3. CASE EpollReturn \/ HandleWakeup \/ HandleWakeupEnd \/ HandleReadable \/ BatchEnd
  <2>1. UNCHANGED <<clientvars, connvars, taskqueue, workvars>>
    BY <1>3 DEF EpollReturn, HandleWakeup, HandleWakeupEnd, HandleReadable, BatchEnd, BatchEndWhen
  <2> QED BY <1>1, <2>1, IdleSteps DEF clientvars, connvars, workvars, Reset
<1>4. CASE HandleWakeupTask
  BY <1>1, <1>4, TaskMoves
<1>5. CASE Read
  BY <1>1, <1>5, ReadMoves
<1>6. CASE ReadAgain
  <2>1. CASE inputbuffer = <<>>
    <3>1. UNCHANGED <<clientvars, outputbuffer, workqueue, disconnect, taskqueue, pool, wpc, message>> /\ inputbuffer' = inputbuffer
      BY <1>6, <2>1 DEF ReadAgain
    <3> QED BY <1>1, <3>1, IdleSteps DEF clientvars, Reset
  <2>2. CASE inputbuffer # <<>> /\ pool # {}
    BY <1>1, <1>6, <2>2, HandOverMoves
  <2>3. CASE inputbuffer # <<>> /\ pool = {}
    BY <1>1, <1>6, <2>3, AnswerMoves
  <2> QED BY <2>1, <2>2, <2>3
<1>7. CASE ReadClosed
  BY <1>1, <1>7, CloseStep
<1>8. CASE WriteCallback
  BY <1>1, <1>8, WriteMoves
<1>9. ASSUME NEW w \in Workers, WorkerStep(w) PROVE EchoInv' /\ UNCHANGED ES!vars
  <2>1. CASE TakeMessage(w)
    BY <1>1, <2>1, TakeMoves
  <2>2. CASE SendGiveUp(w) \/ SendQueue(w)
    BY <1>1, <2>2, DoneMoves
  <2>3. CASE SendGoOn(w)
    <3>1. /\ UNCHANGED <<clientvars, connvars, taskqueue, pool, workqueue, message>>
          /\ wpc[w] = "send" /\ wpc' = [wpc EXCEPT ![w] = "queue"] /\ wpc \in [Workers -> {"idle", "send", "queue"}]
      BY <2>3 DEF SendGoOn, WorkerAt, EchoInv, IInv, TypeOK
    <3>2. w \in pool /\ wpc'[w] = "queue" /\ \A v \in Workers : v # w => wpc'[v] = wpc[v]
      BY <3>1 DEF EchoInv, Idlers
    <3> QED BY <1>1, <3>1, <3>2, IdleSteps DEF clientvars, connvars, Reset
  <2> QED BY <1>9, <2>1, <2>2, <2>3 DEF WorkerStep
<1>10. CASE ClientSend
  BY <1>1, <1>10, SendStep
<1>11. CASE ClientReceive
  BY <1>1, <1>11, ReceiveStep
<1>12. CASE ClientClose
  <2>1. /\ UNCHANGED <<clientsent, received, inbound, sndbuf, servervars>>
        /\ peer = "open" /\ peer' = "fin"
    BY <1>12 DEF ClientClose
  <2> QED BY <1>1, <2>1, IdleSteps DEF servervars, connvars, workvars, Reset
<1>13. CASE ClientAbort
  BY <1>1, <1>13, AbortStep
<1> QED
  BY <1>2, <1>3, <1>4, <1>5, <1>6, <1>7, <1>8, <1>9, <1>10, <1>11, <1>12, <1>13 DEF Next, LoopStep, ClientStep

(* onmessage(), OnMessage(), send(), sendinloop(), writecallback() and the *)
(* close are an echo service for messages without a zero byte: with one    *)
(* worker or none each chunk comes back as it was sent, once and in the    *)
(* order of sending, and a connection that ends has answered a prefix of   *)
(* what was sent; with more workers in some order.                         *)
THEOREM Refinement ==
    ASSUME WithZero = {}
    PROVE  Spec => ImplementsEcho
<1>1. EchoInv /\ [Next]_vars => EchoInv' /\ [ES!Next]_ES!vars
  BY NextEcho
<1>2. Spec => ES!Spec
  BY InitEcho, <1>1, PTL DEF Spec, ES!Spec
<1> QED
  BY <1>2 DEF ImplementsEcho
=============================================================================
