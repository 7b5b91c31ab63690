---------------------------- MODULE QueueLemmas ----------------------------
(***************************************************************************)
(* Facts about sequences, as queues and as buffers, for the proofs about   *)
(* EventLoop, ThreadPool, Connection and Framing.                          *)
(***************************************************************************)
EXTENDS Integers, Sequences, Functions, FiniteSetsExt, TLAPS

(* Moving the head of a queue to the end of the list of tasks that ran     *)
(* does not change the two put together.                                   *)
LEMMA MoveHead ==
    ASSUME NEW S, NEW r \in Seq(S), NEW q \in Seq(S), q # <<>>
    PROVE  /\ Append(r, Head(q)) \o Tail(q) = r \o q
           /\ Head(q) = (r \o q)[Len(r) + 1]
           /\ Len(r) < Len(r \o q)
           /\ Head(q) \in S
           /\ Tail(q) \in Seq(S)
<1>1. Len(q) > 0 /\ Head(q) = q[1] /\ Head(q) \in S /\ Tail(q) \in Seq(S)
  OBVIOUS
<1>2. Len(r \o q) = Len(r) + Len(q) /\ (r \o q)[Len(r) + 1] = q[1]
  BY <1>1
<1>3. Append(r, Head(q)) \o Tail(q) = r \o q
  <2> DEFINE a == Append(r, Head(q)) \o Tail(q)
  <2>1. a \in Seq(S) /\ r \o q \in Seq(S) /\ Len(a) = Len(r \o q)
    BY <1>1
  <2>2. \A i \in 1..Len(a) : a[i] = (r \o q)[i]
    BY <1>1
  <2> QED
    BY <2>1, <2>2
<1> QED
  BY <1>1, <1>2, <1>3

(* The range of a sequence with one more element.                          *)
LEMMA AppendRange ==
    ASSUME NEW S, NEW s \in Seq(S), NEW e \in S
    PROVE  Range(Append(s, e)) = Range(s) \cup {e}
<1> DEFINE t == Append(s, e)
           n == Len(s)
<1>1. n \in Nat /\ DOMAIN s = 1..n /\ DOMAIN t = 1..(n + 1)
  OBVIOUS
<1>2. t[n + 1] = e /\ \A i \in 1..n : t[i] = s[i]
  OBVIOUS
<1>3. \A i \in 1..(n + 1) : i = n + 1 \/ i \in 1..n
  BY <1>1
<1>4. n + 1 \in 1..(n + 1) /\ \A i \in 1..n : i \in 1..(n + 1)
  BY <1>1
<1> HIDE DEF t, n
<1>5. ASSUME NEW x \in Range(t) PROVE x \in Range(s) \cup {e}
  BY <1>1, <1>2, <1>3, <1>5 DEF Range
<1>6. ASSUME NEW x \in Range(s) \cup {e} PROVE x \in Range(t)
  BY <1>1, <1>2, <1>4, <1>6 DEF Range
<1> QED
  BY <1>5, <1>6 DEF t

(* A sequence over S has its elements in S.                                *)
LEMMA RangeOfSeq ==
    ASSUME NEW S, NEW s \in Seq(S)
    PROVE  Range(s) \subseteq S
<1>1. SUFFICES ASSUME NEW e \in Range(s) PROVE e \in S
  OBVIOUS
<1>2. PICK i \in DOMAIN s : e = s[i]
  BY DEF Range
<1> QED
  BY <1>2
(* The smaller of two numbers.                                             *)
LEMMA MinOfTwo ==
    ASSUME NEW a \in Int, NEW b \in Int
    PROVE  Min({a, b}) \in {a, b} /\ Min({a, b}) <= a /\ Min({a, b}) <= b
<1>1. \E x \in {a, b} : \A y \in {a, b} : x <= y
  <2>1. CASE a <= b BY <2>1
  <2>2. CASE b <= a BY <2>2
  <2> QED BY <2>1, <2>2
<1> QED
  BY <1>1 DEF Min

(* Sequences put together, and their elements.                             *)
LEMMA Joined ==
    ASSUME NEW S, NEW s \in Seq(S), NEW t \in Seq(S)
    PROVE  s \o t \in Seq(S) /\ Len(s \o t) = Len(s) + Len(t)
OBVIOUS

LEMMA Added ==
    ASSUME NEW S, NEW s \in Seq(S), NEW e \in S
    PROVE  Append(s, e) \in Seq(S)
OBVIOUS

LEMMA PartsOfJoined ==
    ASSUME NEW S, NEW s \in Seq(S), NEW t \in Seq(S)
    PROVE  /\ \A i \in 1..Len(s) : (s \o t)[i] = s[i]
           /\ \A i \in 1..Len(t) : (s \o t)[Len(s) + i] = t[i]
OBVIOUS

LEMMA SameElements ==
    ASSUME NEW S, NEW s \in Seq(S), NEW t \in Seq(S),
           Len(s) = Len(t), \A i \in 1..Len(s) : s[i] = t[i]
    PROVE  s = t
OBVIOUS

LEMMA ConcatAssociative ==
    ASSUME NEW S, NEW r \in Seq(S), NEW s \in Seq(S), NEW t \in Seq(S)
    PROVE  (r \o s) \o t = r \o (s \o t)
OBVIOUS

(* A sequence cut in two and put together again.                           *)
LEMMA Cut ==
    ASSUME NEW S, NEW s \in Seq(S), NEW k \in 0..Len(s)
    PROVE  LET a == SubSeq(s, 1, k)
               b == SubSeq(s, k + 1, Len(s))
           IN  /\ a \in Seq(S) /\ b \in Seq(S) /\ Len(a) = k /\ Len(b) = Len(s) - k
               /\ s = a \o b
<1> DEFINE a == SubSeq(s, 1, k)
           b == SubSeq(s, k + 1, Len(s))
<1>1. Len(s) \in Nat /\ k \in Nat /\ k <= Len(s)
  OBVIOUS
<1>2. a \in Seq(S) /\ Len(a) = k /\ b \in Seq(S) /\ Len(b) = Len(s) - k
  OBVIOUS
<1>3. (\A i \in 1..k : a[i] = s[i]) /\ (\A i \in 1..(Len(s) - k) : b[i] = s[k + i])
  OBVIOUS
<1> HIDE DEF a, b
<1>4. a \o b \in Seq(S) /\ Len(a \o b) = Len(a) + Len(b)
  BY <1>2, Joined
<1>5. ASSUME NEW i \in 1..Len(s) PROVE (a \o b)[i] = s[i]
  <2>1. i \in Int /\ (i <= k \/ k < i)
    BY <1>1
  <2>2. CASE i <= k
    BY <1>2, <1>3, <2>2
  <2>3. CASE k < i
    <3>1. i - k \in 1..Len(b) /\ (a \o b)[i] = b[i - k] /\ k + (i - k) = i
      BY <1>1, <1>2, <2>3, SMTT(30)
    <3> QED BY <1>2, <1>3, <3>1
  <2> QED BY <2>1, <2>2, <2>3
<1>6. Len(a \o b) = Len(s)
  BY <1>1, <1>2, <1>4
<1>7. s = a \o b
  BY <1>2, <1>4, <1>5, <1>6, SameElements
<1> QED
  BY <1>2, <1>7 DEF a, b
=============================================================================
