--------------------------- MODULE FramingProofs ---------------------------
(***************************************************************************)
(* No byte is lost on the way from the client to the application, and with *)
(* a header the stream is a queue of messages: for every base of the       *)
(* bytes, all messages an int can count, and every way to cut the stream.  *)
(***************************************************************************)
EXTENDS Framing, QueueLemmas, WellFoundedInduction

-----------------------------------------------------------------------------
(* Induction over the numbers, with a set in the place of a predicate.     *)

LEMMA LeastNat ==
    ASSUME NEW T, T \subseteq Nat, T # {}
    PROVE  \E x \in T : \A y \in T : x <= y
<1> DEFINE R == {ss \in Nat \X Nat : ss[1] < ss[2]}
<1>1. IsWellFoundedOn(R, Nat)
  BY NatLessThanWellFounded DEF OpToRel
<1> HIDE DEF R
<1>2. PICK x \in T : \A y \in T : ~(<<y, x>> \in R)
  BY <1>1, WFMin
<1>3. \A y \in T : <<y, x>> \in Nat \X Nat /\ ~(y < x)
  BY <1>2 DEF R
<1>4. ASSUME NEW y \in T PROVE x <= y
  <2>1. y \in Nat /\ x \in Nat
    OBVIOUS
  <2>2. ~(y < x)
    BY <1>3
  <2> QED BY <2>1, <2>2
<1> QED
  BY <1>4

LEMMA Induction ==
    ASSUME NEW P, 0 \in P, \A n \in Nat : n \in P => n + 1 \in P
    PROVE  Nat \subseteq P
<1> SUFFICES ASSUME ~(Nat \subseteq P) PROVE FALSE
  OBVIOUS
<1> DEFINE T == Nat \ P
<1>1. PICK x \in T : \A y \in T : x <= y
  BY LeastNat
<1>2. x \in Nat /\ x # 0 /\ x - 1 \in Nat /\ x - 1 \notin T /\ (x - 1) + 1 = x
  BY <1>1
<1> QED
  BY <1>1, <1>2

-----------------------------------------------------------------------------
(* FlattenSeq, element by element.  Flat(s, f): f[i] is what the first i   *)
(* sequences of s make together.                                           *)

Flat(s, f) == f = [i \in 1..Len(s) |-> IF i = 1 THEN s[i] ELSE f[i - 1] \o s[i]]

LEMMA FlatExists ==
    ASSUME NEW S, NEW s \in Seq(Seq(S))
    PROVE  \E f : Flat(s, f)
<1> DEFINE P == {n \in Nat : \A t \in Seq(Seq(S)) : Len(t) = n => \E f : Flat(t, f)}
<1>1. 0 \in P
  <2> SUFFICES ASSUME NEW t \in Seq(Seq(S)), Len(t) = 0 PROVE \E f : Flat(t, f)
    OBVIOUS
  <2> DEFINE g == [i \in 1..0 |-> t]
  <2>1. g = [i \in 1..Len(t) |-> IF i = 1 THEN t[i] ELSE g[i - 1] \o t[i]]
    OBVIOUS
  <2> HIDE DEF g
  <2>2. Flat(t, g)
    BY <2>1 DEF Flat
  <2> QED BY <2>2
<1>2. ASSUME NEW n \in Nat, n \in P PROVE n + 1 \in P
  <2> SUFFICES ASSUME NEW t \in Seq(Seq(S)), Len(t) = n + 1 PROVE \E f : Flat(t, f)
    OBVIOUS
  <2> DEFINE r == [i \in 1..n |-> t[i]]
  <2>1. r \in Seq(Seq(S)) /\ Len(r) = n /\ \A i \in 1..n : r[i] = t[i]
    OBVIOUS
  <2> HIDE DEF r
  <2>2. PICK f : Flat(r, f)
    BY <1>2, <2>1
  <2>3. \A i \in 1..n : f[i] = IF i = 1 THEN t[i] ELSE f[i - 1] \o t[i]
    BY <2>1, <2>2 DEF Flat
  <2> DEFINE g == [i \in 1..(n + 1) |-> IF i = n + 1 THEN IF i = 1 THEN t[i] ELSE f[n] \o t[i] ELSE f[i]]
  <2>4. ASSUME NEW i \in 1..(n + 1)
        PROVE  g[i] = IF i = 1 THEN t[i] ELSE g[i - 1] \o t[i]
    <3>1. CASE i = n + 1 /\ i = 1
      BY <3>1
    <3>2. CASE i = n + 1 /\ i # 1
      <4>1. n \in 1..(n + 1) /\ n # n + 1 /\ i - 1 = n
        BY <3>2
      <4>2. g[n] = f[n] /\ g[i] = f[n] \o t[i]
        BY <3>2, <4>1
      <4> HIDE DEF g
      <4> QED BY <3>2, <4>1, <4>2
    <3>3. CASE i # n + 1
      <4>1. i \in 1..n /\ g[i] = f[i]
        BY <3>3
      <4>2. i # 1 => i - 1 \in 1..(n + 1) /\ i - 1 # n + 1 /\ g[i - 1] = f[i - 1]
        BY <3>3
      <4> QED BY <2>3, <4>1, <4>2
    <3> QED BY <3>1, <3>2, <3>3
  <2>5. g = [i \in 1..(n + 1) |-> IF i = 1 THEN t[i] ELSE g[i - 1] \o t[i]]
    <3> DEFINE h == [i \in 1..(n + 1) |-> IF i = 1 THEN t[i] ELSE g[i - 1] \o t[i]]
    <3>1. \A i \in 1..(n + 1) : g[i] = h[i]
      BY <2>4
    <3>2. g = [i \in 1..(n + 1) |-> g[i]]
      OBVIOUS
    <3> HIDE DEF g
    <3>3. h = [i \in 1..(n + 1) |-> h[i]]
      OBVIOUS
    <3> HIDE DEF h
    <3>4. g = h
      BY <3>1, <3>2, <3>3
    <3> QED BY <3>4 DEF h
  <2> HIDE DEF g
  <2>6. Flat(t, g)
    BY <2>5 DEF Flat
  <2> QED BY <2>6
<1> HIDE DEF P
<1>3. Nat \subseteq P
  BY <1>1, <1>2, Induction
<1> QED
  BY <1>3 DEF P

(* Two sequences that begin alike are flattened alike as far.              *)
LEMMA FlatUnique ==
    ASSUME NEW S, NEW s \in Seq(Seq(S)), NEW t \in Seq(Seq(S)), NEW f, NEW g,
           Flat(s, f), Flat(t, g),
           Len(s) <= Len(t), \A i \in 1..Len(s) : s[i] = t[i]
    PROVE  \A i \in 1..Len(s) : f[i] = g[i] /\ f[i] \in Seq(S)
<1>1. /\ \A i \in 1..Len(s) : f[i] = IF i = 1 THEN s[i] ELSE f[i - 1] \o s[i]
      /\ \A i \in 1..Len(t) : g[i] = IF i = 1 THEN t[i] ELSE g[i - 1] \o t[i]
  BY DEF Flat
<1>2. \A i \in 1..Len(s) : s[i] \in Seq(S) /\ i \in 1..Len(t)
  OBVIOUS
<1> DEFINE P == {n \in Nat : n \in 1..Len(s) => f[n] = g[n] /\ f[n] \in Seq(S)}
<1>3. 0 \in P
  OBVIOUS
<1>4. ASSUME NEW n \in Nat, n \in P PROVE n + 1 \in P
  <2> SUFFICES ASSUME n + 1 \in 1..Len(s) PROVE f[n + 1] = g[n + 1] /\ f[n + 1] \in Seq(S)
    OBVIOUS
  <2>1. CASE n = 0
    <3>1. n + 1 = 1 /\ 1 \in 1..Len(s)
      BY <2>1
    <3>2. f[1] = s[1] /\ g[1] = t[1] /\ s[1] = t[1] /\ s[1] \in Seq(S)
      BY <1>1, <1>2, <3>1
    <3> QED BY <3>1, <3>2
  <2>2. CASE n # 0
    <3>1. n \in 1..Len(s) /\ n + 1 # 1 /\ (n + 1) - 1 = n
      BY <2>2
    <3>2. f[n] = g[n] /\ f[n] \in Seq(S)
      BY <1>4, <3>1
    <3>3. f[n + 1] = f[n] \o s[n + 1] /\ g[n + 1] = g[n] \o t[n + 1]
      BY <1>1, <1>2, <3>1
    <3>4. s[n + 1] \in Seq(S) /\ s[n + 1] = t[n + 1]
      BY <1>2
    <3> QED BY <3>2, <3>3, <3>4
  <2> QED BY <2>1, <2>2
<1> HIDE DEF P
<1>5. Nat \subseteq P
  BY <1>3, <1>4, Induction
<1> QED
  BY <1>5 DEF P

LEMMA FlattenIs ==
    ASSUME NEW S, NEW s \in Seq(Seq(S)), NEW f, Flat(s, f), s # <<>>
    PROVE  FlattenSeq(s) = f[Len(s)]
<1> DEFINE g == CHOOSE flatten : flatten = [i \in 1..Len(s) |-> IF i = 1 THEN s[i] ELSE flatten[i - 1] \o s[i]]
<1>1. FlattenSeq(s) = g[Len(s)]
  BY DEF FlattenSeq
<1>2. Flat(s, g)
  <2>1. \E h : h = [i \in 1..Len(s) |-> IF i = 1 THEN s[i] ELSE h[i - 1] \o s[i]]
    BY FlatExists DEF Flat
  <2>2. g = [i \in 1..Len(s) |-> IF i = 1 THEN s[i] ELSE g[i - 1] \o s[i]]
    BY <2>1
  <2> QED BY <2>2 DEF Flat
<1> HIDE DEF g
<1>3. Len(s) \in 1..Len(s) /\ Len(s) <= Len(s)
  OBVIOUS
<1>4. g[Len(s)] = f[Len(s)]
  BY <1>2, <1>3, FlatUnique
<1> QED
  BY <1>1, <1>4

LEMMA FlattenType ==
    ASSUME NEW S, NEW s \in Seq(Seq(S))
    PROVE  FlattenSeq(s) \in Seq(S)
<1>1. CASE s = <<>>
  BY <1>1 DEF FlattenSeq
<1>2. CASE s # <<>>
  <2>1. PICK f : Flat(s, f)
    BY FlatExists
  <2>2. Len(s) \in 1..Len(s) /\ Len(s) <= Len(s)
    BY <1>2
  <2>3. f[Len(s)] \in Seq(S)
    BY <2>1, <2>2, FlatUnique
  <2> QED BY <1>2, <2>1, <2>3, FlattenIs
<1> QED
  BY <1>1, <1>2

(* The last sequence comes last.                                           *)
LEMMA FlattenAppend ==
    ASSUME NEW S, NEW s \in Seq(Seq(S)), NEW e \in Seq(S)
    PROVE  FlattenSeq(Append(s, e)) = FlattenSeq(s) \o e
<1> DEFINE t == Append(s, e)
           n == Len(s)
<1>1. t \in Seq(Seq(S)) /\ Len(t) = n + 1 /\ n \in Nat /\ n + 1 \in 1..Len(t) /\ t # <<>>
  <2>1. t \in Seq(Seq(S)) /\ Len(t) = n + 1 /\ n \in Nat
    OBVIOUS
  <2> HIDE DEF t
  <2>2. t # <<>>
    <3> SUFFICES ASSUME t = <<>> PROVE FALSE
      OBVIOUS
    <3>1. Len(t) = 0
      OBVIOUS
    <3> QED BY <2>1, <3>1
  <2> QED BY <2>1, <2>2
<1>2. t[n + 1] = e /\ \A i \in 1..n : s[i] = t[i]
  OBVIOUS
<1> HIDE DEF t
<1>3. PICK g : Flat(t, g)
  BY <1>1, FlatExists
<1>4. FlattenSeq(t) = g[n + 1]
  BY <1>1, <1>3, FlattenIs
<1>5. g[n + 1] = IF n + 1 = 1 THEN t[n + 1] ELSE g[(n + 1) - 1] \o t[n + 1]
  BY <1>1, <1>3 DEF Flat
<1>6. CASE s = <<>>
  <2>1. FlattenSeq(s) = <<>>
    BY <1>6 DEF FlattenSeq
  <2>2. n = 0
    BY <1>6
  <2> QED BY <1>1, <1>2, <1>4, <1>5, <2>1, <2>2 DEF t
<1>7. CASE s # <<>>
  <2>1. PICK f : Flat(s, f)
    BY FlatExists
  <2>2. n \in 1..n /\ n <= Len(t) /\ n + 1 # 1 /\ (n + 1) - 1 = n
    BY <1>1, <1>7
  <2>3. f[n] = g[n]
    <3>1. \A i \in 1..Len(s) : f[i] = g[i] /\ f[i] \in Seq(S)
      BY <1>1, <1>2, <1>3, <2>1, <2>2, FlatUnique
    <3> QED BY <2>2, <3>1
  <2>4. FlattenSeq(s) = f[n]
    BY <1>7, <2>1, FlattenIs
  <2> QED BY <1>1, <1>2, <1>4, <1>5, <2>2, <2>3, <2>4 DEF t
<1> QED
  BY <1>6, <1>7

-----------------------------------------------------------------------------
(* The bytes of an int.                                                    *)

LEMMA DivMod ==
    ASSUME NEW n \in Int, NEW b \in Nat \ {0}
    PROVE  (n \div b) \in Int /\ (n % b) \in 0..(b - 1) /\ n = b * (n \div b) + (n % b)
<1>1. (n \div b) \in Int
  OBVIOUS
<1>2. (n % b) \in 0..(b - 1)
  OBVIOUS
<1>3. n = b * (n \div b) + (n % b)
  OBVIOUS
<1> QED
  BY <1>1, <1>2, <1>3

LEMMA DivLess ==
    ASSUME NEW q \in Int, NEW b \in Nat \ {0}, NEW r \in 0..(b - 1), NEW m \in Int,
           b * q + r < b * m
    PROVE  q < m
<1> SUFFICES ASSUME m <= q PROVE FALSE
  OBVIOUS
<1>1. b * m <= b * q
  OBVIOUS
<1> QED
  BY <1>1

LEMMA DivNotNegative ==
    ASSUME NEW n \in Nat, NEW b \in Nat \ {0}
    PROVE  n \div b \in Nat
OBVIOUS

(* A number and its remainder when it is off by one period at most.        *)
LEMMA Remainder ==
    ASSUME NEW b \in Nat \ {0}, NEW n \in Int
    PROVE  /\ n \in 0..(b - 1) => n % b = n
           /\ n \in (-b)..(-1) => n % b = n + b
<1> DEFINE q == n \div b
           r == n % b
<1>1. q \in Int /\ r \in 0..(b - 1) /\ n = b * q + r
  BY DivMod
<1> HIDE DEF q, r
<1>2. ASSUME n \in 0..(b - 1) PROVE r = n
  <2>1. b * q + r < b * 1 /\ b * (-1) + r < b * q + r
    BY <1>1, <1>2
  <2>2. q < 1
    BY <1>1, <2>1, DivLess
  <2>3. -1 < q
    <3> SUFFICES ASSUME q <= -1 PROVE FALSE
      BY <1>1
    <3>1. b * q <= b * (-1)
      BY <1>1
    <3> QED BY <1>1, <2>1, <3>1
  <2>4. q = 0
    BY <1>1, <2>2, <2>3
  <2> QED BY <1>1, <2>4
<1>3. ASSUME n \in (-b)..(-1) PROVE r = n + b
  <2>1. b * q + r < b * 0 /\ b * (-2) + r < b * q + r
    BY <1>1, <1>3
  <2>2. q < 0
    BY <1>1, <2>1, DivLess
  <2>3. -2 < q
    <3> SUFFICES ASSUME q <= -2 PROVE FALSE
      BY <1>1
    <3>1. b * q <= b * (-2)
      BY <1>1
    <3> QED BY <1>1, <2>1, <3>1
  <2>4. q = -1
    BY <1>1, <2>2, <2>3
  <2>5. b * q = -b
    BY <2>4
  <2> QED BY <1>1, <2>5
<1> QED
  BY <1>2, <1>3 DEF r

LEMMA WordsType == Words \in Nat /\ Words >= 256 /\ Words \div 2 \in Nat /\ 2 * (Words \div 2) <= Words
<1>1. Base \in Nat /\ Base >= 4
  BY BufferAssumption
<1>2. Base * Base \in Nat /\ Base * Base >= 16
  BY <1>1
<1>3. Base * Base * Base \in Nat /\ Base * Base * Base >= 64
  BY <1>1, <1>2
<1>4. Words \in Nat /\ Words >= 256
  BY <1>1, <1>3 DEF Words
<1> QED
  BY <1>4, DivMod, DivNotNegative

(* What a sum of an int and the size of a header is, as an int.            *)
LEMMA SignedIs ==
    ASSUME NEW u \in 0..(Words - 1)
    PROVE  Signed(u) = IF u < Words \div 2 THEN u ELSE u - Words
<1> DEFINE W == Words
<1>1. W \in Nat /\ W >= 256
  BY WordsType
<1>2. u \in 0..(W - 1)
  OBVIOUS
<1> HIDE DEF W
<1>3. u % W = u
  BY <1>1, <1>2, Remainder
<1> QED
  BY <1>3 DEF Signed, W

(* len + 4, for every int len: no header of a negative length asks for as  *)
(* little as there can be of a header.                                     *)
LEMMA FramedIs ==
    ASSUME NEW u \in 0..(Words - 1)
    PROVE  /\ u + HeaderSize < Words \div 2 => Framed(Signed(u)) = u + HeaderSize
           /\ u < Words - 4 => Framed(Signed(u)) \notin 0..3
<1> DEFINE W == Words
           H == Words \div 2
           s == Signed(u)
           t == s + HeaderSize
<1>1. W \in Nat /\ W >= 256 /\ H \in Nat /\ 2 * H <= W
  BY WordsType
<1>2. u \in 0..(W - 1) /\ s = (IF u < H THEN u ELSE u - W) /\ t = s + 4
  BY SignedIs DEF HeaderSize
<1>3. Framed(s) = Signed(t)
  BY DEF Framed
<1>4. Signed(t) = IF t % W < H THEN t % W ELSE (t % W) - W
  BY DEF Signed
<1> HIDE DEF W, H, s, t
<1>5. /\ t \in 0..(W - 1) => t % W = t
      /\ t \in (-W)..(-1) => t % W = t + W
  BY <1>1, <1>2, Remainder
<1>6. ASSUME u + 4 < H PROVE Framed(s) = u + 4
  <2>1. t = u + 4 /\ t \in 0..(W - 1)
    BY <1>1, <1>2, <1>6
  <2> QED BY <1>3, <1>4, <1>5, <1>6, <2>1
<1>7. ASSUME u < W - 4 PROVE Framed(s) \notin 0..3
  <2>1. CASE u < H
    <3>1. t = u + 4 /\ t \in 0..(W - 1)
      BY <1>1, <1>2, <1>7, <2>1
    <3> QED BY <1>1, <1>2, <1>3, <1>4, <1>5, <3>1
  <2>2. CASE ~(u < H)
    <3>1. t = u - W + 4 /\ t \in (-W)..(-1)
      BY <1>1, <1>2, <1>7, <2>2
    <3>2. t % W = u + 4 /\ ~(u + 4 < H) /\ u + 4 - W < 0
      BY <1>1, <1>2, <1>5, <1>7, <2>2, <3>1
    <3> QED BY <1>1, <1>2, <1>3, <1>4, <3>2
  <2> QED BY <2>1, <2>2
<1> QED
  BY <1>6, <1>7 DEF s, W, H, HeaderSize

(* The value of four bytes without its sign.                               *)
Value(h) == h[1] + Base * (h[2] + Base * (h[3] + Base * h[4]))

LEMMA ValueType ==
    ASSUME NEW h, h[1] \in Byte, h[2] \in Byte, h[3] \in Byte, h[4] \in Byte
    PROVE  /\ Value(h) \in 0..(Words - 1) /\ Length(h) = Signed(Value(h))
           /\ h[2] = 0 \/ h[3] = 0 \/ h[4] = 0 => Value(h) < Words - 4
<1> DEFINE b2 == Base * Base
           b3 == Base * Base * Base
           v2 == h[3] + Base * h[4]
           v1 == h[2] + Base * v2
<1>1. /\ Base \in Nat /\ Base >= 4
      /\ \A i \in {1, 2, 3, 4} : h[i] \in 0..(Base - 1)
  BY BufferAssumption DEF Byte
<1>2. b2 \in Nat /\ b3 \in Nat /\ b3 = Base * b2 /\ Words = Base * b3 /\ b2 >= 4 * Base /\ b3 >= 4 * b2
  BY <1>1 DEF Words
<1>3. v2 \in Nat /\ v2 <= b2 - 1
  <2>1. Base * h[4] <= Base * (Base - 1) /\ Base * h[4] \in Nat
    BY <1>1
  <2> QED BY <1>1, <2>1
<1>4. h[4] = 0 => v2 <= Base - 1
  BY <1>1
<1>5. h[3] = 0 => v2 <= b2 - Base
  <2>1. Base * h[4] <= Base * (Base - 1)
    BY <1>1
  <2> QED BY <1>1, <2>1
<1> HIDE DEF v2, b2
<1>6. \A x, y \in Nat : x <= y => Base * x <= Base * y /\ Base * x \in Nat
  BY <1>1
<1>7. Base * (b2 - 1) = b3 - Base /\ Base * (b2 - Base) = b3 - Base * Base /\ Base * Base = b2
  BY <1>1, <1>2 DEF b2
<1>8. Base * (Base - 1) = b2 - Base
  BY <1>1 DEF b2
<1> HIDE DEF b3
<1>9. v1 \in Nat /\ v1 <= b3 - 1
  <2>1. Base * v2 <= Base * (b2 - 1) /\ Base * v2 \in Nat
    BY <1>1, <1>2, <1>3, <1>6
  <2> QED BY <1>1, <1>2, <1>7, <2>1
<1>10. ASSUME h[2] = 0 \/ h[3] = 0 \/ h[4] = 0 PROVE v1 <= b3 - 2
  <2>1. CASE h[2] = 0
    <3>1. Base * v2 <= Base * (b2 - 1) /\ Base * v2 \in Nat
      BY <1>1, <1>2, <1>3, <1>6
    <3> QED BY <1>1, <1>2, <1>7, <2>1, <3>1
  <2>2. CASE h[3] = 0
    <3>1. Base * v2 <= Base * (b2 - Base) /\ Base * v2 \in Nat
      BY <1>1, <1>2, <1>3, <1>5, <1>6, <2>2
    <3> QED BY <1>1, <1>2, <1>7, <3>1
  <2>3. CASE h[4] = 0
    <3>1. Base * v2 <= Base * (Base - 1) /\ Base * v2 \in Nat
      BY <1>1, <1>2, <1>3, <1>4, <1>6, <2>3
    <3> QED BY <1>1, <1>2, <1>8, <3>1
  <2> QED BY <1>10, <2>1, <2>2, <2>3
<1>11. Value(h) = h[1] + Base * v1 /\ Length(h) = Signed(Value(h))
  BY DEF Value, Length, v1, v2
<1> HIDE DEF v1
<1>12. Base * (b3 - 1) = Words - Base /\ Base * (b3 - 2) = Words - 2 * Base
  BY <1>1, <1>2
<1>13. Value(h) \in 0..(Words - 1)
  <2>1. Base * v1 <= Base * (b3 - 1) /\ Base * v1 \in Nat
    BY <1>1, <1>2, <1>6, <1>9
  <2> QED BY <1>1, <1>11, <1>12, <2>1, WordsType
<1>14. ASSUME h[2] = 0 \/ h[3] = 0 \/ h[4] = 0 PROVE Value(h) < Words - 4
  <2>1. Base * v1 <= Base * (b3 - 2) /\ Base * v1 \in Nat
    BY <1>1, <1>2, <1>6, <1>9, <1>10, <1>14
  <2> QED BY <1>1, <1>11, <1>12, <2>1, WordsType
<1> QED
  BY <1>11, <1>13, <1>14

(* The length that appendwithsep() writes as four bytes is the length that *)
(* pickmessage() reads, and the int sum len + 4 does not wrap, as long as  *)
(* an int holds it.                                                        *)
THEOREM HeaderSays ==
    ASSUME NEW n \in Nat, n + HeaderSize < Words \div 2
    PROVE  LET h == Header(n)
           IN  /\ h \in Seq(Byte) /\ Len(h) = HeaderSize
               /\ Length(h) = n /\ Framed(Length(h)) = n + HeaderSize
<1> DEFINE h == Header(n)
           n2 == n \div Base
           n3 == n2 \div Base
           n4 == n3 \div Base
           n5 == n4 \div Base
<1>1. Base \in Nat \ {0} /\ Base >= 4
  BY BufferAssumption
<1>2. h = <<n % Base, n2 % Base, n3 % Base, n4 % Base>>
  BY DEF Header
<1>3. n2 \in Nat /\ n3 \in Nat /\ n4 \in Nat /\ n5 \in Nat
  <2>1. n2 \in Nat
    BY <1>1, DivNotNegative
  <2> HIDE DEF n2
  <2>2. n3 \in Nat
    BY <1>1, <2>1, DivNotNegative
  <2> HIDE DEF n3
  <2>3. n4 \in Nat
    BY <1>1, <2>2, DivNotNegative
  <2> HIDE DEF n4
  <2> QED BY <1>1, <2>1, <2>2, <2>3, DivNotNegative
<1>4. n = Base * n2 + (n % Base) /\ n % Base \in Byte
  BY <1>1, DivMod DEF Byte
<1> HIDE DEF h, n2
<1>5. n2 = Base * n3 + (n2 % Base) /\ n2 % Base \in Byte
  BY <1>1, <1>3, DivMod DEF Byte
<1> HIDE DEF n3
<1>6. n3 = Base * n4 + (n3 % Base) /\ n3 % Base \in Byte
  BY <1>1, <1>3, DivMod DEF Byte
<1> HIDE DEF n4
<1>7. n4 = Base * n5 + (n4 % Base) /\ n4 % Base \in Byte
  BY <1>1, <1>3, DivMod DEF Byte
<1> HIDE DEF n5
<1>8. n < Words
  BY WordsType DEF HeaderSize
<1>9. n4 < Base
  <2> DEFINE b2 == Base * Base
             b3 == Base * b2
  <2>1. Words = Base * b3 /\ b2 \in Nat /\ b3 \in Nat
    BY <1>1 DEF Words
  <2> HIDE DEF b3
  <2>2. n2 < b3
    BY <1>1, <1>3, <1>4, <1>8, <2>1, DivLess DEF Byte
  <2> USE DEF b3
  <2> HIDE DEF b2
  <2>3. n3 < b2
    BY <1>1, <1>3, <1>5, <2>1, <2>2, DivLess DEF Byte
  <2> USE DEF b2
  <2> QED BY <1>1, <1>3, <1>6, <2>3, DivLess DEF Byte
<1>10. n4 % Base = n4
  BY <1>1, <1>3, <1>9, Remainder
<1>11. h[1] = n % Base /\ h[2] = n2 % Base /\ h[3] = n3 % Base /\ h[4] = n4
  BY <1>2, <1>10
<1>12. Value(h) = n
  <2>1. h[1] \in Nat /\ h[2] \in Nat /\ h[3] \in Nat /\ h[4] \in Nat
    BY <1>1, <1>3, <1>4, <1>5, <1>6, <1>11 DEF Byte
  <2>2. h[3] + Base * h[4] = n3
    BY <1>1, <1>3, <1>6, <1>11, <2>1
  <2>3. h[2] + Base * n3 = n2
    BY <1>1, <1>3, <1>5, <1>11, <2>1
  <2>4. h[1] + Base * n2 = n
    BY <1>1, <1>3, <1>4, <1>11, <2>1
  <2> QED BY <2>2, <2>3, <2>4 DEF Value
<1>13. h \in Seq(Byte) /\ Len(h) = HeaderSize
  BY <1>2, <1>4, <1>5, <1>6, <1>7 DEF HeaderSize
<1>14. Length(h) = Signed(n)
  BY <1>4, <1>5, <1>6, <1>7, <1>10, <1>11, <1>12, ValueType
<1>15. n \in 0..(Words - 1) /\ n < Words \div 2
  BY <1>8, WordsType DEF HeaderSize
<1>16. Length(h) = n /\ Framed(Length(h)) = n + HeaderSize
  BY <1>14, <1>15, SignedIs, FramedIs
<1> QED
  BY <1>13, <1>16 DEF h

(* Three bytes and the zero behind them are no header of a message.        *)
LEMMA NoHeaderYet ==
    ASSUME NEW buf \in Seq(Byte), buf # <<>>, Len(buf) < HeaderSize, NEW h \in HeaderBytes(buf)
    PROVE  Framed(Length(h)) \notin 0..Len(buf)
<1> DEFINE n == Len(buf)
<1>1. n \in Nat /\ n # 0 /\ n < 4
  BY DEF HeaderSize
<1>2. h[n + 1] = 0 /\ h[1] \in Byte /\ h[2] \in Byte /\ h[3] \in Byte /\ h[4] \in Byte
  BY <1>1 DEF HeaderBytes, HeaderSize
<1> HIDE DEF n
<1>3. n + 1 \in {2, 3, 4} /\ \A x \in 0..n : x \in 0..3
  BY <1>1
<1>4. Value(h) \in 0..(Words - 1) /\ Length(h) = Signed(Value(h)) /\ Value(h) < Words - 4
  BY <1>2, <1>3, ValueType
<1>5. Framed(Length(h)) \notin 0..n
  BY <1>3, <1>4, FramedIs
<1> QED
  BY <1>5 DEF n

-----------------------------------------------------------------------------
(* Messages, their frames, and what pickmessage() does with them.          *)

LEMMA Beginning ==
    ASSUME NEW S, NEW s \in Seq(S), NEW t \in Seq(S)
    PROVE  IsPrefix(s, t) <=> Len(s) <= Len(t) /\ \A i \in 1..Len(s) : s[i] = t[i]
<1>1. SubSeq(s, 1, Len(s)) = s
  OBVIOUS
<1>2. ASSUME Len(s) <= Len(t)
      PROVE  /\ SubSeq(t, 1, Len(s)) \in Seq(S) /\ Len(SubSeq(t, 1, Len(s))) = Len(s)
             /\ \A i \in 1..Len(s) : SubSeq(t, 1, Len(s))[i] = t[i]
  BY <1>2
<1>3. ASSUME Len(s) <= Len(t)
      PROVE  s = SubSeq(t, 1, Len(s)) <=> \A i \in 1..Len(s) : s[i] = t[i]
  <2> DEFINE u == SubSeq(t, 1, Len(s))
  <2>1. u \in Seq(S) /\ Len(u) = Len(s) /\ \A i \in 1..Len(s) : u[i] = t[i]
    BY <1>2, <1>3
  <2> HIDE DEF u
  <2>2. s = u <=> \A i \in 1..Len(s) : s[i] = t[i]
    BY <2>1, SameElements
  <2> QED BY <2>2 DEF u
<1> QED
  BY <1>1, <1>3 DEF IsPrefix

LEMMA LeftCancel ==
    ASSUME NEW S, NEW a \in Seq(S), NEW b \in Seq(S), NEW c \in Seq(S), a \o b = a \o c
    PROVE  b = c
<1>1. Len(a) \in Nat /\ Len(b) \in Nat /\ Len(c) \in Nat /\ Len(a) + Len(b) = Len(a) + Len(c)
  BY Joined
<1>2. Len(b) = Len(c)
  BY <1>1
<1>3. ASSUME NEW i \in 1..Len(b) PROVE b[i] = c[i]
  <2>1. (a \o b)[Len(a) + i] = b[i]
    OBVIOUS
  <2>2. (a \o c)[Len(a) + i] = c[i]
    BY <1>2
  <2> QED BY <2>1, <2>2
<1> QED
  BY <1>2, <1>3, SameElements

LEMMA FrameIs ==
    ASSUME NEW m \in Messages
    PROVE  /\ m \in Seq(Byte) /\ Len(m) \in Nat /\ Len(m) + HeaderSize < Words \div 2
           /\ Header(Len(m)) \in Seq(Byte) /\ Len(Header(Len(m))) = HeaderSize
           /\ Length(Header(Len(m))) = Len(m) /\ Framed(Len(m)) = HeaderSize + Len(m)
           /\ Frame(m) = Header(Len(m)) \o m
           /\ Frame(m) \in Seq(Byte) /\ Len(Frame(m)) = HeaderSize + Len(m)
<1> DEFINE n == Len(m)
           h == Header(n)
<1>1. m \in Seq(Byte) /\ n \in Nat /\ HeaderSize + n < Words \div 2 /\ HeaderSize \in Nat
  BY FramingAssumption DEF HeaderSize
<1> HIDE DEF n
<1>2. n + HeaderSize < Words \div 2
  BY <1>1, WordsType
<1>3. h \in Seq(Byte) /\ Len(h) = HeaderSize /\ Length(h) = n /\ Framed(n) = n + HeaderSize
  BY <1>1, <1>2, HeaderSays
<1> HIDE DEF h
<1>4. <<>> \o h = h
  BY <1>3
<1>5. Frame(m) = (<<>> \o h) \o m
  BY DEF Frame, AppendWithSep, AppendBytes, h, n
<1>6. h \o m \in Seq(Byte) /\ Len(h \o m) = HeaderSize + Len(m)
  BY <1>1, <1>3, Joined
<1> QED
  BY <1>1, <1>2, <1>3, <1>4, <1>5, <1>6 DEF h, n

(* The messages in front of a sequence and the last of them.               *)
LEMMA LastOfPrefix ==
    ASSUME NEW S, NEW s \in Seq(S), NEW k \in 1..Len(s)
    PROVE  /\ SubSeq(s, 1, k - 1) \in Seq(S) /\ s[k] \in S
           /\ SubSeq(s, 1, k) = Append(SubSeq(s, 1, k - 1), s[k])
<1> DEFINE r == SubSeq(s, 1, k - 1)
           t == SubSeq(s, 1, k)
           u == Append(r, s[k])
<1>1. k \in Nat /\ k - 1 \in Nat /\ k <= Len(s) /\ k - 1 <= Len(s) /\ (k - 1) + 1 = k /\ s[k] \in S
  OBVIOUS
<1>2. r \in Seq(S) /\ Len(r) = k - 1 /\ \A i \in 1..(k - 1) : r[i] = s[i]
  BY <1>1
<1>3. t \in Seq(S) /\ Len(t) = k /\ \A i \in 1..k : t[i] = s[i]
  BY <1>1
<1> HIDE DEF r, t
<1>4. u \in Seq(S) /\ Len(u) = k /\ u[k] = s[k] /\ \A i \in 1..(k - 1) : u[i] = r[i]
  BY <1>1, <1>2
<1> HIDE DEF u
<1>5. \A i \in 1..k : i = k \/ i \in 1..(k - 1)
  BY <1>1
<1>6. t = u
  BY <1>2, <1>3, <1>4, <1>5, SameElements
<1> QED
  BY <1>1, <1>2, <1>6 DEF r, t, u

EachFramed(s) == [i \in DOMAIN s |-> Frame(s[i])]

LEMMA FramesType ==
    ASSUME NEW s \in Seq(Messages)
    PROVE  /\ EachFramed(s) \in Seq(Seq(Byte)) /\ Len(EachFramed(s)) = Len(s)
           /\ \A i \in 1..Len(s) : EachFramed(s)[i] = Frame(s[i])
           /\ Frames(s) = FlattenSeq(EachFramed(s)) /\ Frames(s) \in Seq(Byte)
<1> DEFINE f == EachFramed(s)
<1>1. \A i \in 1..Len(s) : Frame(s[i]) \in Seq(Byte)
  BY FrameIs
<1>2. f = [i \in 1..Len(s) |-> Frame(s[i])]
  BY DEF EachFramed
<1> HIDE DEF f
<1>3. f \in Seq(Seq(Byte)) /\ Len(f) = Len(s) /\ \A i \in 1..Len(s) : f[i] = Frame(s[i])
  BY <1>1, <1>2
<1>4. FlattenSeq(f) \in Seq(Byte)
  BY <1>3, FlattenType
<1>5. Frames(s) = FlattenSeq(f)
  BY DEF Frames, f, EachFramed
<1> QED
  BY <1>3, <1>4, <1>5 DEF f

LEMMA FramesAppend ==
    ASSUME NEW s \in Seq(Messages), NEW m \in Messages
    PROVE  Frames(Append(s, m)) = Frames(s) \o Frame(m)
<1> DEFINE a == Append(s, m)
           f == EachFramed(s)
           g == EachFramed(a)
           e == Append(f, Frame(m))
<1>1. a \in Seq(Messages) /\ Len(a) = Len(s) + 1 /\ Len(s) \in Nat
  OBVIOUS
<1>2. a[Len(s) + 1] = m /\ \A i \in 1..Len(s) : a[i] = s[i]
  OBVIOUS
<1>3. f \in Seq(Seq(Byte)) /\ Len(f) = Len(s) /\ \A i \in 1..Len(s) : f[i] = Frame(s[i])
  BY FramesType
<1>4. Frame(m) \in Seq(Byte)
  BY FrameIs
<1> HIDE DEF f, a
<1>5. g \in Seq(Seq(Byte)) /\ Len(g) = Len(s) + 1 /\ \A i \in 1..(Len(s) + 1) : g[i] = Frame(a[i])
  BY <1>1, FramesType
<1> HIDE DEF g
<1>6. /\ e \in Seq(Seq(Byte)) /\ Len(e) = Len(s) + 1
      /\ e[Len(s) + 1] = Frame(m) /\ \A i \in 1..Len(s) : e[i] = f[i]
  BY <1>3, <1>4
<1> HIDE DEF e
<1>7. \A i \in 1..(Len(s) + 1) : i \in 1..Len(s) \/ i = Len(s) + 1
  BY <1>1
<1>8. \A i \in 1..(Len(s) + 1) : g[i] = e[i]
  BY <1>2, <1>3, <1>5, <1>6, <1>7
<1>9. g = e
  BY <1>5, <1>6, <1>8, SameElements
<1>10. FlattenSeq(e) = FlattenSeq(f) \o Frame(m)
  BY <1>3, <1>4, FlattenAppend DEF e
<1> QED
  BY <1>1, <1>9, <1>10, FramesType DEF f, g, a

(* The frames of all messages begin with those of the first ones.          *)
LEMMA FramesSplit ==
    ASSUME NEW s \in Seq(Messages), NEW k \in 0..Len(s)
    PROVE  \E x \in Seq(Byte) : Frames(s) = Frames(SubSeq(s, 1, k)) \o x
<1> DEFINE n == Len(s)
           P == {d \in Nat : d <= n => \E x \in Seq(Byte) : Frames(s) = Frames(SubSeq(s, 1, n - d)) \o x}
<1>1. n \in Nat
  OBVIOUS
<1>2. 0 \in P
  <2>1. n - 0 = n /\ SubSeq(s, 1, n) = s /\ <<>> \in Seq(Byte)
    OBVIOUS
  <2>2. Frames(s) = Frames(s) \o <<>>
    BY FramesType
  <2> QED BY <2>1, <2>2
<1>3. ASSUME NEW d \in Nat, d \in P PROVE d + 1 \in P
  <2> SUFFICES ASSUME d + 1 <= n
               PROVE  \E x \in Seq(Byte) : Frames(s) = Frames(SubSeq(s, 1, n - (d + 1))) \o x
    OBVIOUS
  <2> DEFINE j == n - d
             r == SubSeq(s, 1, j - 1)
  <2>1. d <= n /\ j \in 1..Len(s) /\ n - (d + 1) = j - 1
    BY <1>1
  <2>2. PICK x \in Seq(Byte) : Frames(s) = Frames(SubSeq(s, 1, j)) \o x
    BY <1>3, <2>1
  <2> HIDE DEF n, j
  <2>3. r \in Seq(Messages) /\ s[j] \in Messages /\ SubSeq(s, 1, j) = Append(r, s[j])
    BY <2>1, LastOfPrefix
  <2> HIDE DEF r
  <2>4. Frames(s) = (Frames(r) \o Frame(s[j])) \o x /\ Frames(r) \in Seq(Byte) /\ Frame(s[j]) \in Seq(Byte)
    BY <2>2, <2>3, FramesAppend, FramesType, FrameIs
  <2>5. Frame(s[j]) \o x \in Seq(Byte) /\ Frames(s) = Frames(r) \o (Frame(s[j]) \o x)
    BY <2>4, Joined, ConcatAssociative
  <2> QED BY <2>1, <2>5 DEF r
<1> HIDE DEF P
<1>4. n - k \in Nat /\ n - (n - k) = k /\ n - k <= n
  BY <1>1
<1>5. n - k \in P
  BY <1>2, <1>3, <1>4, Induction
<1> QED
  BY <1>4, <1>5 DEF P

-----------------------------------------------------------------------------
(* pickmessage().                                                          *)

(* Without a separator the message is what there is.                       *)
LEMMA PickAll ==
    ASSUME NEW buf \in Seq(Byte), NEW h
    PROVE  LET p == PickMessage(buf, 0, h)
           IN  /\ p.ok => p.ss = buf /\ p.buf = <<>>
               /\ ~p.ok => buf = <<>> /\ p.buf = <<>>
               /\ p.ok \in BOOLEAN
<1>1. CASE buf = <<>>
  BY <1>1 DEF PickMessage, PickBy, NotYet
<1>2. CASE buf # <<>>
  <2>1. PickMessage(buf, 0, h) = [ok |-> TRUE, ss |-> buf, buf |-> <<>>]
    BY <1>2 DEF PickMessage, PickBy
  <2>2. PickMessage(buf, 0, h).ss = buf /\ PickMessage(buf, 0, h).buf = <<>>
    BY <2>1
  <2>3. PickMessage(buf, 0, h).ok = TRUE
    BY <2>1
  <2> QED BY <2>2, <2>3
<1> QED
  BY <1>1, <1>2

(* With a header it depends on the length the header says.                 *)
LEMMA PickByHeader ==
    ASSUME NEW buf \in Seq(Byte), NEW h
    PROVE  LET p == PickMessage(buf, 1, h)
               need == Framed(Length(h))
               len == Length(h)
               end == IF len < 0 THEN Len(buf) ELSE Min({HeaderSize + len, Len(buf)})
           IN  /\ p.ok <=> buf # <<>> /\ need \in 0..Len(buf)
               /\ ~p.ok => p.buf = buf
               /\ p.ok => p.ss = SubSeq(buf, HeaderSize + 1, end) /\ p.buf = SubSeq(buf, need + 1, Len(buf))
<1> DEFINE need == Framed(Length(h))
           len == Length(h)
           end == IF len < 0 THEN Len(buf) ELSE Min({HeaderSize + len, Len(buf)})
<1>1. CASE buf = <<>>
  BY <1>1 DEF PickMessage, PickBy, NotYet
<1>2. CASE buf # <<>> /\ need \notin 0..Len(buf)
  BY <1>2 DEF PickMessage, PickBy, NotYet
<1>3. CASE buf # <<>> /\ need \in 0..Len(buf)
  <2>1. PickMessage(buf, 1, h)
            = [ok |-> TRUE, ss |-> SubSeq(buf, HeaderSize + 1, end), buf |-> SubSeq(buf, need + 1, Len(buf))]
    BY <1>3 DEF PickMessage, PickBy, Erase
  <2> HIDE DEF end, need
  <2>2. /\ PickMessage(buf, 1, h).ok /\ PickMessage(buf, 1, h).ss = SubSeq(buf, HeaderSize + 1, end)
        /\ PickMessage(buf, 1, h).buf = SubSeq(buf, need + 1, Len(buf))
    BY <2>1
  <2> QED BY <1>3, <2>2 DEF end, need
<1> QED
  BY <1>1, <1>2, <1>3

(* The header of a buffer that begins like a frame is the frame's.         *)
LEMMA HeaderRead ==
    ASSUME NEW buf \in Seq(Byte), NEW h \in HeaderBytes(buf), NEW m \in Messages,
           Len(buf) >= HeaderSize, \A i \in 1..HeaderSize : buf[i] = Frame(m)[i]
    PROVE  Length(h) = Len(m) /\ Framed(Length(h)) = HeaderSize + Len(m)
<1> DEFINE g == Header(Len(m))
<1>1. g \in Seq(Byte) /\ Len(g) = 4 /\ m \in Seq(Byte) /\ Frame(m) = g \o m
  BY FrameIs DEF HeaderSize
<1>2. Length(g) = Len(m) /\ Framed(Len(m)) = HeaderSize + Len(m)
  BY FrameIs
<1> HIDE DEF g
<1>3. ASSUME NEW i \in {1, 2, 3, 4} PROVE Frame(m)[i] = g[i]
  <2>1. g \in Seq(Byte) /\ m \in Seq(Byte) /\ i \in 1..Len(g)
    BY <1>1
  <2>2. \A j \in 1..Len(g) : (g \o m)[j] = g[j]
    BY <2>1, PartsOfJoined
  <2> QED BY <1>1, <2>1, <2>2
<1>4. ASSUME NEW i \in {1, 2, 3, 4} PROVE h[i] = buf[i]
  <2>1. i \in 1..HeaderSize /\ i <= Len(buf) + 1 /\ i \in 1..Len(buf)
    BY DEF HeaderSize
  <2>2. h[i] = Append(buf, 0)[i]
    BY <2>1 DEF HeaderBytes
  <2>3. Append(buf, 0)[i] = buf[i]
    BY <2>1
  <2> QED BY <2>2, <2>3
<1>5. buf[1] = g[1] /\ buf[2] = g[2] /\ buf[3] = g[3] /\ buf[4] = g[4]
  BY <1>3 DEF HeaderSize
<1>6. h[1] = g[1] /\ h[2] = g[2] /\ h[3] = g[3] /\ h[4] = g[4]
  BY <1>4, <1>5
<1>7. Length(h) = Length(g)
  BY <1>6 DEF Length
<1> QED
  BY <1>2, <1>7

PickFramed(buf, h) == PickMessage(buf, 1, h)

(* As far as both go, a and b are the same.                                *)
Agrees(a, b) == \A i \in 1..Len(a) : i \in 1..Len(b) => a[i] = b[i]

(* What begins one sequence agrees with whatever else begins it.           *)
LEMMA Beginnings ==
    ASSUME NEW S, NEW a \in Seq(S), NEW x \in Seq(S), NEW b \in Seq(S), NEW y \in Seq(S), a \o x = b \o y
    PROVE  Agrees(a, b)
<1> DEFINE t == a \o x
<1>1. t = b \o y
  OBVIOUS
<1>2. \A i \in 1..Len(a) : t[i] = a[i]
  BY PartsOfJoined
<1> HIDE DEF t
<1>3. \A i \in 1..Len(b) : t[i] = b[i]
  BY <1>1, PartsOfJoined
<1> QED
  BY <1>2, <1>3 DEF Agrees

(* If the stream goes on with a message and pickmessage() picks one, it is *)
(* that message, and the frame is what it takes: it is never misled by a   *)
(* header that has come in part, whatever bytes lie behind the buffer.     *)
THEOREM PickFirst ==
    ASSUME NEW buf \in Seq(Byte), NEW h \in HeaderBytes(buf), NEW m \in Messages,
           Agrees(buf, Frame(m)), PickFramed(buf, h).ok
    PROVE  /\ PickFramed(buf, h).ss = m
           /\ PickFramed(buf, h).buf \in Seq(Byte)
           /\ buf = Frame(m) \o PickFramed(buf, h).buf
<1> DEFINE p == PickMessage(buf, 1, h)
           F == Frame(m)
           g == Header(Len(m))
           n == Len(m)
           need == Framed(Length(h))
<1>1. buf # <<>> /\ need \in 0..Len(buf)
  <2>1. p.ok
    BY DEF PickFramed
  <2>2. p.ok <=> buf # <<>> /\ need \in 0..Len(buf)
    BY PickByHeader
  <2> HIDE DEF p, need
  <2> QED BY <2>1, <2>2
<1>2. Len(buf) >= HeaderSize
  <2>1. ~(Len(buf) < HeaderSize)
    BY <1>1, NoHeaderYet
  <2> QED BY <2>1 DEF HeaderSize
<1>3. /\ m \in Seq(Byte) /\ n \in Nat /\ g \in Seq(Byte) /\ Len(g) = 4
      /\ F = g \o m /\ F \in Seq(Byte) /\ Len(F) = 4 + n
  BY FrameIs DEF HeaderSize
<1> HIDE DEF F, g
<1>4. \A i \in 1..Len(buf) : i \in 1..Len(F) => buf[i] = F[i]
  BY DEF Agrees, F
<1>5. \A i \in 1..HeaderSize : buf[i] = F[i]
  BY <1>2, <1>3, <1>4 DEF HeaderSize
<1>6. Length(h) = n /\ need = 4 + n
  BY <1>2, <1>5, HeaderRead DEF F, HeaderSize
<1>7. 4 + n <= Len(buf) /\ Len(buf) \in Nat /\ 4 + n \in 0..Len(buf) /\ ~(n < 0)
  BY <1>1, <1>3, <1>6
<1>8. p.ss = SubSeq(buf, 5, Min({4 + n, Len(buf)})) /\ p.buf = SubSeq(buf, 4 + n + 1, Len(buf))
  <2>1. /\ p.ss = SubSeq(buf, HeaderSize + 1, IF n < 0 THEN Len(buf) ELSE Min({HeaderSize + n, Len(buf)}))
        /\ p.buf = SubSeq(buf, need + 1, Len(buf))
    <3>1. /\ p.ss = SubSeq(buf, HeaderSize + 1,
                            IF Length(h) < 0 THEN Len(buf) ELSE Min({HeaderSize + Length(h), Len(buf)}))
          /\ p.buf = SubSeq(buf, need + 1, Len(buf))
      <4>1. p.ok
        BY DEF PickFramed
      <4> QED BY <4>1, PickByHeader
    <3> HIDE DEF p, need, n
    <3> QED BY <1>6, <3>1
  <2> HIDE DEF p, need, n
  <2>2. HeaderSize + 1 = 5 /\ HeaderSize + n = 4 + n /\ need + 1 = 4 + n + 1
    BY <1>6 DEF HeaderSize
  <2> QED BY <1>7, <2>1, <2>2
<1> DEFINE y == p.buf
           s == p.ss
           a == SubSeq(buf, 1, 4 + n)
<1> HIDE DEF p, need, n
<1>9. Min({4 + n, Len(buf)}) = 4 + n
  <2>1. Min({4 + n, Len(buf)}) \in {4 + n, Len(buf)} /\ Min({4 + n, Len(buf)}) <= 4 + n
    <3>1. 4 + n \in Int /\ Len(buf) \in Int
      BY <1>3
    <3> QED BY <3>1, MinOfTwo
  <2> QED BY <1>7, <2>1
<1>10. s = SubSeq(buf, 5, 4 + n)
  BY <1>8, <1>9
<1>11. /\ a \in Seq(Byte) /\ y \in Seq(Byte) /\ Len(a) = 4 + n /\ buf = a \o y
  <2> DEFINE k == 4 + n
  <2>1. k \in 0..Len(buf) /\ y = SubSeq(buf, k + 1, Len(buf)) /\ a = SubSeq(buf, 1, k)
    BY <1>7, <1>8
  <2> HIDE DEF k, y, a
  <2>2. a \in Seq(Byte) /\ y \in Seq(Byte) /\ Len(a) = k /\ buf = a \o y
    BY <2>1, Cut
  <2> QED BY <2>2 DEF k
<1>12. a = F
  <2>1. \A i \in 1..(4 + n) : a[i] = buf[i] /\ buf[i] = F[i]
    BY <1>3, <1>4, <1>7
  <2> HIDE DEF a
  <2>2. a \in Seq(Byte) /\ F \in Seq(Byte) /\ Len(a) = Len(F)
    BY <1>3, <1>11
  <2>3. \A i \in 1..Len(a) : a[i] = F[i]
    BY <1>11, <2>1
  <2> QED BY <2>2, <2>3, SameElements
<1>13. s = m
  <2>1. s \in Seq(Byte) /\ Len(s) = n /\ \A i \in 1..n : s[i] = buf[4 + i]
    BY <1>3, <1>7, <1>10
  <2> HIDE DEF s
  <2>2. ASSUME NEW i \in 1..n PROVE s[i] = m[i]
    <3>1. 4 + i \in 1..(4 + n) /\ 4 + i \in 1..Len(buf)
      BY <1>3, <1>7
    <3>2. buf[4 + i] = F[4 + i]
      BY <1>3, <1>4, <3>1
    <3>3. F[4 + i] = m[i]
      BY <1>3 DEF n
    <3> QED BY <2>1, <3>2, <3>3
  <2> QED BY <1>3, <2>1, <2>2, SameElements DEF n
<1> QED
  BY <1>11, <1>12, <1>13 DEF y, s, p, F, PickFramed

(* pickmessage() does not leave a whole message behind.                    *)
LEMMA PickLeavesPart ==
    ASSUME NEW buf \in Seq(Byte), NEW h \in HeaderBytes(buf), ~PickMessage(buf, 1, h).ok, NEW m \in Messages
    PROVE  ~IsPrefix(Frame(m), buf)
<1> SUFFICES ASSUME IsPrefix(Frame(m), buf) PROVE FALSE
  OBVIOUS
<1>1. Frame(m) \in Seq(Byte) /\ Len(Frame(m)) = 4 + Len(m) /\ Len(m) \in Nat
  BY FrameIs DEF HeaderSize
<1>2. 4 + Len(m) <= Len(buf) /\ \A i \in 1..(4 + Len(m)) : Frame(m)[i] = buf[i]
  BY <1>1, Beginning
<1>3. \A i \in 1..HeaderSize : buf[i] = Frame(m)[i]
  BY <1>1, <1>2 DEF HeaderSize
<1>4. Len(buf) >= HeaderSize
  BY <1>1, <1>2 DEF HeaderSize
<1>5. Framed(Length(h)) = 4 + Len(m)
  BY <1>3, <1>4, HeaderRead DEF HeaderSize
<1>6. buf # <<>> /\ Framed(Length(h)) \in 0..Len(buf)
  <2>1. Len(buf) # 0
    BY <1>1, <1>2
  <2> QED BY <1>1, <1>2, <1>5, <2>1
<1> QED
  BY <1>6, PickByHeader

-----------------------------------------------------------------------------
(* The invariant.                                                          *)

HandedBytes == FlattenSeq([i \in DOMAIN picked |-> Handed(picked[i])])

LEMMA FlattenNone == FlattenSeq(<<>>) = <<>>
BY DEF FlattenSeq

LEMMA FlattenOne ==
    ASSUME NEW S, NEW e \in Seq(S)
    PROVE  FlattenSeq(<<e>>) = e
<1>1. <<>> \in Seq(Seq(S)) /\ Append(<<>>, e) = <<e>> /\ <<>> \o e = e
  OBVIOUS
<1>2. FlattenSeq(Append(<<>>, e)) = FlattenSeq(<<>>) \o e
  BY <1>1, FlattenAppend
<1> QED
  BY <1>1, <1>2, FlattenNone

LEMMA PickedIs ==
    ASSUME NEW s \in Seq(Messages), NEW r \in Seq(Seq(Byte)), IsPrefix(r, s)
    PROVE  Len(r) \in 0..Len(s) /\ r = SubSeq(s, 1, Len(r)) /\ r \in Seq(Messages)
<1> DEFINE k == Len(r)
<1>1. k \in Nat /\ k <= Len(s) /\ SubSeq(r, 1, k) = SubSeq(s, 1, k)
  BY DEF IsPrefix
<1>2. SubSeq(r, 1, k) = r
  OBVIOUS
<1> HIDE DEF k
<1>3. k \in 0..Len(s)
  BY <1>1
<1>4. SubSeq(s, 1, k) \in Seq(Messages)
  BY <1>3, Cut
<1> QED
  BY <1>1, <1>2, <1>3, <1>4 DEF k

LEMMA HandedIs ==
    TypeOK /\ (sep = 1 => IsPrefix(picked, sent)) =>
        /\ sep = 1 => picked \in Seq(Messages) /\ HandedBytes = Frames(picked)
        /\ sep = 0 => HandedBytes = FlattenSeq(picked)
        /\ HandedBytes \in Seq(Byte)
<1> SUFFICES ASSUME TypeOK, sep = 1 => IsPrefix(picked, sent)
             PROVE  /\ sep = 1 => picked \in Seq(Messages) /\ HandedBytes = Frames(picked)
                    /\ sep = 0 => HandedBytes = FlattenSeq(picked)
                    /\ HandedBytes \in Seq(Byte)
  OBVIOUS
<1>1. sep \in {0, 1} /\ picked \in Seq(Seq(Byte)) /\ sent \in Seq(Messages)
  BY DEF TypeOK
<1>2. CASE sep = 1
  <2>1. picked \in Seq(Messages)
    BY <1>1, <1>2, PickedIs
  <2>2. HandedBytes = Frames(picked)
    BY <1>2 DEF HandedBytes, Frames, Handed
  <2> QED BY <1>2, <2>1, <2>2, FramesType
<1>3. CASE sep = 0
  <2>1. [i \in DOMAIN picked |-> Handed(picked[i])] = picked
    BY <1>1, <1>3 DEF Handed
  <2>2. HandedBytes = FlattenSeq(picked)
    BY <2>1 DEF HandedBytes
  <2> QED BY <1>1, <1>3, <2>2, FlattenType
<1> QED
  BY <1>1, <1>2, <1>3

LEMMA HandedWillBe ==
    (TypeOK /\ (sep = 1 => IsPrefix(picked, sent)) =>
        /\ sep = 1 => picked \in Seq(Messages) /\ HandedBytes = Frames(picked)
        /\ sep = 0 => HandedBytes = FlattenSeq(picked)
        /\ HandedBytes \in Seq(Byte))'
BY HandedIs, PTL

(* IInv, with the bytes handed over under a name.                          *)
LEMMA Kept == BytesKept <=> (HandedBytes \o inputbuffer) \o net = Frames(sent)
BY DEF BytesKept, HandedBytes

LEMMA KeptNext == (BytesKept <=> (HandedBytes \o inputbuffer) \o net = Frames(sent))'
BY Kept, PTL

LEMMA InitIInv == Init => IInv
<1> SUFFICES ASSUME Init PROVE IInv
  OBVIOUS
<1>1. sep \in {0, 1} /\ sent = <<>> /\ net = <<>> /\ pc = "poll" /\ inputbuffer = <<>> /\ picked = <<>>
  BY DEF Init
<1>2. ASSUME NEW m \in Messages PROVE ~IsPrefix(Frame(m), <<>>)
  <2>1. Frame(m) \in Seq(Byte) /\ Len(Frame(m)) > 0
    BY FrameIs DEF HeaderSize
  <2> QED BY <2>1 DEF IsPrefix
<1>3. Whole = {}
  BY <1>1, <1>2 DEF Whole
<1>4. TypeOK
  BY <1>1, <1>3 DEF TypeOK
<1>5. IsPrefix(picked, sent)
  BY <1>1 DEF IsPrefix
<1>6. HandedBytes = <<>> /\ Frames(sent) = <<>>
  <2>1. [i \in DOMAIN picked |-> Handed(picked[i])] = <<>>
    BY <1>1
  <2>2. [i \in DOMAIN sent |-> Frame(sent[i])] = <<>>
    BY <1>1
  <2> QED BY <2>1, <2>2, FlattenNone DEF HandedBytes, Frames
<1>7. (HandedBytes \o inputbuffer) \o net = Frames(sent)
  BY <1>1, <1>6
<1> QED
  BY <1>4, <1>5, <1>7, Kept DEF IInv

LEMMA SendKeeps == ASSUME IInv, NEW m \in Messages, ClientSend(m) PROVE IInv'
<1> DEFINE F == HandedBytes
<1>1. /\ sent' = Append(sent, m) /\ net' = net \o Frame(m)
      /\ UNCHANGED <<sep, pc, inputbuffer, picked>>
  BY DEF ClientSend
<1>2. TypeOK /\ (sep = 1 => IsPrefix(picked, sent)) /\ (F \o inputbuffer) \o net = Frames(sent)
  BY Kept DEF IInv
<1>3. /\ sep \in {0, 1} /\ sent \in Seq(Messages) /\ net \in Seq(Byte) /\ inputbuffer \in Seq(Byte)
      /\ picked \in Seq(Seq(Byte)) /\ F \in Seq(Byte)
  BY <1>2, HandedIs DEF TypeOK
<1>4. Frame(m) \in Seq(Byte) /\ sent' \in Seq(Messages) /\ net' \in Seq(Byte)
  BY <1>1, <1>3, FrameIs, Added, Joined
<1>5. TypeOK'
  BY <1>1, <1>2, <1>4 DEF TypeOK, Whole
<1>6. F' = F
  BY <1>1 DEF HandedBytes, Handed
<1> HIDE DEF F
<1>7. (F' \o inputbuffer') \o net' = Frames(sent')
  <2> DEFINE b == F \o inputbuffer
             c == Frame(m)
  <2>1. b \in Seq(Byte) /\ c \in Seq(Byte) /\ net \in Seq(Byte)
    BY <1>3, <1>4, Joined
  <2>2. b \o net = Frames(sent)
    BY <1>2
  <2>3. Frames(Append(sent, m)) = Frames(sent) \o c
    BY <1>3, FramesAppend
  <2> HIDE DEF b, c
  <2>4. b \o (net \o c) = (b \o net) \o c
    <3> DEFINE d == net
    <3>1. b \in Seq(Byte) /\ c \in Seq(Byte) /\ d \in Seq(Byte)
      BY <2>1
    <3> HIDE DEF d
    <3>2. (b \o d) \o c = b \o (d \o c)
      BY <3>1, ConcatAssociative, SMTT(30)
    <3> QED BY <3>2 DEF d
  <2>5. b \o (net \o c) = Frames(Append(sent, m))
    BY <2>2, <2>3, <2>4
  <2> QED BY <1>1, <1>6, <2>5 DEF b, c
<1>8. sep = 1 => IsPrefix(picked, Append(sent, m))
  <2> SUFFICES ASSUME sep = 1 PROVE IsPrefix(picked, Append(sent, m))
    OBVIOUS
  <2> DEFINE t == Append(sent, m)
  <2>1. picked \in Seq(Messages)
    BY <1>2, HandedIs
  <2>2. Len(picked) <= Len(sent) /\ \A i \in 1..Len(picked) : picked[i] = sent[i]
    BY <1>2, <1>3, <2>1, Beginning
  <2>3. t \in Seq(Messages) /\ Len(t) = Len(sent) + 1 /\ \A i \in 1..Len(sent) : t[i] = sent[i]
    BY <1>3
  <2>4. Len(sent) \in Nat /\ Len(picked) \in Nat
    BY <1>3, <2>1
  <2> HIDE DEF t
  <2>5. Len(picked) <= Len(t) /\ \A i \in 1..Len(picked) : picked[i] = t[i]
    BY <2>2, <2>3, <2>4
  <2>6. IsPrefix(picked, t)
    BY <2>1, <2>3, <2>5, Beginning
  <2> QED BY <2>6 DEF t
<1> QED
  BY <1>1, <1>5, <1>7, <1>8, KeptNext DEF IInv, F

LEMMA ReadKeeps == ASSUME IInv, Read PROVE IInv'
<1> DEFINE F == HandedBytes
<1>1. PICK n \in 1..Len(net) :
        inputbuffer' = inputbuffer \o SubSeq(net, 1, n) /\ net' = SubSeq(net, n + 1, Len(net))
  BY DEF Read, AppendBytes, Erase
<1>2. pc' = "read" /\ UNCHANGED <<sep, sent, picked>>
  BY DEF Read
<1>3. TypeOK /\ (sep = 1 => IsPrefix(picked, sent)) /\ (F \o inputbuffer) \o net = Frames(sent)
  BY Kept DEF IInv
<1>4. net \in Seq(Byte) /\ inputbuffer \in Seq(Byte) /\ F \in Seq(Byte) /\ n \in 0..Len(net)
  BY <1>3, HandedIs DEF TypeOK
<1> DEFINE a == SubSeq(net, 1, n)
<1>5. a \in Seq(Byte) /\ net' \in Seq(Byte) /\ net = a \o net'
  BY <1>1, <1>4, Cut
<1>6. inputbuffer' = inputbuffer \o a
  BY <1>1
<1> HIDE DEF a
<1>7. TypeOK'
  <2>1. inputbuffer' \in Seq(Byte)
    BY <1>4, <1>5, <1>6, Joined
  <2> QED BY <1>2, <1>3, <1>5, <2>1 DEF TypeOK
<1>8. F' = F
  BY <1>2 DEF HandedBytes, Handed
<1> HIDE DEF F
<1>9. (F' \o inputbuffer') \o net' = Frames(sent')
  <2> DEFINE r == net'
  <2>1. r \in Seq(Byte) /\ net = a \o r
    BY <1>5
  <2> HIDE DEF r
  <2>2. (F \o (inputbuffer \o a)) \o r = (F \o inputbuffer) \o (a \o r)
    <3> DEFINE c == inputbuffer
               b == F \o c
    <3>1. F \in Seq(Byte) /\ c \in Seq(Byte) /\ a \in Seq(Byte) /\ r \in Seq(Byte) /\ b \in Seq(Byte)
      BY <1>4, <1>5, <2>1, Joined
    <3> HIDE DEF c
    <3>2. (F \o c) \o a = F \o (c \o a)
      BY <3>1, ConcatAssociative, SMTT(30)
    <3> HIDE DEF b
    <3>3. (b \o a) \o r = b \o (a \o r)
      BY <3>1, ConcatAssociative, SMTT(30)
    <3> QED BY <3>2, <3>3 DEF b, c
  <2>3. (F \o (inputbuffer \o a)) \o r = Frames(sent)
    BY <1>3, <2>1, <2>2
  <2> QED BY <1>2, <1>6, <1>8, <2>3 DEF r
<1> QED
  BY <1>2, <1>3, <1>7, <1>9, KeptNext DEF IInv, F

LEMMA AgainKeeps == ASSUME IInv, ReadAgain PROVE IInv'
<1>1. pc' = "pick" /\ UNCHANGED <<sep, sent, net, inputbuffer, picked>>
  BY DEF ReadAgain
<1> QED
  BY <1>1 DEF IInv, TypeOK, BytesKept, Handed

(* Without a separator all that has arrived is handed over.                *)
LEMMA PickAllKeeps ==
    ASSUME IInv, sep = 0, Pick
    PROVE  IInv' /\ sep' = 0
<1> DEFINE F == HandedBytes
           b == inputbuffer
<1>1. PICK h \in HeaderBytes(b) :
        /\ pc = "pick" /\ inputbuffer' = PickMessage(b, 0, h).buf
        /\ picked' = IF PickMessage(b, 0, h).ok THEN HandOver(PickMessage(b, 0, h).ss) ELSE picked
        /\ pc' = IF PickMessage(b, 0, h).ok THEN "pick" ELSE "poll"
        /\ UNCHANGED <<sep, sent, net>>
  BY DEF Pick, PickWith
<1>2. TypeOK /\ (F \o b) \o net = Frames(sent) /\ HandedBytes = FlattenSeq(picked) /\ F \in Seq(Byte)
  BY Kept, HandedIs DEF IInv
<1>3. b \in Seq(Byte) /\ picked \in Seq(Seq(Byte)) /\ net \in Seq(Byte)
  BY <1>2 DEF TypeOK
<1> HIDE DEF b
<1>4. /\ PickMessage(b, 0, h).ok => PickMessage(b, 0, h).ss = b /\ PickMessage(b, 0, h).buf = <<>>
      /\ ~PickMessage(b, 0, h).ok => b = <<>> /\ PickMessage(b, 0, h).buf = <<>>
  BY <1>3, PickAll
<1>5. inputbuffer' = <<>> /\ sep' = 0 /\ pc' \in {"pick", "poll"}
  BY <1>1, <1>4
<1>6. ASSUME picked' \in Seq(Seq(Byte)), FlattenSeq(picked') = F \o b PROVE IInv'
  <2>1. TypeOK'
    <3>1. <<>> \in Seq(Byte)
      OBVIOUS
    <3>2. sent' = sent /\ net' = net
      BY <1>1
    <3> QED BY <1>2, <1>5, <1>6, <3>1, <3>2 DEF TypeOK
  <2>2. F' = F \o b
    BY <1>5, <1>6, <2>1, HandedWillBe
  <2> HIDE DEF F
  <2>3. F \o b \in Seq(Byte)
    BY <1>2, <1>3, Joined
  <2>4. ((F \o b) \o <<>>) \o net = Frames(sent)
    BY <1>2, <2>3
  <2>5. (F' \o inputbuffer') \o net' = Frames(sent')
    BY <1>1, <1>5, <2>2, <2>4 DEF Frames
  <2> QED BY <1>5, <2>1, <2>5, KeptNext DEF IInv, F
<1>7. CASE PickMessage(b, 0, h).ok
  <2>1. picked' = <<FlattenSeq(Append(picked, b))>>
    BY <1>1, <1>4, <1>7 DEF HandOver
  <2>2. FlattenSeq(Append(picked, b)) = FlattenSeq(picked) \o b
    BY <1>3, FlattenAppend
  <2>3. FlattenSeq(Append(picked, b)) = F \o b /\ F \o b \in Seq(Byte)
    BY <1>2, <1>3, <2>2, Joined
  <2> HIDE DEF F
  <2>4. FlattenSeq(picked') = F \o b
    BY <2>1, <2>3, FlattenOne
  <2>5. picked' \in Seq(Seq(Byte))
    BY <2>1, <2>3
  <2> QED BY <1>5, <1>6, <2>4, <2>5
<1>8. CASE ~PickMessage(b, 0, h).ok
  <2>1. picked' = picked /\ b = <<>>
    BY <1>1, <1>4, <1>8
  <2>2. F \o b = F
    BY <1>2, <2>1
  <2> QED BY <1>2, <1>3, <1>5, <1>6, <2>1, <2>2
<1> QED
  BY <1>5, <1>7, <1>8

(* With a header the oldest message that has not been picked is picked, or *)
(* nothing.                                                                *)
LEMMA PickFirstKeeps ==
    ASSUME IInv, sep = 1, Pick
    PROVE  /\ IInv' /\ sep' = 1 /\ sent' = sent
           /\ \/ picked' = picked
              \/ Len(picked) < Len(sent) /\ picked' = Append(picked, sent[Len(picked) + 1])
<1> DEFINE F == Frames(picked)
           b == inputbuffer
           k == Len(picked)
<1>1. PICK h \in HeaderBytes(b) :
        /\ pc = "pick" /\ inputbuffer' = PickMessage(b, 1, h).buf
        /\ picked' = IF PickMessage(b, 1, h).ok THEN HandOver(PickMessage(b, 1, h).ss) ELSE picked
        /\ pc' = IF PickMessage(b, 1, h).ok THEN "pick" ELSE "poll"
        /\ UNCHANGED <<sep, sent, net>>
  BY DEF Pick, PickWith
<1>2. TypeOK /\ IsPrefix(picked, sent) /\ picked \in Seq(Messages) /\ (F \o b) \o net = Frames(sent)
  BY Kept, HandedIs DEF IInv
<1>3. b \in Seq(Byte) /\ sent \in Seq(Messages) /\ net \in Seq(Byte) /\ F \in Seq(Byte)
  BY <1>2, FramesType DEF TypeOK
<1>4. k \in Nat /\ k <= Len(sent) /\ Len(sent) \in Nat /\ picked = SubSeq(sent, 1, k)
  BY <1>2, <1>3, PickedIs DEF TypeOK
<1> HIDE DEF b, F, k
<1>5. b \o net \in Seq(Byte) /\ F \o (b \o net) = Frames(sent)
  <2>1. b \o net \in Seq(Byte)
    BY <1>3, Joined
  <2>2. (F \o b) \o net = F \o (b \o net)
    BY <1>3, ConcatAssociative
  <2> QED BY <1>2, <2>1, <2>2
<1>6. CASE PickMessage(b, 1, h).ok
  <2> DEFINE p == PickMessage(b, 1, h)
  <2>1. b # <<>>
    BY <1>3, <1>6, PickByHeader
  <2>2. k # Len(sent)
    <3> SUFFICES ASSUME k = Len(sent) PROVE FALSE
      OBVIOUS
    <3>1. picked = sent
      BY <1>3, <1>4
    <3>2. F \o (b \o net) = F
      BY <1>5, <3>1 DEF F
    <3>3. Len(F) + Len(b \o net) = Len(F) /\ Len(b \o net) = Len(b) + Len(net)
      BY <1>3, <1>5, <3>2, Joined
    <3>4. Len(b) = 0
      BY <1>3, <3>3
    <3> QED BY <1>3, <2>1, <3>4
  <2> DEFINE j == k + 1
             m == sent[j]
  <2>3. j \in 1..Len(sent) /\ j \in 0..Len(sent) /\ j - 1 = k
    BY <1>4, <2>2
  <2>4. m \in Messages /\ SubSeq(sent, 1, j) = Append(picked, m)
    BY <1>3, <1>4, <2>3, LastOfPrefix
  <2>5. PICK x \in Seq(Byte) : Frames(sent) = Frames(SubSeq(sent, 1, j)) \o x
    BY <1>3, <2>3, FramesSplit
  <2> HIDE DEF p, m, j
  <2>6. Frame(m) \in Seq(Byte) /\ Frames(Append(picked, m)) = F \o Frame(m)
    BY <1>2, <2>4, FrameIs, FramesAppend DEF F
  <2>7. Frames(sent) = F \o (Frame(m) \o x) /\ Frame(m) \o x \in Seq(Byte)
    <3>1. Frames(sent) = (F \o Frame(m)) \o x
      BY <2>4, <2>5, <2>6
    <3> QED BY <1>3, <2>6, <3>1, Joined, ConcatAssociative
  <2>8. Agrees(b, Frame(m))
    <3> DEFINE u == b \o net
               v == Frame(m) \o x
    <3>1. u \in Seq(Byte) /\ v \in Seq(Byte) /\ F \o u = F \o v
      BY <1>5, <2>7
    <3> HIDE DEF u, v
    <3>2. u = v
      BY <1>3, <3>1, LeftCancel
    <3>3. b \o net = Frame(m) \o x
      BY <3>2 DEF u, v
    <3> DEFINE f == Frame(m)
    <3>4. f \in Seq(Byte) /\ x \in Seq(Byte) /\ b \o net = f \o x
      BY <2>6, <3>3
    <3> HIDE DEF f
    <3>5. Agrees(b, f)
      BY <1>3, <3>4, Beginnings
    <3> QED BY <3>5 DEF f
  <2>9. p.ss = m /\ p.buf \in Seq(Byte) /\ b = Frame(m) \o p.buf
    <3>1. b \in Seq(Byte) /\ m \in Messages /\ h \in HeaderBytes(b)
      BY <1>3, <2>4
    <3>2. PickFramed(b, h).ok
      BY <1>6 DEF PickFramed
    <3>3. /\ PickFramed(b, h).ss = m /\ PickFramed(b, h).buf \in Seq(Byte)
          /\ b = Frame(m) \o PickFramed(b, h).buf
      BY <2>8, <3>1, <3>2, PickFirst
    <3> QED BY <3>3 DEF p, PickFramed
  <2>10. picked' = Append(picked, m) /\ inputbuffer' = p.buf /\ pc' = "pick"
    BY <1>1, <1>6, <2>9 DEF HandOver, p
  <2>11. picked' \in Seq(Messages) /\ picked' \in Seq(Seq(Byte))
    <3>1. picked' \in Seq(Messages)
      BY <1>2, <2>4, <2>10, Added
    <3>2. m \in Seq(Byte) /\ picked \in Seq(Seq(Byte))
      BY <1>2, <2>4, FrameIs DEF TypeOK
    <3>3. picked' \in Seq(Seq(Byte))
      BY <2>10, <3>2, Added
    <3> QED BY <3>1, <3>3
  <2>12. TypeOK'
    BY <1>1, <1>2, <2>9, <2>10, <2>11 DEF TypeOK
  <2>13. IsPrefix(picked', sent')
    <3> DEFINE s == SubSeq(sent, 1, j)
    <3>1. picked' = s /\ j \in Nat /\ j <= Len(sent)
      BY <1>4, <2>3, <2>4, <2>10
    <3>2. s \in Seq(Messages) /\ Len(s) = j /\ \A i \in 1..j : s[i] = sent[i]
      BY <1>3, <3>1
    <3> HIDE DEF s
    <3>3. IsPrefix(s, sent)
      BY <1>3, <3>1, <3>2, Beginning
    <3> QED BY <1>1, <3>1, <3>3
  <2>14. HandedBytes' = F \o Frame(m)
    <3>1. HandedBytes' = Frames(picked')
      BY <1>1, <2>12, <2>13, HandedWillBe DEF Frames
    <3> QED BY <2>6, <2>10, <3>1
  <2>15. (F \o Frame(m)) \o p.buf = F \o b
    <3> DEFINE c == Frame(m)
               d == p.buf
    <3>1. F \in Seq(Byte) /\ c \in Seq(Byte) /\ d \in Seq(Byte)
      BY <1>3, <2>6, <2>9
    <3> HIDE DEF c, d
    <3>2. (F \o c) \o d = F \o (c \o d)
      BY <3>1, ConcatAssociative
    <3> QED BY <2>9, <3>2 DEF c, d
  <2>16. (HandedBytes' \o inputbuffer') \o net' = Frames(sent')
    BY <1>1, <1>2, <2>10, <2>14, <2>15 DEF Frames
  <2>17. IInv'
    BY <2>12, <2>13, <2>16, KeptNext DEF IInv
  <2> QED BY <1>1, <1>4, <2>2, <2>10, <2>17 DEF j, m, k
<1>7. CASE ~PickMessage(b, 1, h).ok
  <2>1. picked' = picked /\ pc' = "poll" /\ inputbuffer' = inputbuffer /\ UNCHANGED <<sep, sent, net>>
    BY <1>1, <1>3, <1>7, PickByHeader DEF b
  <2>2. \A m \in Messages : ~IsPrefix(Frame(m), b)
    BY <1>3, <1>7, PickLeavesPart
  <2>3. Whole' = {}
    BY <2>1, <2>2 DEF Whole, b
  <2>4. TypeOK'
    BY <1>2, <2>1, <2>3 DEF TypeOK
  <2>5. BytesKept'
    BY <2>1 DEF IInv, BytesKept, Handed, Frames
  <2> QED BY <1>2, <2>1, <2>4, <2>5 DEF IInv
<1> QED
  BY <1>6, <1>7

LEMMA NextIInv == IInv /\ [Next]_vars => IInv'
<1> SUFFICES ASSUME IInv, [Next]_vars PROVE IInv'
  OBVIOUS
<1>1. CASE Read
  BY <1>1, ReadKeeps
<1>2. CASE ReadAgain
  BY <1>2, AgainKeeps
<1>3. CASE Pick
  <2>1. sep = 0 \/ sep = 1
    BY DEF IInv, TypeOK
  <2> QED BY <1>3, <2>1, PickAllKeeps, PickFirstKeeps
<1>4. ASSUME NEW m \in Messages, ClientSend(m) PROVE IInv'
  BY <1>4, SendKeeps
<1>5. CASE UNCHANGED vars
  BY <1>5 DEF vars, IInv, TypeOK, Whole, BytesKept, Handed
<1> QED
  BY <1>1, <1>2, <1>3, <1>4, <1>5 DEF Next, LoopStep

-----------------------------------------------------------------------------
(* What holds of the bytes and the messages at all times.                  *)

(* The types, the bytes kept, and what has been picked being the beginning *)
(* of what was sent, together.                                             *)
THEOREM InductiveInvariant == Spec => []IInv
BY InitIInv, NextIInv, PTL DEF Spec

(* When the IO thread waits for a file descriptor again, the buffer holds  *)
(* no message: everything there is for the application has been handed to  *)
(* it (the inner loop of Connection::onmessage()).                         *)
THEOREM TypeCorrect == Spec => []TypeOK
BY InductiveInvariant, PTL DEF IInv

(* Wherever read() cuts the stream, and with a header or without one, what *)
(* the application was given, inputbuffer_ and what is under way are,      *)
(* byte for byte, the messages sent (Buffer::append(), pickmessage()).     *)
THEOREM NoByteLost == Spec => []BytesKept
BY InductiveInvariant, PTL DEF IInv

(* With a header Buffer.cpp makes a queue of messages out of a stream of   *)
(* bytes: onmessagecallback_ is called with each message whole, at most    *)
(* once, in the order of sending, for every length an int can hold.        *)
THEOREM Refinement == Spec => ImplementsTaskQueue
<1> DEFINE posted == IF sep = 1 THEN sent ELSE <<>>
           ran == IF sep = 1 THEN picked ELSE <<>>
<1>1. Init => TQ!Init
  BY DEF Init, TQ!Init
<1>2. IInv /\ [Next]_vars => [TQ!Next]_<<posted, ran>>
  <2> SUFFICES ASSUME IInv, [Next]_vars PROVE [TQ!Next]_<<posted, ran>>
    OBVIOUS
  <2>1. sep = 0 \/ sep = 1
    BY DEF IInv, TypeOK
  <2>2. sep' = sep
    BY DEF Next, LoopStep, Read, ReadAgain, Pick, PickWith, ClientSend, vars
  <2>3. CASE sep = 0
    BY <2>2, <2>3
  <2>4. CASE sep = 1
    <3>1. posted = sent /\ posted' = sent' /\ ran = picked /\ ran' = picked'
      BY <2>2, <2>4
    <3>2. ASSUME NEW m \in Messages, ClientSend(m) PROVE TQ!Next
      <4>1. m \notin Range(sent) /\ sent' = Append(sent, m) /\ picked' = picked
        BY <3>2 DEF ClientSend
      <4>2. TQ!Post(m)
        BY <3>1, <4>1 DEF TQ!Post, Range, TQ!Range
      <4> QED BY <4>2 DEF TQ!Next
    <3>3. CASE Pick
      <4>1. sent' = sent /\ (\/ picked' = picked
                             \/ Len(picked) < Len(sent) /\ picked' = Append(picked, sent[Len(picked) + 1]))
        BY <2>4, <3>3, PickFirstKeeps
      <4>2. CASE picked' = picked
        BY <3>1, <4>1, <4>2
      <4>3. CASE Len(picked) < Len(sent) /\ picked' = Append(picked, sent[Len(picked) + 1])
        <5>1. TQ!Run
          BY <3>1, <4>1, <4>3 DEF TQ!Run
        <5> QED BY <5>1 DEF TQ!Next
      <4> QED BY <4>1, <4>2, <4>3
    <3>4. CASE UNCHANGED <<sent, picked>>
      BY <3>1, <3>4
    <3> QED BY <3>2, <3>3, <3>4 DEF Next, LoopStep, Read, ReadAgain, vars
  <2> QED BY <2>1, <2>3, <2>4
<1>3. Spec => []IInv
  BY InductiveInvariant
<1> QED
  BY <1>1, <1>2, <1>3, PTL DEF Spec, ImplementsTaskQueue, TQ!Spec
=============================================================================
