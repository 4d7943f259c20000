---------------------------- MODULE SequenceLemmas -----------------------------
(***************************************************************************)
(* Lemmas about the operators on sequences and sets of numbers that the    *)
(* models are built from.  They are recursive functions, and an induction  *)
(* over what they recur on is here one over the set of the lengths it      *)
(* holds for.                                                              *)
(***************************************************************************)
EXTENDS Integers, Sequences, SequencesExt, FiniteSetsExt, Selection,
        SequenceTheorems, WellFoundedInduction, TLAPS

(* A set of numbers that is not empty has a least one. *)
LEMMA LeastElement ==
  ASSUME NEW S, S \subseteq Nat, S # {}
  PROVE  \E n \in S : \A m \in S : n <= m
  <1>1. PICK n \in S : \A m \in S : ~ (<<m, n>> \in OpToRel(<, Nat))
    BY NatLessThanWellFounded, WFMin
  <1>2. \A m \in S : ~ (m < n)
    BY <1>1 DEF OpToRel
  <1> QED
    BY <1>2

(* Induction, over the set of the numbers that have a property. *)
LEMMA SetInduction ==
  ASSUME NEW S, 0 \in S, \A n \in Nat : n \in S => n + 1 \in S
  PROVE  Nat \subseteq S
  <1> SUFFICES ASSUME Nat \ S # {} PROVE FALSE
    OBVIOUS
  <1>1. PICK n \in Nat \ S : \A m \in Nat \ S : n <= m
    BY LeastElement
  <1>2. n # 0 /\ n - 1 \in Nat
    BY <1>1
  <1>3. n - 1 \in S
    BY <1>1, <1>2
  <1>4. (n - 1) + 1 \in S
    BY <1>2, <1>3
  <1> QED
    BY <1>1, <1>4

(* The maximum of numbers that are bounded is one of them. *)
LEMMA MaxOfNumbers ==
  ASSUME NEW n \in Nat, NEW s \in SUBSET (0..n), s # {}
  PROVE  Max(s) \in s /\ \A y \in s : Max(s) >= y
  <1> DEFINE Bounds == {m \in Nat : \A y \in s : m >= y}
  <1>1. n \in Bounds
    OBVIOUS
  <1>2. PICK m \in Bounds : \A k \in Bounds : m <= k
    <2> HIDE DEF Bounds
    <2>1. Bounds \subseteq Nat
      BY DEF Bounds
    <2> QED
      BY <1>1, <2>1, LeastElement
  <1>3. m \in s
    <2> SUFFICES ASSUME m \notin s PROVE FALSE
      OBVIOUS
    <2>1. \A y \in s : y \in Nat /\ m > y
      BY <1>2
    <2>2. PICK y \in s : TRUE
      OBVIOUS
    <2>3. m - 1 \in Nat /\ \A z \in s : m - 1 >= z
      BY <1>2, <2>1, <2>2
    <2>4. m - 1 \in Bounds
      BY <2>3
    <2> QED
      BY <1>2, <2>4
  <1>4. \A y \in s : m >= y
    BY <1>2
  <1> QED
    BY <1>3, <1>4 DEF Max

LEMMA MaxOfSome ==
  ASSUME NEW n \in Nat, NEW s \in SUBSET (1..n), s # {}
  PROVE  Max(s) \in s /\ \A y \in s : Max(s) >= y
  <1>1. s \in SUBSET (0..n)
    OBVIOUS
  <1> QED
    BY <1>1, MaxOfNumbers

LEMMA MaxOfOne ==
  ASSUME NEW n \in Nat
  PROVE  Max({n}) = n
  <1>1. {n} \in SUBSET (0..n) /\ {n} # {}
    OBVIOUS
  <1>2. Max({n}) \in {n}
    BY <1>1, MaxOfNumbers
  <1> QED
    BY <1>2

------------------------------------------------------------------------------
(* Append, InsertAt, and what is left without some of the elements *)

LEMMA AppendAt ==
  ASSUME NEW T, NEW t \in Seq(T), NEW x \in T, NEW n \in Nat, n = Len(t)
  PROVE  /\ Append(t, x) \in Seq(T)
         /\ Len(Append(t, x)) = n + 1
         /\ \A i \in 1..n : Append(t, x)[i] = t[i]
         /\ Append(t, x)[n + 1] = x
  BY AppendProperties

(* The beginning of a sequence, and its end. *)
LEMMA SubSeqBefore ==
  ASSUME NEW T, NEW s \in Seq(T), NEW i \in 1..Len(s)
  PROVE  /\ SubSeq(s, 1, i - 1) \in Seq(T) /\ Len(SubSeq(s, 1, i - 1)) = i - 1
         /\ \A j \in 1..(i - 1) : SubSeq(s, 1, i - 1)[j] = s[j]
  <1> DEFINE a == SubSeq(s, 1, i - 1)
  <1>1. Len(s) \in Nat /\ i \in Nat /\ i >= 1
    BY LenProperties
  <1>2. \A j \in 1..(i - 1) : s[j] \in T
    BY <1>1
  <1>3. /\ a \in Seq(T)
        /\ Len(a) = IF 1 <= i - 1 THEN (i - 1) - 1 + 1 ELSE 0
        /\ \A j \in 1..((i - 1) - 1 + 1) : a[j] = s[1 + j - 1]
    BY <1>1, <1>2, SubSeqProperties
  <1> HIDE DEF a
  <1>4. Len(a) = i - 1
    <2>1. CASE i = 1
      BY <1>3, <2>1
    <2>2. CASE i # 1
      <3>1. 1 <= i - 1
        BY <1>1, <2>2
      <3> QED
        BY <1>1, <1>3, <3>1
    <2> QED
      BY <2>1, <2>2
  <1>5. \A j \in 1..(i - 1) : a[j] = s[j]
    BY <1>1, <1>3
  <1> QED
    BY <1>3, <1>4, <1>5 DEF a

LEMMA SubSeqFrom ==
  ASSUME NEW T, NEW s \in Seq(T), NEW i \in 1..(Len(s) + 1)
  PROVE  /\ SubSeq(s, i, Len(s)) \in Seq(T) /\ Len(SubSeq(s, i, Len(s))) = Len(s) - i + 1
         /\ \A j \in 1..(Len(s) - i + 1) : SubSeq(s, i, Len(s))[j] = s[j + (i - 1)]
  <1> DEFINE n == Len(s)
             b == SubSeq(s, i, n)
  <1>1. n \in Nat /\ i \in Nat /\ i >= 1 /\ i <= n + 1
    BY LenProperties
  <1>2. \A j \in i..n : s[j] \in T
    BY <1>1
  <1>3. /\ b \in Seq(T)
        /\ Len(b) = IF i <= n THEN n - i + 1 ELSE 0
        /\ \A j \in 1..(n - i + 1) : b[j] = s[i + j - 1]
    BY <1>1, <1>2, SubSeqProperties
  <1> HIDE DEF b, n
  <1>4. Len(b) = n - i + 1
    <2>1. CASE i = n + 1
      BY <1>1, <1>3, <2>1
    <2>2. CASE i # n + 1
      <3>1. i <= n
        BY <1>1, <2>2
      <3> QED
        BY <1>3, <3>1
    <2> QED
      BY <2>1, <2>2
  <1>5. \A j \in 1..(n - i + 1) : b[j] = s[j + (i - 1)]
    <2>1. \A j \in 1..(n - i + 1) : i + j - 1 = j + (i - 1)
      BY <1>1
    <2> QED
      BY <1>3, <2>1
  <1> QED
    BY <1>3, <1>4, <1>5 DEF b, n

(* A sequence put together of two, place by place. *)
LEMMA ConcatAt ==
  ASSUME NEW T, NEW a \in Seq(T), NEW b \in Seq(T)
  PROVE  /\ a \o b \in Seq(T) /\ Len(a \o b) = Len(a) + Len(b)
         /\ \A j \in 1..Len(a) : (a \o b)[j] = a[j]
         /\ \A j \in (Len(a) + 1)..(Len(a) + Len(b)) : (a \o b)[j] = b[j - Len(a)]
  <1> DEFINE m == Len(a)
             k == Len(b)
  <1>1. /\ a \o b \in Seq(T) /\ Len(a \o b) = m + k
        /\ \A j \in 1..(m + k) : (a \o b)[j] = IF j <= m THEN a[j] ELSE b[j - m]
        /\ m \in Nat /\ k \in Nat
    BY ConcatProperties, LenProperties
  <1> HIDE DEF m, k
  <1>2. \A j \in 1..m : j \in 1..(m + k) /\ j <= m
    BY <1>1
  <1>3. \A j \in (m + 1)..(m + k) : j \in 1..(m + k) /\ ~ (j <= m)
    BY <1>1
  <1>4. \A j \in 1..m : (a \o b)[j] = a[j]
    BY <1>1, <1>2
  <1>5. \A j \in (m + 1)..(m + k) : (a \o b)[j] = b[j - m]
    BY <1>1, <1>3
  <1> QED
    BY <1>1, <1>4, <1>5 DEF m, k

(* A sequence cut behind n of its elements. *)
LEMMA CutInTwo ==
  ASSUME NEW T, NEW s \in Seq(T), NEW n \in 0..Len(s)
  PROVE  /\ SubSeq(s, 1, n) \in Seq(T) /\ Len(SubSeq(s, 1, n)) = n
         /\ \A j \in 1..n : SubSeq(s, 1, n)[j] = s[j]
         /\ SubSeq(s, n + 1, Len(s)) \in Seq(T) /\ Len(SubSeq(s, n + 1, Len(s))) = Len(s) - n
         /\ SubSeq(s, 1, n) \o SubSeq(s, n + 1, Len(s)) = s
  <1> DEFINE m == Len(s)
             a == SubSeq(s, 1, n)
             b == SubSeq(s, n + 1, m)
             c == a \o b
  <1>1. m \in Nat /\ n \in Nat /\ n <= m /\ n + 1 \in 1..(m + 1)
    BY LenProperties
  <1>2. a \in Seq(T) /\ Len(a) = n /\ \A j \in 1..n : a[j] = s[j]
    <2>1. CASE n = m
      <3>1. a = s
        BY <2>1, SubSeqFull
      <3> QED
        BY <2>1, <3>1
    <2>2. CASE n # m
      <3>1. PICK i \in 1..m : i = n + 1
        BY <1>1, <2>2
      <3>2. i - 1 = n
        BY <1>1, <3>1
      <3>3. /\ SubSeq(s, 1, i - 1) \in Seq(T) /\ Len(SubSeq(s, 1, i - 1)) = i - 1
            /\ \A j \in 1..(i - 1) : SubSeq(s, 1, i - 1)[j] = s[j]
        BY SubSeqBefore
      <3> QED
        BY <3>2, <3>3
    <2> QED
      BY <2>1, <2>2
  <1>3. b \in Seq(T) /\ Len(b) = m - n /\ \A j \in 1..(m - n) : b[j] = s[j + n]
    <2>1. PICK i \in 1..(m + 1) : i = n + 1
      BY <1>1
    <2>2. i - 1 = n /\ m - i + 1 = m - n
      BY <1>1, <2>1
    <2>3. /\ SubSeq(s, i, m) \in Seq(T) /\ Len(SubSeq(s, i, m)) = m - i + 1
          /\ \A j \in 1..(m - i + 1) : SubSeq(s, i, m)[j] = s[j + (i - 1)]
      BY SubSeqFrom
    <2> QED
      BY <2>1, <2>2, <2>3
  <1> HIDE DEF a, b
  <1>4. /\ c \in Seq(T) /\ Len(c) = n + (m - n)
        /\ \A j \in 1..n : c[j] = a[j]
        /\ \A j \in (n + 1)..(n + (m - n)) : c[j] = b[j - n]
    <2>1. /\ c \in Seq(T) /\ Len(c) = Len(a) + Len(b)
          /\ \A j \in 1..Len(a) : c[j] = a[j]
          /\ \A j \in (Len(a) + 1)..(Len(a) + Len(b)) : c[j] = b[j - Len(a)]
      <3>1. a \in Seq(T) /\ b \in Seq(T)
        BY <1>2, <1>3
      <3> QED
        BY <3>1, ConcatAt, Zenon
    <2> QED
      BY <1>2, <1>3, <2>1
  <1> HIDE DEF c
  <1>5. ASSUME NEW j \in 1..m PROVE c[j] = s[j]
    <2>1. CASE j <= n
      BY <1>1, <1>2, <1>4, <2>1
    <2>2. CASE ~(j <= n)
      <3>1. j \in (n + 1)..(n + (m - n)) /\ j - n \in 1..(m - n) /\ (j - n) + n = j
        BY <1>1, <2>2
      <3> QED
        BY <1>3, <1>4, <3>1
    <2> QED
      BY <2>1, <2>2
  <1>6. Len(c) = m
    BY <1>1, <1>4
  <1>7. c = s
    BY <1>4, <1>5, <1>6, SeqEqual
  <1> QED
    BY <1>2, <1>3, <1>7 DEF a, b, c

LEMMA RunTakenOut ==
  ASSUME NEW T, NEW s \in Seq(T), NEW i \in 1..Len(s), NEW k \in i..Len(s)
  PROVE  LET g == SubSeq(s, 1, i - 1) \o SubSeq(s, k + 1, Len(s))
         IN /\ g \in Seq(T) /\ Len(g) = Len(s) - (k - (i - 1))
            /\ \A j \in 1..Len(g) : g[j] = IF j < i THEN s[j] ELSE s[j + (k - (i - 1))]
  <1> DEFINE n == Len(s)
             a == SubSeq(s, 1, i - 1)
             b == SubSeq(s, k + 1, n)
             g == a \o b
  <1>1. /\ n \in Nat /\ i \in Nat /\ k \in Nat /\ i >= 1 /\ i <= k /\ k <= n
        /\ k + 1 \in 1..(n + 1) /\ i \in 1..n
    BY LenProperties
  <1>2. a \in Seq(T) /\ Len(a) = i - 1 /\ \A j \in 1..(i - 1) : a[j] = s[j]
    BY SubSeqBefore
  <1>3. b \in Seq(T) /\ Len(b) = n - (k + 1) + 1
        /\ \A j \in 1..(n - (k + 1) + 1) : b[j] = s[j + ((k + 1) - 1)]
    BY <1>1, SubSeqFrom
  <1> HIDE DEF n, a, b
  <1>4. Len(b) = n - k /\ \A j \in 1..(n - k) : b[j] = s[j + k]
    <2>1. n - (k + 1) + 1 = n - k /\ \A j \in 1..(n - k) : j + ((k + 1) - 1) = j + k
      BY <1>1
    <2> QED
      BY <1>3, <2>1
  <1>5. /\ g \in Seq(T) /\ Len(g) = (i - 1) + (n - k)
        /\ \A j \in 1..(i - 1) : g[j] = a[j]
        /\ \A j \in ((i - 1) + 1)..((i - 1) + (n - k)) : g[j] = b[j - (i - 1)]
    <2>1. /\ a \o b \in Seq(T) /\ Len(a \o b) = Len(a) + Len(b)
          /\ \A j \in 1..Len(a) : (a \o b)[j] = a[j]
          /\ \A j \in (Len(a) + 1)..(Len(a) + Len(b)) : (a \o b)[j] = b[j - Len(a)]
      BY <1>2, <1>3, ConcatAt
    <2> QED
      BY <1>2, <1>4, <2>1
  <1> HIDE DEF g
  <1>6. Len(g) = n - (k - (i - 1))
    BY <1>1, <1>5
  <1>7. ASSUME NEW j \in 1..Len(g), j < i PROVE g[j] = s[j]
    <2>1. j \in 1..(i - 1)
      BY <1>1, <1>7
    <2> QED
      BY <1>2, <1>5, <2>1
  <1>8. ASSUME NEW j \in 1..Len(g), ~ (j < i) PROVE g[j] = s[j + (k - (i - 1))]
    <2>1. /\ j \in ((i - 1) + 1)..((i - 1) + (n - k)) /\ j - (i - 1) \in 1..(n - k)
          /\ (j - (i - 1)) + k = j + (k - (i - 1))
      BY <1>1, <1>5, <1>8
    <2> QED
      BY <1>4, <1>5, <2>1
  <1> QED
    BY <1>5, <1>6, <1>7, <1>8 DEF n, g, a, b

LEMMA InsertAtPlaces ==
  ASSUME NEW T, NEW s \in Seq(T), NEW i \in 1..(Len(s) + 1), NEW x \in T
  PROVE  /\ InsertAt(s, i, x) \in Seq(T) /\ Len(InsertAt(s, i, x)) = Len(s) + 1
         /\ \A j \in 1..(Len(s) + 1) :
              InsertAt(s, i, x)[j] = IF j < i THEN s[j] ELSE IF j = i THEN x ELSE s[j - 1]
  <1> DEFINE n == Len(s)
             a == SubSeq(s, 1, i - 1)
             m == a \o <<x>>
             b == SubSeq(s, i, n)
             g == InsertAt(s, i, x)
  <1>1. /\ n \in Nat /\ i \in Nat /\ i >= 1 /\ i <= n + 1
        /\ i \in 1..(n + 1) /\ i - 1 \in 0..n
    BY LenProperties
  <1>2. a \in Seq(T) /\ Len(a) = i - 1 /\ \A j \in 1..(i - 1) : a[j] = s[j]
    BY <1>1, CutInTwo
  <1>3. b \in Seq(T) /\ Len(b) = n - i + 1
        /\ \A j \in 1..(n - i + 1) : b[j] = s[j + (i - 1)]
    BY <1>1, SubSeqFrom
  <1>4. g = m \o b
    BY DEF InsertAt
  <1> HIDE DEF n, a, b, g
  <1>5. m \in Seq(T) /\ Len(m) = i /\ m[i] = x /\ \A j \in 1..(i - 1) : m[j] = a[j]
    <2>1. m = Append(a, x)
      BY <1>2, AppendIsConcat
    <2>2. i - 1 \in Nat /\ (i - 1) + 1 = i
      BY <1>1
    <2> HIDE DEF m
    <2> QED
      BY <1>2, <2>1, <2>2, AppendAt
  <1> HIDE DEF m
  <1>6. n - i + 1 \in Nat /\ i + (n - i + 1) = n + 1
    BY <1>1
  <1>7. /\ g \in Seq(T) /\ Len(g) = i + (n - i + 1)
        /\ \A j \in 1..i : g[j] = m[j]
        /\ \A j \in (i + 1)..(i + (n - i + 1)) : g[j] = b[j - i]
    <2>1. /\ m \o b \in Seq(T) /\ Len(m \o b) = Len(m) + Len(b)
          /\ \A j \in 1..Len(m) : (m \o b)[j] = m[j]
          /\ \A j \in (Len(m) + 1)..(Len(m) + Len(b)) : (m \o b)[j] = b[j - Len(m)]
      BY <1>3, <1>5, ConcatAt
    <2>2. Len(m) = i /\ Len(b) = n - i + 1
      BY <1>3, <1>5
    <2> QED
      BY <1>4, <2>1, <2>2
  <1>8. ASSUME NEW j \in 1..(n + 1), j < i PROVE g[j] = s[j]
    <2>1. j \in 1..(i - 1) /\ j \in 1..i
      BY <1>1, <1>8
    <2> QED
      BY <1>2, <1>5, <1>7, <2>1
  <1>9. g[i] = x
    <2>1. i \in 1..i
      BY <1>1
    <2> QED
      BY <1>5, <1>7, <2>1
  <1>10. ASSUME NEW j \in 1..(n + 1), j > i PROVE g[j] = s[j - 1]
    <2>1. /\ j \in (i + 1)..(i + (n - i + 1)) /\ j - i \in 1..(n - i + 1)
          /\ (j - i) + (i - 1) = j - 1
      BY <1>1, <1>10
    <2> QED
      BY <1>3, <1>7, <2>1
  <1>11. ASSUME NEW j \in 1..(n + 1)
         PROVE  g[j] = IF j < i THEN s[j] ELSE IF j = i THEN x ELSE s[j - 1]
    <2>1. j < i \/ j = i \/ j > i
      BY <1>1
    <2> QED
      BY <1>1, <1>8, <1>9, <1>10, <2>1
  <1> QED
    BY <1>6, <1>7, <1>11 DEF n, g

------------------------------------------------------------------------------
(* FlattenSeq *)

(* The function FlattenSeq recurs with. *)
Flattens(f, seqs, n) ==
  f = [i \in 1..n |-> IF i = 1 THEN seqs[i] ELSE f[i-1] \o seqs[i]]

LEMMA FlattensExists ==
  ASSUME NEW seqs, NEW n \in Nat
  PROVE  \E f : Flattens(f, seqs, n)
  <1> DEFINE S == {m \in Nat : \E f : Flattens(f, seqs, m)}
  <1>1. 0 \in S
    <2>1. Flattens([i \in 1..0 |-> 0], seqs, 0)
      BY DEF Flattens
    <2> QED
      BY <2>1
  <1>2. ASSUME NEW m \in Nat, m \in S PROVE m + 1 \in S
    <2>1. PICK f : Flattens(f, seqs, m)
      BY <1>2
    <2> DEFINE g == [i \in 1..(m+1) |-> IF i <= m THEN f[i] ELSE IF m = 0 THEN seqs[i] ELSE f[m] \o seqs[i]]
    <2>2. Flattens(g, seqs, m + 1)
      <3>1. ASSUME NEW i \in 1..(m+1) PROVE g[i] = IF i = 1 THEN seqs[i] ELSE g[i-1] \o seqs[i]
        <4>1. CASE i <= m
          <5>1. i \in 1..m /\ (i # 1 => i - 1 \in 1..m /\ i - 1 <= m)
            BY <4>1
          <5>2. f[i] = IF i = 1 THEN seqs[i] ELSE f[i-1] \o seqs[i]
            BY <2>1, <5>1 DEF Flattens
          <5> QED
            BY <4>1, <5>1, <5>2
        <4>2. CASE i = m + 1
          BY <4>2
        <4> QED
          BY <4>1, <4>2
      <3> HIDE DEF g
      <3>2. g = [i \in 1..(m+1) |-> g[i]]
        BY DEF g
      <3> QED
        BY <3>1, <3>2 DEF Flattens
    <2> QED
      BY <2>2
  <1> HIDE DEF S
  <1>3. n \in S
    BY <1>1, <1>2, SetInduction
  <1> QED
    BY <1>3 DEF S

LEMMA FlattenSeqUnfolds ==
  ASSUME NEW seqs, Len(seqs) \in Nat, Len(seqs) # 0
  PROVE  \E f : Flattens(f, seqs, Len(seqs)) /\ FlattenSeq(seqs) = f[Len(seqs)]
  <1>1. \E f : Flattens(f, seqs, Len(seqs))
    BY FlattensExists
  <1> DEFINE F == CHOOSE f : f = [i \in 1..Len(seqs) |-> IF i = 1 THEN seqs[i] ELSE f[i-1] \o seqs[i]]
  <1>2. FlattenSeq(seqs) = F[Len(seqs)]
    BY DEF FlattenSeq
  <1>3. F = [i \in 1..Len(seqs) |-> IF i = 1 THEN seqs[i] ELSE F[i-1] \o seqs[i]]
    BY <1>1 DEF Flattens
  <1> QED
    BY <1>2, <1>3 DEF Flattens

LEMMA ToSetConcat ==
  ASSUME NEW T, NEW s \in Seq(T), NEW t \in Seq(T)
  PROVE  s \o t \in Seq(T) /\ ToSet(s \o t) = ToSet(s) \cup ToSet(t)
  <1>1. /\ s \o t \in Seq(T) /\ Len(s \o t) = Len(s) + Len(t)
        /\ \A i \in 1..Len(s) : (s \o t)[i] = s[i]
        /\ \A i \in 1..Len(t) : (s \o t)[Len(s) + i] = t[i]
    BY ConcatProperties
  <1>2. /\ DOMAIN s = 1..Len(s) /\ DOMAIN t = 1..Len(t) /\ Len(s) \in Nat /\ Len(t) \in Nat
        /\ DOMAIN (s \o t) = 1..(Len(s) + Len(t))
    BY <1>1, LenProperties
  <1>3. ASSUME NEW i \in DOMAIN (s \o t)
        PROVE  (s \o t)[i] \in ToSet(s) \cup ToSet(t)
    <2>1. CASE i <= Len(s)
      BY <1>1, <1>2, <2>1 DEF ToSet
    <2>2. CASE i > Len(s)
      <3>1. PICK k \in 1..Len(t) : i = Len(s) + k
        <4>1. i - Len(s) \in 1..Len(t) /\ i = Len(s) + (i - Len(s))
          BY <1>2, <2>2
        <4> QED
          BY <4>1
      <3> QED
        BY <1>1, <1>2, <3>1 DEF ToSet
    <2> QED
      BY <1>2, <2>1, <2>2
  <1>4. ASSUME NEW i \in DOMAIN s
        PROVE  s[i] \in ToSet(s \o t)
    <2>1. i \in DOMAIN (s \o t) /\ (s \o t)[i] = s[i]
      BY <1>1, <1>2
    <2> QED
      BY <2>1 DEF ToSet
  <1>5. ASSUME NEW i \in DOMAIN t
        PROVE  t[i] \in ToSet(s \o t)
    <2>1. Len(s) + i \in DOMAIN (s \o t) /\ (s \o t)[Len(s) + i] = t[i]
      BY <1>1, <1>2
    <2> QED
      BY <2>1 DEF ToSet
  <1>6. ToSet(s \o t) \subseteq ToSet(s) \cup ToSet(t)
    BY <1>3 DEF ToSet
  <1>7. ToSet(s) \subseteq ToSet(s \o t) /\ ToSet(t) \subseteq ToSet(s \o t)
    BY <1>4, <1>5 DEF ToSet
  <1> QED
    BY <1>1, <1>6, <1>7

(* FlattenSeq has the elements of the sequences it is made of, and no other. *)
LEMMA FlattenSeqElements ==
  ASSUME NEW T, NEW seqs \in Seq(Seq(T))
  PROVE  /\ FlattenSeq(seqs) \in Seq(T)
         /\ ToSet(FlattenSeq(seqs)) = UNION {ToSet(seqs[i]) : i \in 1..Len(seqs)}
  <1>1. Len(seqs) \in Nat /\ \A i \in 1..Len(seqs) : seqs[i] \in Seq(T)
    OBVIOUS
  <1>2. CASE Len(seqs) = 0
    <2>1. FlattenSeq(seqs) = seqs
      BY <1>2 DEF FlattenSeq
    <2>2. seqs = << >>
      BY <1>2, EmptySeq
    <2>3. << >> \in Seq(T) /\ ToSet(<< >>) = {}
      BY EmptySeq DEF ToSet
    <2>4. {ToSet(seqs[i]) : i \in 1..Len(seqs)} = {}
      BY <1>2
    <2> QED
      BY <2>1, <2>2, <2>3, <2>4
  <1>3. CASE Len(seqs) # 0
    <2>1. PICK f : Flattens(f, seqs, Len(seqs)) /\ FlattenSeq(seqs) = f[Len(seqs)]
      BY <1>1, <1>3, FlattenSeqUnfolds
    <2> DEFINE Right(k) == f[k] \in Seq(T) /\ ToSet(f[k]) = UNION {ToSet(seqs[i]) : i \in 1..k}
    <2> DEFINE S == {k \in Nat : k \in 1..Len(seqs) => Right(k)}
    <2>2. 0 \in S
      OBVIOUS
    <2>3. ASSUME NEW k \in Nat, k \in S
          PROVE  k + 1 \in S
      <3> SUFFICES ASSUME k + 1 \in 1..Len(seqs) PROVE Right(k + 1)
        OBVIOUS
      <3>1. f[k + 1] = IF k + 1 = 1 THEN seqs[k + 1] ELSE f[k] \o seqs[k + 1]
        <4>1. \A i \in 1..Len(seqs) : f[i] = IF i = 1 THEN seqs[i] ELSE f[i-1] \o seqs[i]
          BY <2>1 DEF Flattens
        <4>2. (k + 1) - 1 = k
          OBVIOUS
        <4> QED
          BY <4>1, <4>2
      <3>2. CASE k = 0
        <4>1. f[k + 1] = seqs[k + 1] /\ seqs[k + 1] \in Seq(T)
          BY <1>1, <3>1, <3>2
        <4>2. 1..(k + 1) = {k + 1}
          BY <3>2
        <4> QED
          BY <4>1, <4>2
      <3>3. CASE k # 0
        <4>1. k \in 1..Len(seqs) /\ k + 1 # 1
          BY <1>1, <3>3
        <4>2. f[k + 1] = f[k] \o seqs[k + 1]
          BY <3>1, <4>1
        <4>3. Right(k) /\ seqs[k + 1] \in Seq(T)
          BY <1>1, <2>3, <4>1
        <4>4. /\ f[k + 1] \in Seq(T)
              /\ ToSet(f[k + 1]) = ToSet(f[k]) \cup ToSet(seqs[k + 1])
          BY <4>2, <4>3, ToSetConcat
        <4>5. 1..(k + 1) = (1..k) \cup {k + 1}
          OBVIOUS
        <4> QED
          BY <4>3, <4>4, <4>5
      <3> QED
        BY <3>2, <3>3
    <2> HIDE DEF S
    <2>4. Len(seqs) \in S
      BY <1>1, <2>2, <2>3, SetInduction
    <2>5. Right(Len(seqs))
      BY <1>1, <1>3, <2>4 DEF S
    <2> QED
      BY <2>1, <2>5
  <1> QED
    BY <1>2, <1>3

(* What is flattened first does not depend on what follows. *)
SameUpto(s, t, n) == \A i \in 1..n : s[i] = t[i]

LEMMA FlattensAgree ==
  ASSUME NEW s, NEW t, NEW n \in Nat, NEW m \in Nat, n <= m, NEW f, NEW g,
         Flattens(f, s, n), Flattens(g, t, m), SameUpto(s, t, n)
  PROVE  SameUpto(f, g, n)
  <1> DEFINE S == {k \in Nat : k \in 1..n => f[k] = g[k]}
  <1>1. 0 \in S
    OBVIOUS
  <1>2. ASSUME NEW k \in Nat, k \in S PROVE k + 1 \in S
    <2> SUFFICES ASSUME k + 1 \in 1..n PROVE f[k + 1] = g[k + 1]
      OBVIOUS
    <2>1. PICK j \in 1..n : j = k + 1
      OBVIOUS
    <2>2. /\ j \in 1..m /\ j - 1 = k /\ (j # 1 => k \in 1..n)
      BY <2>1
    <2>3. f[j] = IF j = 1 THEN s[j] ELSE f[j - 1] \o s[j]
      BY DEF Flattens
    <2>4. g[j] = IF j = 1 THEN t[j] ELSE g[j - 1] \o t[j]
      BY <2>2 DEF Flattens
    <2>5. j # 1 => f[j - 1] = g[j - 1]
      BY <1>2, <2>2
    <2>6. f[j] = g[j]
      BY <2>3, <2>4, <2>5 DEF SameUpto
    <2> QED
      BY <2>1, <2>6
  <1> HIDE DEF S
  <1>3. Nat \subseteq S
    BY <1>1, <1>2, SetInduction
  <1> QED
    BY <1>3 DEF S, SameUpto

LEMMA FlattenSeqAppend ==
  ASSUME NEW T, NEW seqs \in Seq(Seq(T)), NEW x \in Seq(T)
  PROVE  FlattenSeq(Append(seqs, x)) = FlattenSeq(seqs) \o x
  <1> DEFINE n == Len(seqs)
             t == Append(seqs, x)
  <1>1. /\ n \in Nat /\ t \in Seq(Seq(T)) /\ Len(t) = n + 1 /\ t[n + 1] = x
        /\ \A i \in 1..n : seqs[i] = t[i]
    BY AppendProperties, LenProperties
  <1> HIDE DEF t
  <1>2. PICK g : Flattens(g, t, n + 1) /\ FlattenSeq(t) = g[n + 1]
    <2>1. Len(t) \in Nat /\ Len(t) # 0
      BY <1>1
    <2>2. \E g : Flattens(g, t, Len(t)) /\ FlattenSeq(t) = g[Len(t)]
      BY <2>1, FlattenSeqUnfolds
    <2> QED
      BY <1>1, <2>2
  <1>3. g[n + 1] = IF n + 1 = 1 THEN x ELSE g[n] \o x
    <2>1. PICK j \in 1..(n + 1) : j = n + 1
      BY <1>1
    <2>2. g[j] = IF j = 1 THEN t[j] ELSE g[j - 1] \o t[j]
      BY <1>2 DEF Flattens
    <2>3. j - 1 = n
      BY <1>1, <2>1
    <2> QED
      BY <1>1, <2>1, <2>2, <2>3
  <1>4. CASE n = 0
    <2>1. seqs = <<>>
      BY <1>4, EmptySeq
    <2>2. FlattenSeq(seqs) = <<>>
      BY <1>4, <2>1 DEF FlattenSeq
    <2>3. <<>> \o x = x
      BY ConcatEmptySeq
    <2> QED
      BY <1>2, <1>3, <1>4, <2>2, <2>3 DEF t
  <1>5. CASE n # 0
    <2>1. PICK f : Flattens(f, seqs, n) /\ FlattenSeq(seqs) = f[n]
      BY <1>1, <1>5, FlattenSeqUnfolds
    <2>2. PICK m \in Nat : m = n + 1
      BY <1>1
    <2>3. n <= m /\ n \in 1..n /\ n + 1 # 1 /\ Flattens(g, t, m)
      BY <1>1, <1>2, <1>5, <2>2
    <2>4. SameUpto(f, g, n)
      <3>1. n \in Nat /\ SameUpto(seqs, t, n)
        BY <1>1 DEF SameUpto
      <3> QED
        BY <2>1, <2>3, <3>1, FlattensAgree
    <2>5. f[n] = g[n]
      BY <2>3, <2>4 DEF SameUpto
    <2>6. g[n + 1] = g[n] \o x
      BY <1>3, <2>3
    <2>7. FlattenSeq(t) = FlattenSeq(seqs) \o x
      BY <1>2, <2>1, <2>5, <2>6
    <2> QED
      BY <2>7 DEF t
  <1> QED
    BY <1>4, <1>5

(* s is a beginning of t. *)
Starts(s, t) == Len(s) <= Len(t) /\ \A i \in 1..Len(s) : s[i] = t[i]

(* The beginning of what is flattened gives a beginning. *)
LEMMA FlattenSeqBegins ==
  ASSUME NEW T, NEW seqs \in Seq(Seq(T)), NEW n \in 0..Len(seqs)
  PROVE  FlattenSeq(SubSeq(seqs, 1, n)) \in Seq(T)
         /\ Starts(FlattenSeq(SubSeq(seqs, 1, n)), FlattenSeq(seqs))
  <1> DEFINE Upto(k) == FlattenSeq(SubSeq(seqs, 1, k))
             Good(k) == Starts(Upto(n), Upto(k))
             S == {j \in Nat : n + j <= Len(seqs) => Good(n + j)}
  <1>1. Len(seqs) \in Nat /\ n \in Nat
    BY LenProperties
  <1>2. ASSUME NEW k \in 0..Len(seqs)
        PROVE  Upto(k) \in Seq(T) /\ Len(Upto(k)) \in Nat
    <2>1. SubSeq(seqs, 1, k) \in Seq(Seq(T))
      BY CutInTwo
    <2>2. FlattenSeq(SubSeq(seqs, 1, k)) \in Seq(T)
      BY <2>1, FlattenSeqElements
    <2> QED
      BY <2>2, LenProperties
  <1>3. ASSUME NEW k \in Nat, NEW l \in Nat, l = k + 1, l <= Len(seqs)
        PROVE  Upto(l) = Upto(k) \o seqs[l] /\ seqs[l] \in Seq(T)
    <2>1. SubSeq(seqs, 1, l) = Append(SubSeq(seqs, 1, k), seqs[l])
      <3>1. /\ k \in 0..Len(seqs) /\ l \in 0..Len(seqs) /\ l \in 1..Len(seqs)
            /\ seqs[l] \in Seq(T)
        BY <1>1, <1>3
      <3>2. /\ SubSeq(seqs, 1, k) \in Seq(Seq(T)) /\ Len(SubSeq(seqs, 1, k)) = k
            /\ \A j \in 1..k : SubSeq(seqs, 1, k)[j] = seqs[j]
        BY <3>1, CutInTwo
      <3>3. /\ SubSeq(seqs, 1, l) \in Seq(Seq(T)) /\ Len(SubSeq(seqs, 1, l)) = l
            /\ \A j \in 1..l : SubSeq(seqs, 1, l)[j] = seqs[j]
        BY <3>1, CutInTwo
      <3> DEFINE a == SubSeq(seqs, 1, k)
                 b == SubSeq(seqs, 1, l)
                 c == Append(a, seqs[l])
      <3> HIDE DEF a, b
      <3>4. /\ c \in Seq(Seq(T)) /\ Len(c) = k + 1 /\ c[k + 1] = seqs[l]
            /\ \A j \in 1..k : c[j] = a[j]
        BY <3>1, <3>2, AppendProperties DEF a
      <3> HIDE DEF c
      <3>5. \A j \in 1..l : j \in 1..k \/ j = k + 1
        BY <1>3
      <3>6. \A j \in 1..l : c[j] = b[j]
        BY <1>3, <3>2, <3>3, <3>4, <3>5 DEF a, b
      <3>7. Len(b) = Len(c) /\ b \in Seq(Seq(T))
        BY <1>3, <3>3, <3>4 DEF b
      <3>8. b = c
        BY <3>3, <3>4, <3>6, <3>7, SeqEqual DEF b
      <3> QED
        BY <3>8 DEF a, b, c
    <2>2. seqs[l] \in Seq(T) /\ SubSeq(seqs, 1, k) \in Seq(Seq(T))
      <3>1. k \in 0..Len(seqs) /\ l \in 1..Len(seqs)
        BY <1>1, <1>3
      <3> QED
        BY <3>1, CutInTwo
    <2>3. FlattenSeq(Append(SubSeq(seqs, 1, k), seqs[l])) = Upto(k) \o seqs[l]
      BY <2>2, FlattenSeqAppend
    <2> QED
      BY <2>1, <2>2, <2>3
  <1>4. SubSeq(seqs, 1, Len(seqs)) = seqs
    BY SubSeqFull
  <1> HIDE DEF Upto
  <1>a. Good(n + 0)
    <2>1. n + 0 = n /\ Len(Upto(n)) \in Nat
      BY <1>1, <1>2
    <2> QED
      BY <2>1 DEF Starts
  <1> HIDE DEF Good
  <1>5. 0 \in S
    BY <1>a
  <1>6. ASSUME NEW j \in Nat, j \in S PROVE j + 1 \in S
    <2> SUFFICES ASSUME n + (j + 1) <= Len(seqs) PROVE Good(n + (j + 1))
      OBVIOUS
    <2>1. PICK k \in Nat, l \in Nat : k = n + j /\ l = k + 1
      BY <1>1
    <2>2. n + (j + 1) = l /\ l <= Len(seqs) /\ k <= Len(seqs) /\ k \in 0..Len(seqs)
      BY <1>1, <2>1
    <2>3. Upto(l) = Upto(k) \o seqs[l] /\ seqs[l] \in Seq(T)
      BY <1>3, <2>1, <2>2
    <2>4. Starts(Upto(n), Upto(k))
      BY <1>6, <2>1, <2>2 DEF Good
    <2>5. /\ Upto(k) \in Seq(T) /\ Len(Upto(k)) \in Nat /\ Len(Upto(n)) \in Nat
      BY <1>2, <2>2
    <2> DEFINE a == Upto(k)
               b == seqs[l]
               c == a \o b
    <2>6. Len(c) = Len(a) + Len(b) /\ \A i \in 1..Len(a) : c[i] = a[i]
      <3>1. a \in Seq(T) /\ b \in Seq(T)
        BY <2>3, <2>5
      <3> HIDE DEF a, b
      <3> QED
        BY <3>1, ConcatAt
    <2>7. Len(b) \in Nat
      BY <2>3, LenProperties
    <2> HIDE DEF a, b, c
    <2>8. Starts(Upto(n), c)
      BY <2>4, <2>5, <2>6, <2>7 DEF Starts, a
    <2> QED
      BY <2>2, <2>3, <2>8 DEF Good, a, b, c
  <1> HIDE DEF S
  <1>7. Good(Len(seqs))
    <2>1. Len(seqs) - n \in Nat /\ n + (Len(seqs) - n) = Len(seqs)
      BY <1>1
    <2>2. Len(seqs) - n \in S
      BY <1>5, <1>6, <2>1, SetInduction
    <2> QED
      BY <1>1, <2>1, <2>2 DEF S
  <1>8. Upto(n) \in Seq(T)
    BY <1>1, <1>2
  <1> QED
    BY <1>4, <1>7, <1>8 DEF Good, Upto

(* Each element of FlattenSeq has a place of its own in the sequences it is *)
(* made of: outer says in which, inner where.                              *)
Places(s, seqs, n, outer, inner) ==
  /\ \A k \in 1..Len(s) : /\ outer[k] \in 1..n
                          /\ inner[k] \in 1..Len(seqs[outer[k]])
                          /\ s[k] = seqs[outer[k]][inner[k]]
  /\ \A k, l \in 1..Len(s) : outer[k] = outer[l] /\ inner[k] = inner[l] => k = l

LEMMA FlattenSeqPlaces ==
  ASSUME NEW T, NEW seqs \in Seq(Seq(T))
  PROVE  /\ FlattenSeq(seqs) \in Seq(T)
         /\ \E outer, inner : Places(FlattenSeq(seqs), seqs, Len(seqs), outer, inner)
  <1>1. Len(seqs) \in Nat /\ \A i \in 1..Len(seqs) : seqs[i] \in Seq(T) /\ Len(seqs[i]) \in Nat
    OBVIOUS
  <1>2. CASE Len(seqs) = 0
    <2>1. FlattenSeq(seqs) = seqs
      BY <1>2 DEF FlattenSeq
    <2>2. Places(seqs, seqs, Len(seqs), <<>>, <<>>)
      BY <1>2 DEF Places
    <2>3. seqs \in Seq(T)
      BY <1>2, EmptySeq
    <2> QED
      BY <2>1, <2>2, <2>3
  <1>3. CASE Len(seqs) # 0
    <2>1. PICK f : Flattens(f, seqs, Len(seqs)) /\ FlattenSeq(seqs) = f[Len(seqs)]
      BY <1>1, <1>3, FlattenSeqUnfolds
    <2> DEFINE Right(k) == f[k] \in Seq(T) /\ \E outer, inner : Places(f[k], seqs, k, outer, inner)
    <2> DEFINE S == {k \in Nat : k \in 1..Len(seqs) => Right(k)}
    <2>2. 0 \in S
      OBVIOUS
    <2>3. ASSUME NEW k \in Nat, k \in S
          PROVE  k + 1 \in S
      <3> SUFFICES ASSUME k + 1 \in 1..Len(seqs) PROVE Right(k + 1)
        OBVIOUS
      <3>1. f[k + 1] = IF k + 1 = 1 THEN seqs[k + 1] ELSE f[k] \o seqs[k + 1]
        <4>1. \A i \in 1..Len(seqs) : f[i] = IF i = 1 THEN seqs[i] ELSE f[i-1] \o seqs[i]
          BY <2>1 DEF Flattens
        <4>2. (k + 1) - 1 = k
          OBVIOUS
        <4> QED
          BY <4>1, <4>2
      <3> DEFINE t == seqs[k + 1]
                 b == Len(t)
      <3>2. t \in Seq(T) /\ b \in Nat
        BY <1>1
      <3>3. CASE k = 0
        <4>1. f[k + 1] = t
          BY <3>1, <3>3
        <4> DEFINE one == [j \in 1..b |-> k + 1]
                   own == [j \in 1..b |-> j]
        <4>2. Places(t, seqs, k + 1, one, own)
          BY <3>3 DEF Places
        <4> HIDE DEF one, own, t
        <4> QED
          BY <3>2, <4>1, <4>2
      <3>4. CASE k # 0
        <4>1. k \in 1..Len(seqs) /\ k + 1 # 1
          BY <1>1, <3>4
        <4>2. f[k + 1] = f[k] \o t
          BY <3>1, <4>1
        <4>3. f[k] \in Seq(T)
          BY <2>3, <4>1
        <4>4. PICK outer, inner : Places(f[k], seqs, k, outer, inner)
          BY <2>3, <4>1
        <4> DEFINE s == f[k]
                   a == Len(s)
                   g == s \o t
                   out == [j \in 1..(a + b) |-> IF j <= a THEN outer[j] ELSE k + 1]
                   inn == [j \in 1..(a + b) |-> IF j <= a THEN inner[j] ELSE j - a]
        <4>5. a \in Nat
          BY <4>3, LenProperties
        <4>6. /\ g \in Seq(T) /\ Len(g) = a + b
              /\ \A j \in 1..(a + b) : g[j] = IF j <= a THEN s[j] ELSE t[j - a]
          BY <3>2, <4>3, ConcatProperties
        <4>7. /\ \A j \in 1..a : /\ outer[j] \in 1..k
                                 /\ inner[j] \in 1..Len(seqs[outer[j]])
                                 /\ s[j] = seqs[outer[j]][inner[j]]
              /\ \A j, l \in 1..a : outer[j] = outer[l] /\ inner[j] = inner[l] => j = l
          BY <4>4 DEF Places
        <4>8. b = Len(seqs[k + 1]) /\ t = seqs[k + 1]
          OBVIOUS
        <4> HIDE DEF s, t, a, b, g
        <4>9. ASSUME NEW j \in 1..(a + b)
              PROVE  \/ j \in 1..a /\ out[j] = outer[j] /\ inn[j] = inner[j] /\ g[j] = s[j]
                     \/ /\ j \notin 1..a /\ j - a \in 1..b
                        /\ out[j] = k + 1 /\ inn[j] = j - a /\ g[j] = t[j - a]
          BY <3>2, <4>5, <4>6
        <4> HIDE DEF out, inn
        <4>10. ASSUME NEW j \in 1..(a + b)
               PROVE  /\ out[j] \in 1..(k + 1)
                      /\ inn[j] \in 1..Len(seqs[out[j]])
                      /\ g[j] = seqs[out[j]][inn[j]]
          <5>1. CASE j \in 1..a
            BY <4>7, <4>9, <5>1, SMTT(30)
          <5>2. CASE j \notin 1..a
            BY <4>8, <4>9, <5>2
          <5> QED
            BY <5>1, <5>2
        <4>11. ASSUME NEW j \in 1..(a + b), NEW l \in 1..(a + b), out[j] = out[l], inn[j] = inn[l]
               PROVE  j = l
          <5>1. CASE j \in 1..a /\ l \in 1..a
            BY <4>7, <4>9, <4>11, <5>1
          <5>2. CASE j \notin 1..a /\ l \notin 1..a
            <6>1. j - a = l - a
              BY <4>9, <4>11, <5>2
            <6> QED
              BY <3>2, <4>5, <6>1
          <5>3. CASE j \in 1..a /\ l \notin 1..a
            <6>1. out[j] \in 1..k /\ out[l] = k + 1
              BY <4>7, <4>9, <5>3
            <6> QED
              BY <4>11, <6>1
          <5>4. CASE j \notin 1..a /\ l \in 1..a
            <6>1. out[l] \in 1..k /\ out[j] = k + 1
              BY <4>7, <4>9, <5>4
            <6> QED
              BY <4>11, <6>1
          <5> QED
            BY <5>1, <5>2, <5>3, <5>4
        <4>12. Places(g, seqs, k + 1, out, inn)
          BY <4>6, <4>10, <4>11 DEF Places
        <4>13. f[k + 1] = g
          BY <4>2 DEF g, s
        <4> QED
          BY <4>6, <4>12, <4>13
      <3> QED
        BY <3>3, <3>4
    <2> HIDE DEF S
    <2>4. Len(seqs) \in S
      BY <1>1, <2>2, <2>3, SetInduction
    <2>5. Right(Len(seqs))
      BY <1>1, <1>3, <2>4 DEF S
    <2> QED
      BY <2>1, <2>5
  <1> QED
    BY <1>2, <1>3

------------------------------------------------------------------------------
(* Picked *)

(* The function Picks recurs with. *)
Collects(f, s, places, n) ==
  f = [m \in 0..n |-> IF m = 0 THEN <<>>
                      ELSE IF m \in places THEN Append(f[m - 1], s[m]) ELSE f[m - 1]]

LEMMA CollectsExists ==
  ASSUME NEW s, NEW places, NEW n \in Nat
  PROVE  \E f : Collects(f, s, places, n)
  <1> DEFINE S == {m \in Nat : \E f : Collects(f, s, places, m)}
  <1>1. 0 \in S
    <2>1. Collects([m \in 0..0 |-> <<>>], s, places, 0)
      BY DEF Collects
    <2> QED
      BY <2>1
  <1>2. ASSUME NEW m \in Nat, m \in S PROVE m + 1 \in S
    <2>1. PICK f : Collects(f, s, places, m)
      BY <1>2
    <2> DEFINE g == [k \in 0..(m + 1) |->
                      IF k <= m THEN f[k]
                      ELSE IF k \in places THEN Append(f[m], s[k]) ELSE f[m]]
    <2>2. ASSUME NEW k \in 0..(m + 1)
          PROVE  g[k] = IF k = 0 THEN <<>>
                        ELSE IF k \in places THEN Append(g[k - 1], s[k]) ELSE g[k - 1]
      <3>1. CASE k <= m
        <4>1. k \in 0..m /\ (k # 0 => k - 1 \in 0..m /\ k - 1 \in 0..(m + 1) /\ k - 1 <= m)
          BY <3>1
        <4>2. f[k] = IF k = 0 THEN <<>>
                     ELSE IF k \in places THEN Append(f[k - 1], s[k]) ELSE f[k - 1]
          BY <2>1, <4>1 DEF Collects
        <4> QED
          BY <3>1, <4>1, <4>2
      <3>2. CASE k = m + 1
        <4>1. k # 0 /\ ~ (k <= m) /\ k - 1 = m /\ m \in 0..(m + 1)
          BY <3>2
        <4> QED
          BY <4>1
      <3> QED
        BY <3>1, <3>2
    <2>3. g = [k \in 0..(m + 1) |-> g[k]]
      OBVIOUS
    <2> HIDE DEF g
    <2>4. Collects(g, s, places, m + 1)
      BY <2>2, <2>3 DEF Collects
    <2> QED
      BY <2>4
  <1> HIDE DEF S
  <1>3. n \in S
    BY <1>1, <1>2, SetInduction
  <1> QED
    BY <1>3 DEF S

LEMMA PicksUnfold ==
  ASSUME NEW s, Len(s) \in Nat, NEW places
  PROVE  /\ Picks(s, places)[0] = <<>>
         /\ \A n \in 1..Len(s) :
              Picks(s, places)[n] = IF n \in places THEN Append(Picks(s, places)[n - 1], s[n])
                                    ELSE Picks(s, places)[n - 1]
  <1> DEFINE F == CHOOSE f : f = [m \in 0..Len(s) |-> IF m = 0 THEN <<>>
                      ELSE IF m \in places THEN Append(f[m - 1], s[m]) ELSE f[m - 1]]
  <1>1. Picks(s, places) = F
    BY DEF Picks
  <1>2. \E f : Collects(f, s, places, Len(s))
    BY CollectsExists
  <1>3. F = [m \in 0..Len(s) |-> IF m = 0 THEN <<>>
                      ELSE IF m \in places THEN Append(F[m - 1], s[m]) ELSE F[m - 1]]
    BY <1>2 DEF Collects
  <1> HIDE DEF F
  <1>4. F[0] = <<>>
    <2>1. 0 \in 0..Len(s)
      OBVIOUS
    <2> QED
      BY <1>3, <2>1
  <1>5. ASSUME NEW n \in 1..Len(s)
        PROVE  F[n] = IF n \in places THEN Append(F[n - 1], s[n]) ELSE F[n - 1]
    <2>1. n \in 0..Len(s) /\ n # 0
      OBVIOUS
    <2> QED
      BY <1>3, <2>1
  <1> QED
    BY <1>1, <1>4, <1>5

(* What has been collected at n depends on what has been looked at only.    *)
Alike(s, p, t, q, n) == \A i \in 1..n : s[i] = t[i] /\ (i \in p <=> i \in q)

LEMMA PicksAgree ==
  ASSUME NEW s, Len(s) \in Nat, NEW t, Len(t) \in Nat, NEW p, NEW q,
         NEW n \in Nat, n <= Len(s), n <= Len(t), Alike(s, p, t, q, n)
  PROVE  Picks(s, p)[n] = Picks(t, q)[n]
  <1> DEFINE Agree(m) == Picks(s, p)[m] = Picks(t, q)[m]
             S == {m \in Nat : m <= n => Agree(m)}
  <1>0. Agree(0)
    BY PicksUnfold
  <1> HIDE DEF Agree
  <1>1. 0 \in S
    BY <1>0
  <1>2. ASSUME NEW m \in Nat, m \in S PROVE m + 1 \in S
    <2> SUFFICES ASSUME m + 1 <= n PROVE Agree(m + 1)
      OBVIOUS
    <2>1. m + 1 \in 1..Len(s) /\ m + 1 \in 1..Len(t) /\ m + 1 \in 1..n /\ (m + 1) - 1 = m
      OBVIOUS
    <2>2. Picks(s, p)[m] = Picks(t, q)[m]
      <3>1. Agree(m)
        BY <1>2
      <3> QED
        BY <3>1 DEF Agree
    <2>3. Picks(s, p)[m + 1] = IF m + 1 \in p THEN Append(Picks(s, p)[m], s[m + 1])
                               ELSE Picks(s, p)[m]
      BY <2>1, PicksUnfold
    <2>4. Picks(t, q)[m + 1] = IF m + 1 \in q THEN Append(Picks(t, q)[m], t[m + 1])
                               ELSE Picks(t, q)[m]
      BY <2>1, PicksUnfold
    <2> QED
      BY <2>1, <2>2, <2>3, <2>4 DEF Agree, Alike
  <1> HIDE DEF S
  <1>3. n \in S
    BY <1>1, <1>2, SetInduction
  <1> QED
    BY <1>3 DEF S, Agree

LEMMA PicksType ==
  ASSUME NEW T, NEW s \in Seq(T), NEW p, NEW n \in 0..Len(s)
  PROVE  Picks(s, p)[n] \in Seq(T)
  <1> DEFINE Typed(m) == Picks(s, p)[m] \in Seq(T)
             S == {m \in Nat : m <= Len(s) => Typed(m)}
  <1>0. Typed(0)
    <2>1. Len(s) \in Nat /\ <<>> \in Seq(T)
      BY LenProperties, EmptySeq
    <2>2. Picks(s, p)[0] = <<>>
      BY <2>1, PicksUnfold
    <2> QED
      BY <2>1, <2>2
  <1>1. ASSUME NEW m \in Nat, m + 1 <= Len(s), Typed(m) PROVE Typed(m + 1)
    <2>1. m + 1 \in 1..Len(s) /\ (m + 1) - 1 = m /\ s[m + 1] \in T /\ Len(s) \in Nat
      BY <1>1
    <2>2. Picks(s, p)[m + 1] = IF m + 1 \in p THEN Append(Picks(s, p)[m], s[m + 1])
                               ELSE Picks(s, p)[m]
      BY <2>1, PicksUnfold
    <2> QED
      BY <1>1, <2>1, <2>2
  <1> HIDE DEF Typed
  <1>2. 0 \in S /\ \A m \in Nat : m \in S => m + 1 \in S
    BY <1>0, <1>1
  <1> HIDE DEF S
  <1>3. n \in S
    BY <1>2, SetInduction
  <1>4. Typed(n)
    BY <1>3 DEF S
  <1> QED
    BY <1>4 DEF Typed

LEMMA PickedType ==
  ASSUME NEW T, NEW s \in Seq(T), NEW p
  PROVE  Picked(s, p) \in Seq(T) /\ Len(Picked(s, p)) \in Nat
  <1>1. Len(s) \in 0..Len(s)
    BY LenProperties
  <1>2. Picked(s, p) \in Seq(T)
    BY <1>1, PicksType DEF Picked
  <1> QED
    BY <1>2, LenProperties

LEMMA PickedOfNothing ==
  ASSUME NEW p
  PROVE  Picked(<<>>, p) = <<>>
  BY PicksUnfold DEF Picked

(* Where the sequence ends in an element that is picked, or is not.         *)
LEMMA PickedOfAppend ==
  ASSUME NEW T, NEW s \in Seq(T), NEW x \in T, NEW p, NEW q,
         \A i \in 1..Len(s) : i \in p <=> i \in q
  PROVE  Picked(Append(s, x), q) = IF Len(s) + 1 \in q THEN Append(Picked(s, p), x)
                                   ELSE Picked(s, p)
  <1> DEFINE t == Append(s, x)
             n == Len(s)
  <1>1. n \in Nat /\ t \in Seq(T) /\ Len(t) = n + 1 /\ t[n + 1] = x
        /\ \A i \in 1..n : t[i] = s[i]
    BY AppendProperties, LenProperties
  <1> HIDE DEF t
  <1>2. Picks(t, q)[n] = Picks(s, p)[n]
    <2>1. /\ Len(t) \in Nat /\ n <= Len(t) /\ n <= Len(s) /\ Len(s) \in Nat
          /\ Alike(t, q, s, p, n)
      BY <1>1 DEF Alike
    <2> HIDE DEF n
    <2> QED
      BY <1>1, <2>1, PicksAgree
  <1>3. n + 1 \in 1..Len(t) /\ (n + 1) - 1 = n
    BY <1>1
  <1>4. Picks(t, q)[n + 1] = IF n + 1 \in q THEN Append(Picks(t, q)[n], t[n + 1])
                             ELSE Picks(t, q)[n]
    BY <1>1, <1>3, PicksUnfold
  <1> QED
    BY <1>1, <1>2, <1>4 DEF Picked, t

(* Everything that is picked has a place; places keep their order.          *)
Chosen(at, s, p, picked, n) ==
  /\ \A k \in 1..Len(picked) : at[k] \in 1..n /\ at[k] \in p /\ picked[k] = s[at[k]]
  /\ \A k, l \in 1..Len(picked) : k < l => at[k] < at[l]
  /\ \A i \in 1..n : i \in p => \E k \in 1..Len(picked) : at[k] = i

LEMMA PicksPlaces ==
  ASSUME NEW T, NEW s \in Seq(T), NEW p, NEW n \in 0..Len(s)
  PROVE  \E at : Chosen(at, s, p, Picks(s, p)[n], n)
  <1> DEFINE S == {m \in Nat : m <= Len(s) => \E at : Chosen(at, s, p, Picks(s, p)[m], m)}
  <1>1. 0 \in S
    <2>1. Chosen(<<>>, s, p, <<>>, 0)
      BY DEF Chosen
    <2> QED
      BY <2>1, PicksUnfold
  <1>2. ASSUME NEW m \in Nat, m \in S PROVE m + 1 \in S
    <2> SUFFICES ASSUME m + 1 <= Len(s)
                 PROVE  \E at : Chosen(at, s, p, Picks(s, p)[m + 1], m + 1)
      OBVIOUS
    <2> DEFINE old == Picks(s, p)[m]
               new == Picks(s, p)[m + 1]
    <2>1. m + 1 \in 1..Len(s) /\ (m + 1) - 1 = m /\ s[m + 1] \in T
      OBVIOUS
    <2>2. PICK at : Chosen(at, s, p, old, m)
      BY <1>2
    <2>3. old \in Seq(T) /\ Len(old) \in Nat
      BY PicksType, LenProperties
    <2>4. new = IF m + 1 \in p THEN Append(old, s[m + 1]) ELSE old
      <3>1. Len(s) \in Nat
        BY LenProperties
      <3>2. Picks(s, p)[m + 1] = IF m + 1 \in p THEN Append(Picks(s, p)[(m + 1) - 1], s[m + 1])
                                 ELSE Picks(s, p)[(m + 1) - 1]
        BY <2>1, <3>1, PicksUnfold
      <3> QED
        BY <2>1, <3>2
    <2> HIDE DEF old, new
    <2>5. CASE m + 1 \notin p
      <3>1. new = old
        BY <2>4, <2>5
      <3>2. Chosen(at, s, p, old, m + 1)
        <4>1. \A i \in 1..(m + 1) : i \in p => i \in 1..m
          BY <2>5
        <4>2. \A i \in 1..m : i \in 1..(m + 1)
          OBVIOUS
        <4> QED
          BY <2>2, <4>1, <4>2 DEF Chosen
      <3> QED
        BY <3>1, <3>2 DEF new
    <2>6. CASE m + 1 \in p
      <3> DEFINE a == Len(old)
                 to == [k \in 1..(a + 1) |-> IF k = a + 1 THEN m + 1 ELSE at[k]]
      <3>1. /\ Len(new) = a + 1 /\ new[a + 1] = s[m + 1]
            /\ \A k \in 1..a : new[k] = old[k]
        BY <2>1, <2>3, <2>4, <2>6, AppendProperties
      <3>2. a \in Nat
        BY <2>3
      <3>3. /\ to[a + 1] = m + 1
            /\ \A k \in 1..a : to[k] = at[k]
        BY <3>2
      <3>4. /\ \A k \in 1..a : at[k] \in 1..m /\ at[k] \in p /\ old[k] = s[at[k]]
            /\ \A k, l \in 1..a : k < l => at[k] < at[l]
            /\ \A i \in 1..m : i \in p => \E k \in 1..a : at[k] = i
        BY <2>2 DEF Chosen
      <3> HIDE DEF to, a
      <3>5. \A k \in 1..(a + 1) : k = a + 1 \/ k \in 1..a
        BY <3>2
      <3>6. ASSUME NEW k \in 1..(a + 1)
            PROVE  to[k] \in 1..(m + 1) /\ to[k] \in p /\ new[k] = s[to[k]]
        <4>1. CASE k = a + 1
          BY <2>6, <3>1, <3>3, <4>1
        <4>2. CASE k \in 1..a
          <5>1. to[k] = at[k] /\ new[k] = old[k]
            BY <3>1, <3>3, <4>2
          <5>2. at[k] \in 1..m /\ at[k] \in p /\ old[k] = s[at[k]]
            BY <3>4, <4>2
          <5> QED
            BY <5>1, <5>2
        <4> QED
          BY <3>5, <4>1, <4>2
      <3>7. ASSUME NEW k \in 1..(a + 1), NEW l \in 1..(a + 1), k < l
            PROVE  to[k] < to[l]
        <4>1. k \in 1..a /\ to[k] = at[k] /\ at[k] \in 1..m
          BY <3>2, <3>3, <3>4, <3>7
        <4>2. CASE l = a + 1
          BY <3>3, <4>1, <4>2
        <4>3. CASE l \in 1..a
          BY <3>3, <3>4, <3>7, <4>1, <4>3
        <4> QED
          BY <3>5, <4>2, <4>3
      <3>8. ASSUME NEW i \in 1..(m + 1), i \in p
            PROVE  \E k \in 1..(a + 1) : to[k] = i
        <4>1. CASE i = m + 1
          BY <3>2, <3>3, <4>1
        <4>2. CASE i # m + 1
          <5>1. PICK k \in 1..a : at[k] = i
            BY <3>4, <3>8, <4>2
          <5> QED
            BY <3>2, <3>3, <5>1
        <4> QED
          BY <4>1, <4>2
      <3>9. Chosen(to, s, p, new, m + 1)
        BY <3>1, <3>6, <3>7, <3>8 DEF Chosen
      <3> QED
        BY <3>9 DEF new
    <2> QED
      BY <2>5, <2>6
  <1> HIDE DEF S
  <1>3. n \in S
    BY <1>1, <1>2, SetInduction
  <1> QED
    BY <1>3 DEF S

LEMMA PickedPlaces ==
  ASSUME NEW T, NEW s \in Seq(T), NEW p
  PROVE  \E at : Chosen(at, s, p, Picked(s, p), Len(s))
  <1>1. Len(s) \in 0..Len(s)
    BY LenProperties
  <1> QED
    BY <1>1, PicksPlaces DEF Picked

(* With none of its places a sequence gives nothing.                        *)
LEMMA PicksNone ==
  ASSUME NEW s, Len(s) \in Nat, NEW p, NEW n \in 0..Len(s), \A i \in 1..n : i \notin p
  PROVE  Picks(s, p)[n] = <<>>
  <1> DEFINE S == {m \in Nat : m <= n => Picks(s, p)[m] = <<>>}
  <1>1. 0 \in S
    BY PicksUnfold
  <1>2. ASSUME NEW m \in Nat, m \in S PROVE m + 1 \in S
    <2> SUFFICES ASSUME m + 1 <= n PROVE Picks(s, p)[m + 1] = <<>>
      OBVIOUS
    <2>1. m + 1 \in 1..Len(s) /\ (m + 1) - 1 = m /\ m + 1 \notin p
      OBVIOUS
    <2> QED
      BY <1>2, <2>1, PicksUnfold
  <1> HIDE DEF S
  <1>3. n \in Nat /\ Nat \subseteq S
    BY <1>1, <1>2, SetInduction
  <1> QED
    BY <1>3 DEF S

(* The places are those of one run of the sequence: Picked gives that run.  *)
IsRun(s, p, lo, hi) ==
  lo <= hi /\ hi <= Len(s) /\ \A i \in 1..Len(s) : i \in p <=> (lo < i /\ i <= hi)

LEMMA PickedRun ==
  ASSUME NEW T, NEW s \in Seq(T), NEW p, NEW lo \in Nat, NEW hi \in Nat, IsRun(s, p, lo, hi)
  PROVE  /\ Picked(s, p) \in Seq(T) /\ Len(Picked(s, p)) = hi - lo
         /\ \A j \in 1..(hi - lo) : Picked(s, p)[j] = s[lo + j]
  <1> DEFINE Copy(c, m) == c \in Seq(T) /\ Len(c) = m /\ \A j \in 1..m : c[j] = s[lo + j]
             S == {m \in Nat : m <= hi - lo => Copy(Picks(s, p)[lo + m], m)}
             R == {m \in Nat : m <= Len(s) - hi => Picks(s, p)[hi + m] = Picks(s, p)[hi]}
  <1>0. /\ Len(s) \in Nat
        /\ lo <= hi /\ hi <= Len(s)
        /\ \A i \in 1..Len(s) : i \in p <=> (lo < i /\ i <= hi)
    BY LenProperties DEF IsRun
  <1>a. Copy(Picks(s, p)[lo], 0)
    <2>1. lo \in 0..Len(s) /\ \A i \in 1..lo : i \notin p
      BY <1>0
    <2>2. Picks(s, p)[lo] = <<>>
      BY <1>0, <2>1, PicksNone
    <2>3. Copy(<<>>, 0)
      BY EmptySeq
    <2> QED
      BY <2>2, <2>3
  <1> HIDE DEF Copy
  <1>1. 0 \in S
    BY <1>a
  <1>2. ASSUME NEW m \in Nat, m \in S PROVE m + 1 \in S
    <2> SUFFICES ASSUME m + 1 <= hi - lo PROVE Copy(Picks(s, p)[lo + (m + 1)], m + 1)
      OBVIOUS
    <2> DEFINE old == Picks(s, p)[lo + m]
               new == Picks(s, p)[lo + (m + 1)]
               x == s[lo + (m + 1)]
    <2>1. /\ lo + (m + 1) \in 1..Len(s) /\ (lo + (m + 1)) - 1 = lo + m
          /\ lo + (m + 1) \in p /\ x \in T
      BY <1>0
    <2>2. old \in Seq(T) /\ Len(old) = m /\ \A j \in 1..m : old[j] = s[lo + j]
      <3>1. Copy(Picks(s, p)[lo + m], m)
        BY <1>2
      <3> QED
        BY <3>1 DEF Copy
    <2>3. new = Append(old, x)
      <3>1. PICK k \in 1..Len(s) : k = lo + (m + 1)
        BY <2>1
      <3>2. Picks(s, p)[k] = IF k \in p THEN Append(Picks(s, p)[k - 1], s[k])
                             ELSE Picks(s, p)[k - 1]
        BY <1>0, PicksUnfold
      <3> QED
        BY <2>1, <3>1, <3>2
    <2> HIDE DEF old, new
    <2>4. /\ new \in Seq(T) /\ Len(new) = m + 1 /\ new[m + 1] = x
          /\ \A j \in 1..m : new[j] = old[j]
      BY <2>1, <2>2, <2>3, AppendProperties
    <2>5. ASSUME NEW j \in 1..(m + 1) PROVE new[j] = s[lo + j]
      <3>1. CASE j = m + 1
        BY <2>4, <3>1
      <3>2. CASE j # m + 1
        <4>1. j \in 1..m
          BY <3>2
        <4> QED
          BY <2>2, <2>4, <4>1
      <3> QED
        BY <3>1, <3>2
    <2> QED
      BY <2>4, <2>5 DEF new, Copy
  <1> HIDE DEF S
  <1>b. hi - lo \in Nat /\ Len(s) - hi \in Nat
    BY <1>0
  <1>3. hi - lo \in S
    BY <1>1, <1>2, <1>b, SetInduction
  <1>4. Copy(Picks(s, p)[hi], hi - lo)
    <2>1. lo + (hi - lo) = hi
      OBVIOUS
    <2> QED
      BY <1>3, <2>1 DEF S
  <1>5. 0 \in R
    OBVIOUS
  <1>6. ASSUME NEW m \in Nat, m \in R PROVE m + 1 \in R
    <2> SUFFICES ASSUME m + 1 <= Len(s) - hi PROVE Picks(s, p)[hi + (m + 1)] = Picks(s, p)[hi]
      OBVIOUS
    <2>1. hi + (m + 1) \in 1..Len(s) /\ (hi + (m + 1)) - 1 = hi + m /\ hi + (m + 1) \notin p
      BY <1>0
    <2>2. Picks(s, p)[hi + (m + 1)] = Picks(s, p)[hi + m]
      BY <1>0, <2>1, PicksUnfold
    <2> QED
      BY <1>6, <2>2
  <1> HIDE DEF R
  <1>7. Len(s) - hi \in R
    BY <1>5, <1>6, <1>b, SetInduction
  <1>8. Picks(s, p)[Len(s)] = Picks(s, p)[hi]
    <2>1. hi + (Len(s) - hi) = Len(s) /\ Len(s) - hi <= Len(s) - hi
      BY <1>0
    <2> QED
      BY <1>7, <2>1 DEF R
  <1> QED
    BY <1>4, <1>8 DEF Copy, Picked

(* With all of its places a sequence gives itself.                          *)
LEMMA PickedAll ==
  ASSUME NEW T, NEW s \in Seq(T), NEW p, \A i \in 1..Len(s) : i \in p
  PROVE  Picked(s, p) = s
  <1>1. PICK lo \in Nat, hi \in Nat : lo = 0 /\ hi = Len(s)
    BY LenProperties
  <1>2. IsRun(s, p, lo, hi)
    BY <1>1 DEF IsRun
  <1>3. /\ Picked(s, p) \in Seq(T) /\ Len(Picked(s, p)) = hi - lo
        /\ \A j \in 1..(hi - lo) : Picked(s, p)[j] = s[lo + j]
    BY <1>2, PickedRun
  <1>4. Len(Picked(s, p)) = Len(s) /\ \A j \in 1..Len(s) : Picked(s, p)[j] = s[j]
    BY <1>1, <1>3
  <1> QED
    BY <1>3, <1>4, SeqEqual

(* Where all of one set of places comes before all of another, the elements *)
(* at both are those at the one and then those at the other.                *)
LEMMA PickedInTurn ==
  ASSUME NEW T, NEW s \in Seq(T), NEW p, NEW q,
         \A i, j \in 1..Len(s) : i \in p /\ j \in q => i < j
  PROVE  Picked(s, p \cup q) = Picked(s, p) \o Picked(s, q)
  <1> DEFINE Joined(m) == Picks(s, p \cup q)[m] = Picks(s, p)[m] \o Picks(s, q)[m]
             S == {m \in Nat : m <= Len(s) => Joined(m)}
  <1>0. Len(s) \in Nat
    BY LenProperties
  <1>a. Joined(0)
    <2>1. /\ Picks(s, p \cup q)[0] = <<>> /\ Picks(s, p)[0] = <<>>
          /\ Picks(s, q)[0] = <<>>
      BY <1>0, PicksUnfold
    <2>2. <<>> \o <<>> = <<>>
      BY EmptySeq, ConcatEmptySeq
    <2> QED
      BY <2>1, <2>2
  <1> HIDE DEF Joined
  <1>1. 0 \in S
    BY <1>a
  <1>2. ASSUME NEW m \in Nat, m \in S PROVE m + 1 \in S
    <2> SUFFICES ASSUME m + 1 <= Len(s) PROVE Joined(m + 1)
      OBVIOUS
    <2> SUFFICES Picks(s, p \cup q)[m + 1] = Picks(s, p)[m + 1] \o Picks(s, q)[m + 1]
      BY DEF Joined
    <2> DEFINE a == Picks(s, p)[m]
               b == Picks(s, q)[m]
               c == Picks(s, p \cup q)[m]
               x == s[m + 1]
    <2>1. m + 1 \in 1..Len(s) /\ (m + 1) - 1 = m /\ x \in T
      OBVIOUS
    <2>2. a \in Seq(T) /\ b \in Seq(T)
      BY PicksType
    <2>3. c = a \o b
      <3>1. Joined(m)
        BY <1>2
      <3> QED
        BY <3>1 DEF Joined
    <2>4. /\ Picks(s, p)[m + 1] = IF m + 1 \in p THEN Append(a, x) ELSE a
          /\ Picks(s, q)[m + 1] = IF m + 1 \in q THEN Append(b, x) ELSE b
          /\ Picks(s, p \cup q)[m + 1] = IF m + 1 \in p \cup q THEN Append(c, x) ELSE c
      BY <1>0, <2>1, PicksUnfold
    <2>5. m + 1 \in p => b = <<>>
      <3>1. m + 1 \in p => \A i \in 1..m : i \notin q
        BY <2>1
      <3> QED
        BY <1>0, <3>1, PicksNone
    <2>6. m + 1 \in p => m + 1 \notin q
      BY <2>1
    <2> HIDE DEF a, b, c, x
    <2>7. CASE m + 1 \in p
      <3>1. c = a /\ b = <<>>
        BY <2>2, <2>3, <2>5, <2>7, ConcatEmptySeq
      <3>2. Append(a, x) \o <<>> = Append(a, x)
        BY <2>1, <2>2, AppendProperties, ConcatEmptySeq
      <3> QED
        BY <2>4, <2>6, <2>7, <3>1, <3>2
    <2>8. CASE m + 1 \in q
      <3>1. m + 1 \notin p
        BY <2>6, <2>8
      <3>2. Append(a \o b, x) = a \o Append(b, x)
        <4> DEFINE z == <<x>>
        <4>1. z \in Seq(T) /\ a \o b \in Seq(T) /\ x \in T
          BY <2>1, <2>2, ConcatProperties
        <4>2. Append(a \o b, x) = (a \o b) \o z
          BY <4>1, AppendIsConcat
        <4>3. Append(b, x) = b \o z
          BY <2>2, <4>1, AppendIsConcat
        <4> HIDE DEF z
        <4>4. (a \o b) \o z = a \o (b \o z)
          BY <2>2, <4>1, ConcatAssociative
        <4> QED
          BY <4>2, <4>3, <4>4
      <3> QED
        BY <2>3, <2>4, <2>8, <3>1, <3>2
    <2>9. CASE m + 1 \notin p /\ m + 1 \notin q
      BY <2>3, <2>4, <2>9
    <2> QED
      BY <2>7, <2>8, <2>9
  <1> HIDE DEF S
  <1>3. Len(s) \in S
    BY <1>0, <1>1, <1>2, SetInduction
  <1>4. Joined(Len(s))
    BY <1>0, <1>3 DEF S
  <1> QED
    BY <1>4 DEF Joined, Picked
===============================================================================
