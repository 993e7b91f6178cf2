----------------------------- MODULE SeqLemmas -----------------------------
(***************************************************************************)
(* Facts about the lists of the models: a node taken out of a list, a node *)
(* put at its head, the least of some indices.                             *)
(***************************************************************************)
EXTENDS Integers, Sequences, SequencesExt, SequenceTheorems, WellFoundedInduction, TLAPS

\* A set of natural numbers that is not empty has a least element.
LEMMA Least ==
    ASSUME NEW S, S \subseteq Nat, S # {}
    PROVE  \E x \in S : \A y \in S : x <= y
  <1>1. PICK x \in S : \A y \in S : ~(<<y, x>> \in OpToRel(<, Nat))
    BY WFMin, NatLessThanWellFounded
  <1>2. \A y \in S : ~(y < x)
    BY <1>1 DEF OpToRel
  <1> QED BY <1>2

\* Min returns it.
LEMMA MinLeast ==
    ASSUME NEW S, S \subseteq Nat, S # {}
    PROVE  Min(S) \in S /\ \A y \in S : Min(S) <= y
  BY Least DEF Min

\* RemoveAt takes out one element and moves the later ones up.
LEMMA RemoveAtIs ==
    ASSUME NEW X, NEW s \in Seq(X), NEW i \in 1..Len(s)
    PROVE  /\ RemoveAt(s, i) \in Seq(X)
           /\ Len(RemoveAt(s, i)) = Len(s) - 1
           /\ \A j \in 1..(Len(s) - 1) : RemoveAt(s, i)[j] = IF j < i THEN s[j] ELSE s[j + 1]
  <1> DEFINE a == SubSeq(s, 1, i - 1)  b == SubSeq(s, i + 1, Len(s))
  <1>1. Len(s) \in Nat /\ \A j \in 1..Len(s) : s[j] \in X
    BY LenProperties
  <1>2. /\ a \in Seq(X) /\ Len(a) = i - 1
        /\ \A j \in 1..(i - 1) : a[j] = s[j]
    <2>1. i - 1 \in Int /\ \A j \in 1..(i - 1) : s[j] \in X
      BY <1>1
    <2>2. /\ SubSeq(s, 1, i - 1) \in Seq(X)
          /\ Len(SubSeq(s, 1, i - 1)) = IF 1 <= i - 1 THEN (i - 1) - 1 + 1 ELSE 0
          /\ \A j \in 1..((i - 1) - 1 + 1) : SubSeq(s, 1, i - 1)[j] = s[1 + j - 1]
      BY <2>1, SubSeqProperties
    <2> QED BY <1>1, <2>2
  <1>3. /\ b \in Seq(X) /\ Len(b) = Len(s) - i
        /\ \A j \in 1..(Len(s) - i) : b[j] = s[i + j]
    <2>1. i + 1 \in Int /\ Len(s) \in Int /\ \A j \in (i + 1)..Len(s) : s[j] \in X
      BY <1>1
    <2>2. /\ SubSeq(s, i + 1, Len(s)) \in Seq(X)
          /\ Len(SubSeq(s, i + 1, Len(s))) = IF i + 1 <= Len(s) THEN Len(s) - (i + 1) + 1 ELSE 0
          /\ \A j \in 1..(Len(s) - (i + 1) + 1) : SubSeq(s, i + 1, Len(s))[j] = s[(i + 1) + j - 1]
      BY <2>1, SubSeqProperties
    <2>3. \A j \in 1..(Len(s) - i) : (i + 1) + j - 1 = i + j
      BY <1>1
    <2> QED BY <1>1, <2>2, <2>3
  <1> HIDE DEF a, b
  <1>4. /\ a \o b \in Seq(X)
        /\ Len(a \o b) = Len(a) + Len(b)
        /\ \A j \in 1..(Len(a) + Len(b)) : (a \o b)[j] = IF j <= Len(a) THEN a[j] ELSE b[j - Len(a)]
    BY <1>2, <1>3, ConcatProperties
  <1>5. RemoveAt(s, i) = a \o b
    BY DEF RemoveAt, a, b
  <1>6. Len(a) + Len(b) = Len(s) - 1
    BY <1>1, <1>2, <1>3
  <1>7. \A j \in 1..(Len(s) - 1) : (a \o b)[j] = IF j < i THEN s[j] ELSE s[j + 1]
    <2> SUFFICES ASSUME NEW j \in 1..(Len(s) - 1)
                 PROVE  (a \o b)[j] = IF j < i THEN s[j] ELSE s[j + 1]
      OBVIOUS
    <2>1. CASE j < i
      <3>1. j <= Len(a) /\ a[j] = s[j]
        BY <1>1, <1>2, <2>1
      <3> QED BY <1>4, <1>6, <2>1, <3>1
    <2>2. CASE ~(j < i)
      <3>1. ~(j <= Len(a)) /\ j - Len(a) = j - (i - 1)
        BY <1>1, <1>2, <2>2
      <3>2. j - (i - 1) \in 1..(Len(s) - i) /\ i + (j - (i - 1)) = j + 1
        BY <1>1, <2>2
      <3>3. b[j - (i - 1)] = s[j + 1]
        BY <1>3, <3>2
      <3> QED BY <1>4, <1>6, <2>2, <3>1, <3>3
    <2> QED BY <2>1, <2>2
  <1> QED BY <1>4, <1>5, <1>6, <1>7

-----------------------------------------------------------------------------
(* Lists without repetitions.                                              *)

Elems(s)    == {s[i] : i \in 1..Len(s)}
NoRepeat(s) == \A i, j \in 1..Len(s) : s[i] = s[j] => i = j

\* The empty list.
LEMMA EmptyList == Elems(<<>>) = {} /\ NoRepeat(<<>>)
  BY DEF Elems, NoRepeat

\* Taking out a node takes out its element and no other.
LEMMA RemoveAtElems ==
    ASSUME NEW X, NEW s \in Seq(X), NEW i \in 1..Len(s), NoRepeat(s)
    PROVE  /\ RemoveAt(s, i) \in Seq(X)
           /\ NoRepeat(RemoveAt(s, i))
           /\ Elems(RemoveAt(s, i)) = Elems(s) \ {s[i]}
  <1> DEFINE r == RemoveAt(s, i)
  <1>1. /\ r \in Seq(X) /\ Len(r) = Len(s) - 1
        /\ \A j \in 1..(Len(s) - 1) : r[j] = IF j < i THEN s[j] ELSE s[j + 1]
    BY RemoveAtIs
  <1>2. Len(s) \in Nat
    BY LenProperties
  <1> HIDE DEF r
  <1>3. NoRepeat(r)
    <2> SUFFICES ASSUME NEW j \in 1..Len(r), NEW k \in 1..Len(r), r[j] = r[k]
                 PROVE  j = k
      BY DEF NoRepeat
    <2>1. r[j] = (IF j < i THEN s[j] ELSE s[j + 1]) /\ r[k] = (IF k < i THEN s[k] ELSE s[k + 1])
      BY <1>1
    <2>2. /\ j \in 1..Len(s) /\ j + 1 \in 1..Len(s) /\ k \in 1..Len(s) /\ k + 1 \in 1..Len(s)
      BY <1>1, <1>2
    <2>3. PICK m \in 1..Len(s) : m = (IF j < i THEN j ELSE j + 1) /\ r[j] = s[m]
      BY <2>1, <2>2
    <2>4. PICK n \in 1..Len(s) : n = (IF k < i THEN k ELSE k + 1) /\ r[k] = s[n]
      BY <2>1, <2>2
    <2>5. m = n
      BY <2>3, <2>4 DEF NoRepeat
    <2> QED BY <1>1, <1>2, <2>3, <2>4, <2>5
  <1>4. ASSUME NEW x \in Elems(r) PROVE x \in Elems(s) \ {s[i]}
    <2>1. PICK j \in 1..(Len(s) - 1) : x = r[j]
      BY <1>1, <1>4 DEF Elems
    <2>2. PICK k \in 1..Len(s) : k # i /\ x = s[k]
      <3>1. CASE j < i
        BY <1>1, <1>2, <2>1, <3>1
      <3>2. CASE ~(j < i)
        <4>1. j + 1 \in 1..Len(s) /\ j + 1 # i /\ x = s[j + 1]
          BY <1>1, <1>2, <2>1, <3>2
        <4> QED BY <4>1
      <3> QED BY <3>1, <3>2
    <2> QED BY <2>2 DEF Elems, NoRepeat
  <1>5. ASSUME NEW x \in Elems(s) \ {s[i]} PROVE x \in Elems(r)
    <2>1. PICK k \in 1..Len(s) : x = s[k] /\ k # i
      BY <1>5 DEF Elems
    <2>2. CASE k < i
      <3>1. k \in 1..Len(r) /\ r[k] = x
        BY <1>1, <1>2, <2>1, <2>2
      <3> QED BY <3>1 DEF Elems
    <2>3. CASE ~(k < i)
      <3>1. k - 1 \in 1..Len(r) /\ ~(k - 1 < i) /\ (k - 1) + 1 = k
        BY <1>1, <1>2, <2>1, <2>3
      <3>2. r[k - 1] = x
        BY <1>1, <2>1, <3>1
      <3> QED BY <3>1, <3>2 DEF Elems
    <2> QED BY <1>2, <2>2, <2>3
  <1> QED BY <1>1, <1>3, <1>4, <1>5 DEF r

\* A new node at the head of the list.
LEMMA PrependElems ==
    ASSUME NEW X, NEW s \in Seq(X), NEW x \in X
    PROVE  /\ <<x>> \o s \in Seq(X)
           /\ Elems(<<x>> \o s) = Elems(s) \cup {x}
           /\ NoRepeat(s) /\ x \notin Elems(s) => NoRepeat(<<x>> \o s)
  <1> DEFINE r == <<x>> \o s
  <1>1. <<x>> \in Seq(X) /\ Len(<<x>>) = 1 /\ <<x>>[1] = x
    OBVIOUS
  <1>2. Len(s) \in Nat
    BY LenProperties
  <1>3. /\ r \in Seq(X) /\ Len(r) = 1 + Len(s)
        /\ \A j \in 1..(1 + Len(s)) : r[j] = IF j <= 1 THEN <<x>>[j] ELSE s[j - 1]
    BY <1>1, ConcatProperties
  <1>4. r[1] = x /\ \A j \in 1..Len(s) : r[j + 1] = s[j]
    <2>1. 1 \in 1..(1 + Len(s)) /\ \A j \in 1..Len(s) : j + 1 \in 1..(1 + Len(s))
                                     /\ ~(j + 1 <= 1) /\ (j + 1) - 1 = j
      BY <1>2
    <2> QED BY <1>1, <1>3, <2>1
  <1> HIDE DEF r
  <1>5. \A k \in 1..Len(r) : k = 1 \/ \E j \in 1..Len(s) : k = j + 1
    <2> SUFFICES ASSUME NEW k \in 1..Len(r), k # 1
                 PROVE  \E j \in 1..Len(s) : k = j + 1
      OBVIOUS
    <2>1. k - 1 \in 1..Len(s) /\ k = (k - 1) + 1
      BY <1>2, <1>3
    <2> QED BY <2>1
  <1>6. \A j \in 1..Len(s) : j + 1 \in 1..Len(r)
    BY <1>2, <1>3
  <1>7. 1 \in 1..Len(r)
    BY <1>2, <1>3
  <1>8. Elems(r) = Elems(s) \cup {x}
    <2>1. ASSUME NEW y \in Elems(r) PROVE y \in Elems(s) \cup {x}
      <3>1. PICK k \in 1..Len(r) : y = r[k]
        BY <2>1 DEF Elems
      <3>2. CASE k = 1
        BY <1>4, <3>1, <3>2
      <3>3. CASE k # 1
        <4>1. PICK j \in 1..Len(s) : k = j + 1
          BY <1>5, <3>3
        <4> QED BY <1>4, <3>1, <4>1 DEF Elems
      <3> QED BY <3>2, <3>3
    <2>2. ASSUME NEW y \in Elems(s) PROVE y \in Elems(r)
      <3>1. PICK j \in 1..Len(s) : y = s[j]
        BY <2>2 DEF Elems
      <3>2. j + 1 \in 1..Len(r) /\ y = r[j + 1]
        BY <1>4, <1>6, <3>1
      <3> QED BY <3>2 DEF Elems
    <2>3. x \in Elems(r)
      BY <1>4, <1>7 DEF Elems
    <2> QED BY <2>1, <2>2, <2>3
  <1>9. NoRepeat(s) /\ x \notin Elems(s) => NoRepeat(r)
    <2> SUFFICES ASSUME NoRepeat(s), x \notin Elems(s),
                        NEW j \in 1..Len(r), NEW k \in 1..Len(r), r[j] = r[k]
                 PROVE  j = k
      BY DEF NoRepeat
    <2>1. CASE j = 1 /\ k = 1
      BY <2>1
    <2>2. CASE j # 1 /\ k # 1
      <3>1. PICK m \in 1..Len(s) : j = m + 1
        BY <1>5, <2>2
      <3>2. PICK n \in 1..Len(s) : k = n + 1
        BY <1>5, <2>2
      <3>3. s[m] = s[n]
        BY <1>4, <3>1, <3>2
      <3> QED BY <3>1, <3>2, <3>3 DEF NoRepeat
    <2>3. ASSUME NEW m \in 1..Len(s), r[m + 1] = x PROVE FALSE
      BY <1>4, <2>3 DEF Elems
    <2> QED BY <1>4, <1>5, <2>1, <2>2, <2>3
  <1> QED BY <1>3, <1>8, <1>9 DEF r

\* A new node at the end of the list.
LEMMA AppendElems ==
    ASSUME NEW X, NEW s \in Seq(X), NEW x \in X
    PROVE  /\ Append(s, x) \in Seq(X)
           /\ Elems(Append(s, x)) = Elems(s) \cup {x}
           /\ NoRepeat(s) /\ x \notin Elems(s) => NoRepeat(Append(s, x))
  <1> DEFINE r == Append(s, x)  n == Len(s)
  <1>1. /\ n \in Nat /\ r \in Seq(X) /\ Len(r) = n + 1
        /\ \A i \in 1..n : r[i] = s[i]
    BY AppendProperties, LenProperties
  <1>2. r[n + 1] = x
    BY AppendProperties
  <1> HIDE DEF r, n
  <1>3. 1..(n + 1) = 1..n \cup {n + 1} /\ n + 1 \notin 1..n
    BY <1>1
  <1>4. Elems(r) = Elems(s) \cup {x}
    BY <1>1, <1>2, <1>3 DEF Elems, n
  <1>5. NoRepeat(s) /\ x \notin Elems(s) => NoRepeat(r)
    BY <1>1, <1>2, <1>3 DEF NoRepeat, Elems, n
  <1> QED BY <1>1, <1>4, <1>5 DEF r

-----------------------------------------------------------------------------
(* Folds, and induction up to a number.                                    *)

\* The greatest of the first numbers.
LEMMA MaxIs ==
    ASSUME NEW m \in Nat \ {0}, NEW s \in SUBSET (1..m), m \in s
    PROVE  Max(s) = m
  <1>1. \A y \in s : m >= y
    OBVIOUS
  <1>2. \A x \in s : (\A y \in s : x >= y) => x = m
    OBVIOUS
  <1> QED BY <1>1, <1>2 DEF Max

\* What a fold computes on the way, as a function of the elements that are left.
Folds(g, n, base, step) ==
    \A s \in SUBSET (1..n) : g[s] = IF s = {} THEN base ELSE step[<<Max(s), g[s \ {Max(s)}]>>]

\* There is such a function, by induction on the number of elements.
LEMMA FoldExists ==
    ASSUME NEW n \in Nat, NEW V, NEW base \in V, NEW step \in [(1..n) \X V -> V]
    PROVE  \E g \in [SUBSET (1..n) -> V] : Folds(g, n, base, step)
  <1> DEFINE P(m) == \E g \in [SUBSET (1..m) -> V] : Folds(g, m, base, step)
             Bad == {m \in 0..n : ~P(m)}
  <1>1. P(0)
    <2> DEFINE g == [s \in SUBSET (1..0) |-> base]
    <2>1. 1..0 = {}
      OBVIOUS
    <2>2. \A s \in SUBSET (1..0) : s = {} /\ g[s] = base
      BY <2>1
    <2>3. g \in [SUBSET (1..0) -> V]
      OBVIOUS
    <2> HIDE DEF g
    <2> QED BY <2>2, <2>3 DEF Folds
  <1>2. ASSUME NEW m \in 1..n, P(m - 1) PROVE P(m)
    <2>1. PICK g \in [SUBSET (1..(m - 1)) -> V] : Folds(g, m - 1, base, step)
      BY <1>2
    <2> DEFINE h == [s \in SUBSET (1..m) |-> IF m \in s THEN step[<<m, g[s \ {m}]>>] ELSE g[s]]
    <2>2. m \in Nat \ {0} /\ m \in 1..n /\ 1..(m - 1) \subseteq 1..m
      OBVIOUS
    <2>3. ASSUME NEW s \in SUBSET (1..m), m \in s
          PROVE  /\ s \ {m} \in SUBSET (1..(m - 1)) /\ s # {} /\ Max(s) = m
                 /\ h[s] = step[<<m, g[s \ {m}]>>] /\ h[s \ {m}] = g[s \ {m}] /\ h[s] \in V
      <3>1. s \ {m} \in SUBSET (1..(m - 1)) /\ s # {} /\ s \ {m} \in SUBSET (1..m)
        BY <2>2, <2>3
      <3>2. Max(s) = m
        BY <2>2, <2>3, MaxIs
      <3>3. g[s \ {m}] \in V
        BY <3>1
      <3>4. step[<<m, g[s \ {m}]>>] \in V
        BY <2>2, <3>3
      <3> QED BY <2>3, <3>1, <3>2, <3>4
    <2>4. ASSUME NEW s \in SUBSET (1..m), m \notin s
          PROVE  /\ s \in SUBSET (1..(m - 1)) /\ h[s] = g[s] /\ h[s] \in V
                 /\ \A x : h[s \ {x}] = g[s \ {x}]
      <3>1. s \in SUBSET (1..(m - 1))
        BY <2>2, <2>4
      <3>2. \A x : s \ {x} \in SUBSET (1..m) /\ m \notin s \ {x}
        BY <2>4
      <3> QED BY <2>4, <3>1, <3>2
    <2>5. h \in [SUBSET (1..m) -> V]
      <3>1. \A s \in SUBSET (1..m) : h[s] \in V
        BY <2>3, <2>4
      <3> QED BY <3>1
    <2> HIDE DEF h
    <2>6. Folds(h, m, base, step)
      <3> SUFFICES ASSUME NEW s \in SUBSET (1..m)
                   PROVE  h[s] = IF s = {} THEN base ELSE step[<<Max(s), h[s \ {Max(s)}]>>]
        BY DEF Folds
      <3>1. CASE m \in s
        BY <2>3, <3>1
      <3>2. CASE m \notin s
        BY <2>1, <2>4, <3>2 DEF Folds
      <3> QED BY <3>1, <3>2
    <2> QED BY <2>5, <2>6
  <1>3. Bad = {}
    <2> SUFFICES ASSUME Bad # {} PROVE FALSE
      OBVIOUS
    <2> HIDE DEF P
    <2>0. Bad \subseteq Nat
      OBVIOUS
    <2>1. PICK m \in Bad : \A y \in Bad : m <= y
      <3> HIDE DEF Bad
      <3> QED BY <2>0, Least
    <2>2. m # 0
      BY <1>1, <2>1
    <2>3. m \in 1..n /\ m - 1 \in 0..n /\ m - 1 \notin Bad
      BY <2>1, <2>2
    <2>4. P(m - 1)
      BY <2>3
    <2> QED BY <1>2, <2>1, <2>3, <2>4
  <1> HIDE DEF P
  <1>4. P(n)
    BY <1>3
  <1> QED BY <1>4 DEF P

\* Induction over the numbers up to n, for a set of them.
LEMMA Induct ==
    ASSUME NEW n \in Nat, NEW S, 0 \in S, \A k \in 1..n : k - 1 \in S => k \in S
    PROVE  \A k \in 0..n : k \in S
  <1> DEFINE Bad == {k \in 0..n : k \notin S}
  <1> SUFFICES ASSUME Bad # {} PROVE FALSE
    OBVIOUS
  <1>1. Bad \subseteq Nat
    OBVIOUS
  <1>2. PICK m \in Bad : \A y \in Bad : m <= y
    <2> HIDE DEF Bad
    <2> QED BY <1>1, Least
  <1>3. m \in 1..n /\ m - 1 \in 0..n /\ m \notin S
    BY <1>2
  <1>4. m - 1 \notin Bad
    BY <1>2, <1>3
  <1> QED BY <1>3, <1>4

\* The greatest element of a set of the first numbers is in it.
LEMMA MaxIn ==
    ASSUME NEW n \in Nat, NEW s \in SUBSET (1..n), s # {}
    PROVE  Max(s) \in s
  <1> DEFINE T == {n - i : i \in s}
  <1>0. \A i \in s : i \in Int /\ n - i \in Nat /\ n - i \in T
    OBVIOUS
  <1>1. T \subseteq Nat /\ T # {}
    BY <1>0
  <1>2. PICK x \in T : \A y \in T : x <= y
    <2> HIDE DEF T
    <2> QED BY <1>1, Least
  <1>3. PICK i \in s : x = n - i
    BY <1>2
  <1>4. \A j \in s : i >= j
    <2> TAKE j \in s
    <2>1. n - i <= n - j /\ i \in Int /\ j \in Int
      BY <1>0, <1>2, <1>3
    <2> QED BY <2>1
  <1> QED BY <1>4 DEF Max

\* The first elements without the last of them.
LEMMA Fewer ==
    ASSUME NEW n \in Nat, NEW k \in 1..n
    PROVE  /\ 1..k \in SUBSET (1..n) /\ 1..k # {} /\ Max(1..k) = k /\ (1..k) \ {k} = 1..(k - 1)
           /\ 1..(k - 1) \in SUBSET (1..n)
  <1>1. k \in Nat \ {0} /\ k \in 1..k /\ 1..k \in SUBSET (1..k)
    OBVIOUS
  <1>2. Max(1..k) = k
    BY <1>1, MaxIs
  <1> QED BY <1>1, <1>2
=============================================================================
