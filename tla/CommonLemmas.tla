----------------------------- MODULE CommonLemmas -----------------------------
(***************************************************************************)
(* Lemmas about the operators of the libraries that the models are built   *)
(* from: least and greatest numbers, lists and their elements.             *)
(***************************************************************************)
EXTENDS Integers, Sequences, SequencesExt, FiniteSetTheorems, SequenceTheorems, TLAPS

\* A set of natural numbers that is not empty has a least element.
LEMMA MinIsLeast ==
  ASSUME NEW S \in SUBSET Nat, S # {}
  PROVE  Min(S) \in S /\ \A y \in S : Min(S) <= y
<1> DEFINE lt == {ss \in Nat \X Nat : ss[1] < ss[2]}
<1>1. IsWellFoundedOn(lt, Nat)
  BY NatLessThanWellFounded DEF OpToRel
<1> HIDE DEF lt
<1>2. PICK x \in S : \A y \in S : ~(<<y, x>> \in lt)
  BY <1>1, WFMin
<1>3. ASSUME NEW y \in S PROVE x <= y
  <2>1. <<y, x>> \in Nat \X Nat /\ <<y, x>>[1] = y /\ <<y, x>>[2] = x
    OBVIOUS
  <2>2. ~(y < x)
    BY <1>2, <2>1 DEF lt
  <2>3. QED
    BY <2>2
<1>4. QED
  BY <1>3 DEF Min

\* A finite set of natural numbers that is not empty has a greatest element.
LEMMA MaxIsGreatest ==
  ASSUME NEW S \in SUBSET Nat, S # {}, IsFiniteSet(S)
  PROVE  Max(S) \in S /\ \A y \in S : Max(S) >= y
<1> DEFINE above(x) == {y \in S : y >= x}
           T == {above(x) : x \in S}
           R == StrictSubsetOrdering(S)
<1>1. IsWellFoundedOn(R, FiniteSubsetsOf(S))
  BY FS_StrictSubsetOrderingWellFounded
<1>2. FiniteSubsetsOf(S) = SUBSET S
  BY FS_FiniteSubsetsOfFinite
<1>3. T \subseteq SUBSET S /\ T # {}
  OBVIOUS
<1>4. \E U \in T : \A V \in T : ~(<<V, U>> \in R)
  <2> DEFINE A == SUBSET S
  <2>1. IsWellFoundedOn(R, A) /\ T \subseteq A /\ T # {}
    BY <1>1, <1>2, <1>3
  <2> HIDE DEF T, R, A
  <2>2. QED
    BY <2>1, WFMin
<1>5. PICK x \in S : \A y \in S : ~(<<above(y), above(x)>> \in R)
  BY <1>4
<1>6. ASSUME NEW y \in S, y > x PROVE FALSE
  <2>1. above(y) \in SUBSET S /\ above(x) \in SUBSET S
    OBVIOUS
  <2>2. ASSUME NEW z \in above(y) PROVE z \in above(x)
    <3>1. z \in Nat /\ y \in Nat /\ x \in Nat /\ z >= y
      OBVIOUS
    <3>2. z >= x
      BY <1>6, <3>1
    <3>3. QED
      BY <3>2
  <2>3. x \in above(x) /\ x \notin above(y)
    BY <1>6
  <2>4. above(y) # above(x)
    BY <2>3
  <2> DEFINE a == above(y)
             b == above(x)
             ss == <<a, b>>
  <2> HIDE DEF a, b
  <2>5. ss \in (SUBSET S) \X (SUBSET S) /\ ss[1] = a /\ ss[2] = b
    BY <2>1 DEF a, b
  <2>6. ss[1] \subseteq ss[2] /\ ss[1] # ss[2]
    BY <2>2, <2>4, <2>5 DEF a, b
  <2> HIDE DEF ss
  <2>7. ss \in R
    BY <2>5, <2>6 DEF StrictSubsetOrdering
  <2>8. QED
    BY <1>5, <2>7 DEF ss, a, b
<1>7. \A y \in S : x >= y
  BY <1>6
<1>8. QED
  BY <1>7 DEF Max

\* A function whose domain is 1 .. n is a sequence of length n.
LEMMA FunctionIsSeq ==
  ASSUME NEW S, NEW n \in Nat, NEW g \in [1 .. n -> S]
  PROVE  g \in Seq(S) /\ Len(g) = n
OBVIOUS

\* Removing one element of a list shifts the ones behind it.
LEMMA RemoveAtProperties ==
  ASSUME NEW S, NEW s \in Seq(S), NEW i \in 1 .. Len(s)
  PROVE  /\ RemoveAt(s, i) \in Seq(S) /\ Len(RemoveAt(s, i)) = Len(s) - 1
         /\ \A j \in 1 .. Len(s) - 1 : RemoveAt(s, i)[j] = IF j < i THEN s[j] ELSE s[j + 1]
<1> DEFINE a == SubSeq(s, 1, i - 1)
           b == SubSeq(s, i + 1, Len(s))
<1>1. /\ a \in Seq(S) /\ Len(a) = i - 1 /\ \A j \in 1 .. i - 1 : a[j] = s[j]
  OBVIOUS
<1>2. /\ b \in Seq(S) /\ Len(b) = Len(s) - i /\ \A j \in 1 .. Len(s) - i : b[j] = s[i + j]
  OBVIOUS
<1> HIDE DEF a, b
<1>3. /\ a \o b \in Seq(S) /\ Len(a \o b) = Len(a) + Len(b)
      /\ \A j \in 1 .. Len(a) + Len(b) : (a \o b)[j] = IF j <= Len(a) THEN a[j] ELSE b[j - Len(a)]
  BY <1>1, <1>2, ConcatProperties
<1>4. RemoveAt(s, i) = a \o b
  BY DEF RemoveAt, a, b
<1> DEFINE r == RemoveAt(s, i)
<1> HIDE DEF r
<1>5. r \in Seq(S) /\ Len(r) = Len(s) - 1
  <2>1. Len(a) + Len(b) = Len(s) - 1
    BY <1>1, <1>2
  <2>2. QED
    BY <1>3, <1>4, <2>1 DEF r
<1>6. ASSUME NEW j \in 1 .. Len(s) - 1 PROVE r[j] = IF j < i THEN s[j] ELSE s[j + 1]
  <2>0. j \in 1 .. Len(a) + Len(b) /\ Len(s) \in Nat
    BY <1>1, <1>2
  <2>1. CASE j < i
    <3>1. r[j] = a[j] /\ j \in 1 .. i - 1
      BY <1>1, <1>3, <1>4, <2>0, <2>1 DEF r
    <3>2. QED
      BY <1>1, <2>1, <3>1
  <2>2. CASE ~(j < i)
    <3>1. r[j] = b[j - Len(a)]
      BY <1>1, <1>3, <1>4, <2>0, <2>2 DEF r
    <3>2. j - Len(a) \in 1 .. Len(s) - i /\ i + (j - Len(a)) = j + 1
      BY <1>1, <2>0, <2>2
    <3>3. QED
      BY <1>2, <2>2, <3>1, <3>2
  <2>3. QED
    BY <2>1, <2>2
<1>7. QED
  BY <1>5, <1>6 DEF r

\* Induction over the numbers up to n, for a set.
LEMMA UpToInduction ==
  ASSUME NEW n \in Nat, NEW T, 0 \in T, \A i \in 1 .. n : i - 1 \in T => i \in T
  PROVE  \A i \in 0 .. n : i \in T
<1> DEFINE out == {i \in 0 .. n : i \notin T}
<1>1. SUFFICES ASSUME out # {} PROVE FALSE
  OBVIOUS
<1>2. out \in SUBSET Nat
  OBVIOUS
<1>3. Min(out) \in out /\ \A y \in out : Min(out) <= y
  BY <1>1, <1>2, MinIsLeast
<1>4. PICK m \in out : \A y \in out : m <= y
  BY <1>3
<1>5. m \in 1 .. n /\ m - 1 \in 0 .. n /\ ~(m <= m - 1)
  BY <1>4
<1>6. m - 1 \in T
  BY <1>4, <1>5
<1>7. QED
  BY <1>4, <1>5, <1>6

\* Primitive recursion up to n.
LEMMA RecursionUpTo ==
  ASSUME NEW S, NEW a \in S, NEW n \in Nat, NEW g \in [1 .. n -> [S -> S]]
  PROVE  \E f \in [0 .. n -> S] : f[0] = a /\ \A i \in 1 .. n : f[i] = g[i][f[i - 1]]
<1> DEFINE Good(m, f) == f[0] = a /\ \A i \in 1 .. m : f[i] = g[i][f[i - 1]]
           T == {m \in 0 .. n : \E f \in [0 .. m -> S] : Good(m, f)}
<1> HIDE DEF Good
<1>1. 0 \in T
  <2> DEFINE f == [i \in 0 .. 0 |-> a]
  <2>1. f \in [0 .. 0 -> S] /\ Good(0, f)
    BY DEF Good
  <2> HIDE DEF f
  <2>2. QED
    BY <2>1
<1>2. ASSUME NEW m \in 1 .. n, m - 1 \in T PROVE m \in T
  <2>1. PICK f \in [0 .. m - 1 -> S] : Good(m - 1, f)
    BY <1>2
  <2> DEFINE v == g[m][f[m - 1]]
             h == [i \in 0 .. m |-> IF i < m THEN f[i] ELSE v]
  <2>2. v \in S
    OBVIOUS
  <2> HIDE DEF v
  <2>3. h \in [0 .. m -> S] /\ h[m] = v /\ \A i \in 0 .. m - 1 : h[i] = f[i]
    BY <2>2
  <2> HIDE DEF h
  <2>4. h[0] = a
    BY <2>1, <2>3 DEF Good
  <2>5. ASSUME NEW i \in 1 .. m PROVE h[i] = g[i][h[i - 1]]
    <3>1. h[i - 1] = f[i - 1]
      BY <2>3
    <3>2. CASE i < m
      BY <2>1, <2>3, <3>1, <3>2 DEF Good
    <3>3. CASE i = m
      BY <2>3, <3>1, <3>3 DEF v
    <3>4. QED
      BY <3>2, <3>3
  <2>6. Good(m, h)
    BY <2>4, <2>5 DEF Good
  <2>7. QED
    BY <2>3, <2>6
<1> HIDE DEF T
<1>3. \A m \in 0 .. n : m \in T
  BY <1>1, <1>2, UpToInduction
<1>4. QED
  BY <1>3 DEF T, Good

\* Two lists are the same if their lengths and their elements are.
LEMMA SameSequence ==
  ASSUME NEW S, NEW s \in Seq(S), NEW t \in Seq(S), Len(s) = Len(t), \A i \in 1 .. Len(s) : s[i] = t[i]
  PROVE  s = t
OBVIOUS

\* A concatenation, element by element.
LEMMA ConcatFacts ==
  ASSUME NEW S, NEW a \in Seq(S), NEW b \in Seq(S)
  PROVE  /\ a \o b \in Seq(S) /\ Len(a \o b) = Len(a) + Len(b)
         /\ \A i \in 1 .. Len(a) : (a \o b)[i] = a[i]
         /\ \A i \in 1 .. Len(b) : (a \o b)[Len(a) + i] = b[i]
<1>1. /\ a \o b \in Seq(S) /\ Len(a \o b) = Len(a) + Len(b)
      /\ \A i \in 1 .. Len(a) + Len(b) : (a \o b)[i] = IF i <= Len(a) THEN a[i] ELSE b[i - Len(a)]
  BY ConcatProperties
<1>2. Len(a) \in Nat /\ Len(b) \in Nat
  OBVIOUS
<1>3. ASSUME NEW i \in 1 .. Len(a) PROVE (a \o b)[i] = a[i]
  BY <1>1, <1>2
<1>4. ASSUME NEW i \in 1 .. Len(b) PROVE (a \o b)[Len(a) + i] = b[i]
  <2>1. Len(a) + i \in 1 .. Len(a) + Len(b) /\ ~(Len(a) + i <= Len(a)) /\ (Len(a) + i) - Len(a) = i
    BY <1>2
  <2>2. QED
    BY <1>1, <2>1
<1>5. QED
  BY <1>1, <1>3, <1>4

\* Concatenation is associative.
LEMMA ConcatAssoc ==
  ASSUME NEW S, NEW a \in Seq(S), NEW b \in Seq(S), NEW c \in Seq(S)
  PROVE  (a \o b) \o c = a \o (b \o c)
BY ConcatAssociative

\* All of a sequence.
LEMMA WholeSeq == ASSUME NEW S, NEW s \in Seq(S) PROVE SubSeq(s, 1, Len(s)) = s
OBVIOUS

\* What is before and what is behind a place of a list.
LEMMA SplitSeq ==
  ASSUME NEW S, NEW s \in Seq(S), NEW r \in 0 .. Len(s)
  PROVE  /\ SubSeq(s, 1, r) \in Seq(S) /\ Len(SubSeq(s, 1, r)) = r
         /\ SubSeq(s, r + 1, Len(s)) \in Seq(S) /\ Len(SubSeq(s, r + 1, Len(s))) = Len(s) - r
         /\ \A i \in 1 .. r : SubSeq(s, 1, r)[i] = s[i]
         /\ \A i \in 1 .. Len(s) - r : SubSeq(s, r + 1, Len(s))[i] = s[r + i]
         /\ SubSeq(s, 1, r) \o SubSeq(s, r + 1, Len(s)) = s
<1> DEFINE a == SubSeq(s, 1, r)
           b == SubSeq(s, r + 1, Len(s))
<1>0. Len(s) \in Nat /\ r \in Nat
  OBVIOUS
<1>1. /\ a \in Seq(S) /\ Len(a) = r /\ b \in Seq(S) /\ Len(b) = Len(s) - r
      /\ (\A i \in 1 .. r : a[i] = s[i]) /\ \A i \in 1 .. Len(s) - r : b[i] = s[r + i]
  OBVIOUS
<1> HIDE DEF a, b
<1>2. /\ a \o b \in Seq(S) /\ Len(a \o b) = Len(s)
      /\ \A i \in 1 .. Len(a) : (a \o b)[i] = a[i]
      /\ \A i \in 1 .. Len(b) : (a \o b)[Len(a) + i] = b[i]
  <2>1. r + (Len(s) - r) = Len(s)
    BY <1>0
  <2>2. QED
    BY <1>1, <2>1, ConcatFacts
<1>3. ASSUME NEW i \in 1 .. Len(s) PROVE (a \o b)[i] = s[i]
  <2>1. CASE i <= r
    BY <1>1, <1>2, <2>1
  <2>2. CASE i > r
    <3> DEFINE j == i - r
    <3>1. j \in 1 .. Len(s) - r /\ r + j = i
      BY <1>0, <2>2
    <3> HIDE DEF j
    <3>2. b[j] = s[i]
      BY <1>1, <3>1
    <3>3. (a \o b)[r + j] = b[j]
      BY <1>1, <1>2, <3>1
    <3>4. QED
      BY <3>1, <3>2, <3>3
  <2>3. QED
    BY <2>1, <2>2, <1>0, i \in Nat, i <= r \/ i > r
<1>4. a \o b = s
  BY <1>2, <1>3, SameSequence
<1>5. QED
  BY <1>1, <1>4 DEF a, b

\* The end of a concatenation.
LEMMA DropConcat ==
  ASSUME NEW S, NEW a \in Seq(S), NEW r \in Seq(S), NEW n \in 0 .. Len(a)
  PROVE  /\ SubSeq(a \o r, n + 1, Len(a \o r)) = SubSeq(a, n + 1, Len(a)) \o r
         /\ a \o r \in Seq(S) /\ n \in 0 .. Len(a \o r)
<1> DEFINE u == a \o r
           d == SubSeq(a, n + 1, Len(a))
           v == d \o r
           w == SubSeq(u, n + 1, Len(u))
<1>1. /\ u \in Seq(S) /\ Len(u) = Len(a) + Len(r)
      /\ (\A i \in 1 .. Len(a) : u[i] = a[i]) /\ \A i \in 1 .. Len(r) : u[Len(a) + i] = r[i]
  BY ConcatFacts
<1> HIDE DEF u
<1>2. d \in Seq(S) /\ Len(d) = Len(a) - n /\ \A i \in 1 .. Len(a) - n : d[i] = a[n + i]
  BY SplitSeq
<1> HIDE DEF d
<1>3. /\ v \in Seq(S) /\ Len(v) = Len(d) + Len(r)
      /\ (\A i \in 1 .. Len(d) : v[i] = d[i]) /\ \A i \in 1 .. Len(r) : v[Len(d) + i] = r[i]
  <2>1. d \in Seq(S)
    BY <1>2
  <2>2. QED
    BY <2>1, ConcatFacts
<1> HIDE DEF v
<1>4. n \in 0 .. Len(u) /\ Len(u) - n = Len(v) /\ Len(v) \in Nat /\ n \in Nat /\ Len(a) \in Nat /\ Len(r) \in Nat
      /\ Len(d) \in Nat
  BY <1>1, <1>2, <1>3
<1>5. w \in Seq(S) /\ Len(w) = Len(v) /\ \A i \in 1 .. Len(v) : w[i] = u[n + i]
  <2>1. w \in Seq(S) /\ Len(w) = Len(u) - n /\ \A i \in 1 .. Len(u) - n : w[i] = u[n + i]
    BY <1>1, <1>4, SplitSeq
  <2> HIDE DEF w
  <2>2. QED
    BY <1>4, <2>1
<1> HIDE DEF w
<1>6. ASSUME NEW i \in 1 .. Len(w) PROVE w[i] = v[i]
  <2>1. i \in 1 .. Len(v) /\ w[i] = u[n + i] /\ i \in Nat
    BY <1>4, <1>5
  <2>2. CASE i <= Len(d)
    <3>1. n + i \in 1 .. Len(a) /\ i \in 1 .. Len(d) /\ i \in 1 .. Len(a) - n
      BY <1>2, <1>4, <2>1, <2>2
    <3>2. QED
      BY <1>1, <1>2, <1>3, <2>1, <3>1
  <2>3. CASE i > Len(d)
    <3> DEFINE j == i - Len(d)
    <3>1. j \in 1 .. Len(r) /\ Len(a) + j = n + i /\ Len(d) + j = i
      BY <1>2, <1>3, <1>4, <2>1, <2>3
    <3> HIDE DEF j
    <3>2. QED
      BY <1>1, <1>3, <2>1, <3>1
  <2>4. i <= Len(d) \/ i > Len(d)
    BY <1>4, <2>1
  <2>5. QED
    BY <2>2, <2>3, <2>4
<1>7. w = v
  BY <1>3, <1>5, <1>6, SameSequence
<1>8. QED
  BY <1>1, <1>4, <1>7 DEF u, v, w, d

\* A sequence with one element more.
LEMMA AppendFacts ==
  ASSUME NEW S, NEW s \in Seq(S), NEW t \in S
  PROVE  /\ Append(s, t) \in Seq(S) /\ Len(Append(s, t)) = Len(s) + 1 /\ Append(s, t)[Len(s) + 1] = t
         /\ \A i \in 1 .. Len(s) : Append(s, t)[i] = s[i]
         /\ Front(Append(s, t)) = s /\ Last(Append(s, t)) = t
<1>1. /\ Append(s, t) \in Seq(S) /\ Len(Append(s, t)) = Len(s) + 1 /\ Append(s, t)[Len(s) + 1] = t
      /\ \A i \in 1 .. Len(s) : Append(s, t)[i] = s[i]
  OBVIOUS
<1>2. Last(Append(s, t)) = t
  BY <1>1 DEF Last
<1>3. Front(Append(s, t)) = s
  <2> DEFINE f == SubSeq(Append(s, t), 1, Len(s))
  <2>1. f \in Seq(S) /\ Len(f) = Len(s) /\ \A i \in 1 .. Len(s) : f[i] = s[i]
    BY <1>1
  <2>2. Front(Append(s, t)) = f
    BY <1>1 DEF Front
  <2> HIDE DEF f
  <2>3. f = s
    BY <2>1, SameSequence
  <2>4. QED
    BY <2>2, <2>3
<1>4. QED
  BY <1>1, <1>2, <1>3

\* A sequence without its last element.
LEMMA FrontLast ==
  ASSUME NEW S, NEW s \in Seq(S), Len(s) > 0
  PROVE  Front(s) \in Seq(S) /\ Last(s) \in S /\ s = Append(Front(s), Last(s)) /\ Len(Front(s)) = Len(s) - 1
<1> DEFINE n == Len(s)
           f == SubSeq(s, 1, n - 1)
           l == s[n]
<1>1. f \in Seq(S) /\ Len(f) = n - 1 /\ \A i \in 1 .. n - 1 : f[i] = s[i]
  <2>1. n \in Nat /\ n > 0 /\ n - 1 \in 0 .. n
    OBVIOUS
  <2>2. f \in Seq(S)
    BY <2>1
  <2>3. Len(f) = n - 1
    <3>1. \A m \in 0 .. n : Len(SubSeq(s, 1, m)) = m
      OBVIOUS
    <3>2. QED
      BY <2>1, <3>1, Zenon
  <2>4. \A i \in 1 .. n - 1 : f[i] = s[i]
    BY <2>1
  <2>5. QED
    BY <2>2, <2>3, <2>4
<1>2. l \in S /\ Front(s) = f /\ Last(s) = l /\ n \in Nat /\ n > 0
  BY DEF Front, Last
<1> HIDE DEF f, l
<1>3. /\ Append(f, l) \in Seq(S) /\ Len(Append(f, l)) = n /\ Append(f, l)[n] = l
      /\ \A i \in 1 .. n - 1 : Append(f, l)[i] = s[i]
  BY <1>1, <1>2
<1>4. \A i \in 1 .. n : Append(f, l)[i] = s[i]
  BY <1>2, <1>3 DEF l
<1>5. Append(f, l) = s
  BY <1>3, <1>4, SameSequence
<1>6. QED
  BY <1>1, <1>2, <1>5
=============================================================================
