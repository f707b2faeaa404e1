-------------------------- MODULE TextChange_proofs --------------------------
(***************************************************************************)
(* What the function Diff gives, for texts of every length over every set  *)
(* of units: a client that applies it to the old text has the new one.     *)
(*                                                                         *)
(* That Diff's CHOOSEs choose something needs the longest of the common    *)
(* stretches.  There is one because the finite sets 0 .. n are well-       *)
(* founded, a fact of the library that needs no operator as a parameter.   *)
(***************************************************************************)
EXTENDS TextChange, FiniteSetTheorems, WellFoundedInduction, SequenceTheorems, TLAPS

-----------------------------------------------------------------------------
(* The least and the greatest of a set of numbers.                         *)

LEMMA HasLeast ==
    ASSUME NEW T \in SUBSET Nat, T # {}
    PROVE  \E m \in T : \A n \in T : m <= n
<1> DEFINE Intervals == {0 .. m : m \in T}
           Order == StrictSubsetOrdering(Nat)
<1>1. Intervals \subseteq FiniteSubsetsOf(Nat)
  <2> SUFFICES ASSUME NEW m \in T PROVE 0 .. m \in FiniteSubsetsOf(Nat)
    OBVIOUS
  <2>1. IsFiniteSet(0 .. m)
    BY FS_Interval
  <2> QED
    BY <2>1 DEF FiniteSubsetsOf
<1>2. Intervals # {}
  OBVIOUS
<1>3. \E x \in Intervals : \A y \in Intervals : <<y, x>> \notin Order
  <2>1. IsWellFoundedOn(Order, FiniteSubsetsOf(Nat))
    BY FS_StrictSubsetOrderingWellFounded
  <2> HIDE DEF Intervals, Order
  <2> QED
    BY <2>1, <1>1, <1>2, WFMin
<1>4. PICK m \in T : \A n \in T : <<0 .. n, 0 .. m>> \notin Order
  BY <1>3
<1>5. ASSUME NEW n \in T, n < m PROVE FALSE
  <2>1. m \in Nat /\ n \in Nat
    OBVIOUS
  <2>2. 0 .. n \subseteq 0 .. m /\ 0 .. n # 0 .. m /\ 0 .. m \subseteq Nat
    <3>1. m \in 0 .. m /\ m \notin 0 .. n
      BY <2>1, <1>5
    <3> QED
      BY <2>1, <1>5, <3>1
  <2>3. <<0 .. n, 0 .. m>> \in Order
    BY <2>2 DEF StrictSubsetOrdering
  <2> QED
    BY <2>3, <1>4
<1> QED
  BY <1>4, <1>5

LEMMA HasGreatest ==
    ASSUME NEW b \in Nat, NEW T \in SUBSET (0 .. b), T # {}
    PROVE  \E m \in T : \A n \in T : n <= m
<1> DEFINE Rest == {b - n : n \in T}
<1>1. Rest \in SUBSET Nat /\ Rest # {}
  OBVIOUS
<1>2. PICK r \in Rest : \A q \in Rest : r <= q
  <2> HIDE DEF Rest
  <2> QED
    BY <1>1, HasLeast
<1>3. PICK m \in T : r = b - m
  BY <1>2
<1>4. ASSUME NEW n \in T PROVE n <= m
  <2>1. b - n \in Rest
    OBVIOUS
  <2>2. b - m <= b - n
    BY <2>1, <1>2, <1>3
  <2> QED
    BY <2>2
<1> QED
  BY <1>4

-----------------------------------------------------------------------------
(* What a change does to a text.                                           *)

\* What a text is made of, cut out of it.
LEMMA Cut ==
    ASSUME NEW S, NEW t \in Seq(S), NEW m \in Nat \ {0}, NEW n \in Nat, n <= Len(t)
    PROVE  /\ SubSeq(t, m, n) \in Seq(S)
           /\ Len(SubSeq(t, m, n)) = IF m <= n THEN n - m + 1 ELSE 0
           /\ \A i \in 1 .. n - m + 1 : SubSeq(t, m, n)[i] = t[m + i - 1]
<1>1. Len(t) \in Nat /\ \A i \in 1 .. Len(t) : t[i] \in S
  BY LenProperties, ElementOfSeq
<1>2. \A i \in m .. n : t[i] \in S
  BY <1>1
<1> QED
  BY <1>2, SubSeqProperties

\* The same of what begins after the first m units.
LEMMA CutAfter ==
    ASSUME NEW S, NEW t \in Seq(S), NEW m \in Nat, NEW n \in Nat, m <= n, n <= Len(t)
    PROVE  /\ SubSeq(t, m + 1, n) \in Seq(S)
           /\ Len(SubSeq(t, m + 1, n)) = n - m
           /\ \A i \in 1 .. n - m : SubSeq(t, m + 1, n)[i] = t[m + i]
<1> DEFINE k == m + 1
           cut == SubSeq(t, k, n)
<1>1. k \in Nat \ {0} /\ k = m + 1
  OBVIOUS
<1> HIDE DEF k
<1>2. /\ cut \in Seq(S)
      /\ Len(cut) = IF k <= n THEN n - k + 1 ELSE 0
      /\ \A i \in 1 .. n - k + 1 : cut[i] = t[k + i - 1]
  BY <1>1, Cut
<1> HIDE DEF cut
<1>3. Len(cut) = n - m
  BY <1>1, <1>2
<1>4. \A i \in 1 .. n - m : cut[i] = t[m + i]
  <2>1. n - k + 1 = n - m
    BY <1>1
  <2>2. \A i \in 1 .. n - m : k + i - 1 = m + i
    BY <1>1
  <2> QED
    BY <1>2, <2>1, <2>2
<1> QED
  BY <1>1, <1>2, <1>3, <1>4 DEF cut

\* Two texts that agree before p, and after e and f, differ by a change of the
\* range from p to e.
LEMMA ReplacedRange ==
    ASSUME NEW S, NEW s \in Seq(S), NEW t \in Seq(S),
           NEW p \in Nat, NEW e \in Nat, NEW f \in Nat,
           p <= e, p <= f, e <= Len(s), f <= Len(t),
           Len(s) - e = Len(t) - f,
           SamePrefix(s, t, p),
           SameSuffix(s, t, Len(s) - e)
    PROVE  Apply([start |-> p, end |-> e, newText |-> SubSeq(t, p + 1, f)], s) = t
<1> DEFINE first  == SubSeq(s, 1, p)
           middle == SubSeq(t, p + 1, f)
           last   == SubSeq(s, e + 1, Len(s))
<1>1. Len(s) \in Nat /\ Len(t) \in Nat
  BY LenProperties
<1>2. /\ first \in Seq(S) /\ Len(first) = p
      /\ \A i \in 1 .. p : first[i] = s[i]
  BY <1>1, Cut
<1>3. /\ middle \in Seq(S) /\ Len(middle) = f - p
      /\ \A i \in 1 .. f - p : middle[i] = t[p + i]
  BY CutAfter
<1>4. /\ last \in Seq(S) /\ Len(last) = Len(s) - e
      /\ \A i \in 1 .. Len(s) - e : last[i] = s[e + i]
  BY <1>1, CutAfter
<1>5. /\ first \o middle \in Seq(S) /\ Len(first \o middle) = f
      /\ \A i \in 1 .. f : (first \o middle)[i] = IF i <= p THEN first[i] ELSE middle[i - p]
  BY <1>2, <1>3, ConcatProperties
<1> DEFINE whole == (first \o middle) \o last
<1>6. /\ whole \in Seq(S) /\ Len(whole) = Len(t)
      /\ \A i \in 1 .. Len(t) : whole[i] = IF i <= f THEN (first \o middle)[i] ELSE last[i - f]
  <2>1. f + Len(last) = Len(t)
    BY <1>1, <1>4
  <2> DEFINE front == first \o middle
  <2>2. front \in Seq(S) /\ Len(front) = f /\ last \in Seq(S)
    BY <1>4, <1>5
  <2> HIDE DEF first, middle, last, front
  <2>3. /\ front \o last \in Seq(S) /\ Len(front \o last) = Len(front) + Len(last)
        /\ \A i \in 1 .. Len(front) + Len(last) : (front \o last)[i] =
              IF i <= Len(front) THEN front[i] ELSE last[i - Len(front)]
    BY <2>2, ConcatProperties
  <2>4. Len(front) + Len(last) = Len(t)
    BY <2>1, <2>2
  <2> QED
    BY <2>2, <2>3, <2>4 DEF front
<1>7. \A i \in 1 .. Len(t) : whole[i] = t[i]
  <2> HIDE DEF first, middle, last, whole
  <2> TAKE i \in 1 .. Len(t)
  <2>1. CASE i <= p
    <3>1. i \in 1 .. p /\ i \in 1 .. f /\ i <= f
      BY <2>1, <1>1
    <3>2. whole[i] = (first \o middle)[i]
      BY <3>1, <1>6
    <3>3. (first \o middle)[i] = first[i]
      BY <2>1, <3>1, <1>5
    <3>4. first[i] = s[i] /\ s[i] = t[i]
      BY <3>1, <1>2 DEF SamePrefix
    <3> QED
      BY <3>2, <3>3, <3>4
  <2>2. CASE p < i /\ i <= f
    <3>1. i - p \in 1 .. f - p /\ p + (i - p) = i /\ i \in 1 .. f /\ ~(i <= p)
      BY <2>2, <1>1
    <3>2. whole[i] = (first \o middle)[i]
      BY <2>2, <1>6
    <3>3. (first \o middle)[i] = middle[i - p]
      BY <3>1, <1>5
    <3>4. middle[i - p] = t[i]
      BY <3>1, <1>3
    <3> QED
      BY <3>2, <3>3, <3>4
  <2>3. CASE f < i
    <3>1. i - f \in 1 .. Len(s) - e
      BY <2>3, <1>1
    <3>2. last[i - f] = s[e + (i - f)]
      BY <3>1, <1>4
    <3>3. Len(t) - i \in 0 .. Len(s) - e - 1 /\ Len(s) - (Len(t) - i) = e + (i - f)
      BY <2>3, <1>1
    <3>4. s[e + (i - f)] = t[Len(t) - (Len(t) - i)]
      BY <3>3 DEF SameSuffix
    <3> QED
      BY <2>3, <3>2, <3>4, <1>1, <1>6
  <2> QED
    BY <2>1, <2>2, <2>3, <1>1
<1>8. whole = t
  BY <1>6, <1>7, SeqEqual
<1>9. Least(p, Len(s)) = p
  BY <1>1 DEF Least
<1> QED
  BY <1>8, <1>9 DEF Apply

\* Counting from behind: b units, of which the first f are left out, end like
\* a units of which the first e are left out.
LEMMA FromBehind ==
    ASSUME NEW a \in Nat, NEW b \in Nat, NEW e \in Nat, NEW f \in Nat,
           e <= a, b = f + (a - e), NEW i \in 0 .. a - e - 1
    PROVE  /\ b - i \in 1 .. f + (a - e) /\ ~(b - i <= f)
           /\ (b - i) - f \in 1 .. a - e
           /\ e + ((b - i) - f) = a - i
OBVIOUS

\* Conversely, a change of the range from p to e that gives t keeps what is
\* before and after the range.
LEMMA KeptAround ==
    ASSUME NEW S, NEW s \in Seq(S), NEW t \in Seq(S),
           NEW p \in 0 .. Len(s), NEW e \in 0 .. Len(s), NEW n \in 0 .. Len(t) - p,
           p <= e,
           Apply([start |-> p, end |-> e, newText |-> SubSeq(t, p + 1, p + n)], s) = t
    PROVE  /\ Len(t) = p + n + (Len(s) - e)
           /\ SamePrefix(s, t, p)
           /\ SameSuffix(s, t, Len(s) - e)
<1> DEFINE first  == SubSeq(s, 1, p)
           middle == SubSeq(t, p + 1, p + n)
           last   == SubSeq(s, e + 1, Len(s))
           front  == first \o middle
<1>1. Len(s) \in Nat /\ Len(t) \in Nat /\ p \in Nat /\ e \in Nat /\ n \in Nat
  BY LenProperties
<1>2. /\ first \in Seq(S) /\ Len(first) = p
      /\ \A i \in 1 .. p : first[i] = s[i]
  BY <1>1, Cut
<1>3. /\ middle \in Seq(S) /\ Len(middle) = n
  <2>1. p + n \in Nat /\ p <= p + n /\ p + n <= Len(t) /\ (p + n) - p = n
    BY <1>1
  <2> HIDE DEF first, last, front
  <2> QED
    BY <2>1, <1>1, CutAfter
<1>4. /\ last \in Seq(S) /\ Len(last) = Len(s) - e
      /\ \A i \in 1 .. Len(s) - e : last[i] = s[e + i]
  <2>1. e <= Len(s) /\ Len(s) <= Len(s)
    BY <1>1
  <2> HIDE DEF first, middle, front
  <2> QED
    BY <2>1, <1>1, CutAfter
<1>5. t = front \o last
  <2>1. Least(p, Len(s)) = p
    BY <1>1 DEF Least
  <2> QED
    BY <2>1 DEF Apply
<1> HIDE DEF first, middle, last
<1>6. /\ front \in Seq(S) /\ Len(front) = p + n
      /\ \A i \in 1 .. p : front[i] = s[i]
  <2>1. /\ front \in Seq(S) /\ Len(front) = Len(first) + Len(middle)
        /\ \A i \in 1 .. Len(first) + Len(middle) : front[i] =
              IF i <= Len(first) THEN first[i] ELSE middle[i - Len(first)]
    BY <1>2, <1>3, ConcatProperties
  <2> HIDE DEF front
  <2>2. Len(front) = p + n
    BY <2>1, <1>2, <1>3
  <2>3. ASSUME NEW i \in 1 .. p PROVE front[i] = s[i]
    <3>1. i \in 1 .. Len(first) + Len(middle) /\ i <= Len(first)
      BY <1>1, <1>2, <1>3
    <3> QED
      BY <3>1, <2>1, <1>2
  <2> QED
    BY <2>1, <2>2, <2>3
<1> HIDE DEF front
<1>7. /\ Len(t) = Len(front) + Len(last)
      /\ \A i \in 1 .. Len(front) + Len(last) :
            t[i] = IF i <= Len(front) THEN front[i] ELSE last[i - Len(front)]
  BY <1>4, <1>5, <1>6, ConcatProperties
<1>8. Len(t) = p + n + (Len(s) - e)
  BY <1>4, <1>6, <1>7
<1>9. SamePrefix(s, t, p)
  <2> SUFFICES ASSUME NEW i \in 1 .. p PROVE s[i] = t[i]
    BY DEF SamePrefix
  <2>1. i \in 1 .. Len(front) + Len(last) /\ i <= Len(front)
    BY <1>1, <1>4, <1>6
  <2> QED
    BY <2>1, <1>6, <1>7
<1>10. SameSuffix(s, t, Len(s) - e)
  <2> SUFFICES ASSUME NEW i \in 0 .. Len(s) - e - 1
               PROVE  s[Len(s) - i] = t[Len(t) - i]
    BY DEF SameSuffix
  <2>1. Len(t) = Len(front) + (Len(s) - e) /\ Len(front) \in Nat /\ e <= Len(s)
    BY <1>1, <1>6, <1>8
  <2>2. /\ Len(t) - i \in 1 .. Len(front) + (Len(s) - e) /\ ~(Len(t) - i <= Len(front))
        /\ (Len(t) - i) - Len(front) \in 1 .. Len(s) - e
        /\ e + ((Len(t) - i) - Len(front)) = Len(s) - i
    BY <1>1, <2>1, FromBehind
  <2>3. t[Len(t) - i] = last[(Len(t) - i) - Len(front)]
    BY <2>2, <1>4, <1>7
  <2>4. last[(Len(t) - i) - Len(front)] = s[e + ((Len(t) - i) - Len(front))]
    BY <2>2, <1>4
  <2> QED
    BY <2>2, <2>3, <2>4
<1> QED
  BY <1>8, <1>9, <1>10

LEMMA UnchangedText == ASSUME NEW S, NEW s \in Seq(S) PROVE Apply(NoChange, s) = s
<1>1. Len(s) \in Nat /\ 0 \in Nat
  BY LenProperties
<1>2. SamePrefix(s, s, 0) /\ SameSuffix(s, s, Len(s) - 0)
  BY DEF SamePrefix, SameSuffix
<1>3. SubSeq(s, 0 + 1, 0) = <<>>
  BY SubSeqEmpty
<1>4. Apply([start |-> 0, end |-> 0, newText |-> SubSeq(s, 0 + 1, 0)], s) = s
  BY <1>1, <1>2, ReplacedRange
<1> QED
  BY <1>3, <1>4 DEF NoChange

\* A common stretch that cannot be made longer by one unit is the longest.
LEMMA LongestPrefix ==
    ASSUME NEW s, NEW t, NEW p \in Nat, Shorter(s, t) \in Nat, p <= Shorter(s, t),
           SamePrefix(s, t, p),
           p < Shorter(s, t) => s[p + 1] # t[p + 1]
    PROVE  CommonPrefix(s, t) = p
<1> DEFINE Longest(n) == /\ SamePrefix(s, t, n)
                         /\ \A m \in n + 1 .. Shorter(s, t) : ~SamePrefix(s, t, m)
<1>1. \A m \in p + 1 .. Shorter(s, t) : ~SamePrefix(s, t, m)
  <2> SUFFICES ASSUME NEW m \in p + 1 .. Shorter(s, t) PROVE ~SamePrefix(s, t, m)
    OBVIOUS
  <2>1. p + 1 \in 1 .. m /\ p < Shorter(s, t)
    OBVIOUS
  <2> QED
    BY <2>1 DEF SamePrefix
<1>2. \A n \in 0 .. Shorter(s, t) : Longest(n) => n = p
  <2> SUFFICES ASSUME NEW n \in 0 .. Shorter(s, t), Longest(n), n # p PROVE FALSE
    OBVIOUS
  <2>1. CASE n < p
    BY <2>1
  <2>2. CASE p < n
    BY <2>2, <1>1
  <2> QED
    BY <2>1, <2>2
<1> QED
  BY <1>1, <1>2 DEF CommonPrefix

LEMMA LongestSuffix ==
    ASSUME NEW s, NEW t, NEW b \in Nat, NEW k \in 0 .. b,
           SameSuffix(s, t, k),
           k < b => s[Len(s) - k] # t[Len(t) - k]
    PROVE  CommonSuffix(s, t, b) = k
<1> DEFINE Longest(n) == /\ SameSuffix(s, t, n)
                         /\ \A m \in n + 1 .. b : ~SameSuffix(s, t, m)
<1>1. \A m \in k + 1 .. b : ~SameSuffix(s, t, m)
  <2> SUFFICES ASSUME NEW m \in k + 1 .. b PROVE ~SameSuffix(s, t, m)
    OBVIOUS
  <2>1. k \in 0 .. m - 1 /\ k < b
    OBVIOUS
  <2> QED
    BY <2>1 DEF SameSuffix
<1>2. \A n \in 0 .. b : Longest(n) => n = k
  <2> SUFFICES ASSUME NEW n \in 0 .. b, Longest(n), n # k PROVE FALSE
    OBVIOUS
  <2>1. CASE n < k
    BY <2>1
  <2>2. CASE k < n
    BY <2>2, <1>1
  <2> QED
    BY <2>1, <2>2
<1> QED
  BY <1>1, <1>2 DEF CommonSuffix

-----------------------------------------------------------------------------
(* The function.                                                           *)

LEMMA CommonPrefixIs ==
    ASSUME NEW s, NEW t, Shorter(s, t) \in Nat
    PROVE  /\ CommonPrefix(s, t) \in 0 .. Shorter(s, t)
           /\ SamePrefix(s, t, CommonPrefix(s, t))
<1> DEFINE b == Shorter(s, t)
           Same == {n \in 0 .. b : SamePrefix(s, t, n)}
<1>1. 0 \in Same
  BY DEF SamePrefix
<1>2. PICK p \in Same : \A n \in Same : n <= p
  <2>1. Same \in SUBSET (0 .. b) /\ Same # {}
    BY <1>1
  <2> HIDE DEF Same, b
  <2>2. b \in Nat
    BY DEF b
  <2> QED
    BY <2>1, <2>2, HasGreatest
<1>3. \A m \in p + 1 .. b : ~SamePrefix(s, t, m)
  BY <1>2
<1> QED
  BY <1>2, <1>3 DEF CommonPrefix

LEMMA CommonSuffixIs ==
    ASSUME NEW s, NEW t, NEW b \in Nat
    PROVE  /\ CommonSuffix(s, t, b) \in 0 .. b
           /\ SameSuffix(s, t, CommonSuffix(s, t, b))
<1> DEFINE Same == {n \in 0 .. b : SameSuffix(s, t, n)}
<1>1. 0 \in Same
  BY DEF SameSuffix
<1>2. PICK k \in Same : \A n \in Same : n <= k
  <2>1. Same \in SUBSET (0 .. b) /\ Same # {}
    BY <1>1
  <2> HIDE DEF Same
  <2> QED
    BY <2>1, HasGreatest
<1>3. \A m \in k + 1 .. b : ~SameSuffix(s, t, m)
  BY <1>2
<1> QED
  BY <1>2, <1>3 DEF CommonSuffix

\* Diff is a change, and it turns the old text into the new one.
THEOREM DiffGivesNewText ==
    ASSUME NEW S, NEW s \in Seq(S), NEW t \in Seq(S)
    PROVE  /\ Diff(s, t) \in [start : Nat, end : Nat, newText : Seq(S)]
           /\ Apply(Diff(s, t), s) = t
<1>1. CASE s = t
  <2>1. <<>> \in Seq(S)
    OBVIOUS
  <2> QED
    BY <1>1, <2>1, UnchangedText DEF Diff, NoChange
<1>2. CASE s # t
  <2> DEFINE p == CommonPrefix(s, t)
             b == Shorter(s, t) - p
             k == CommonSuffix(s, t, b)
             e == Len(s) - k
             f == Len(t) - k
  <2>1. Len(s) \in Nat /\ Len(t) \in Nat
    BY LenProperties
  <2>2. Shorter(s, t) \in Nat /\ Shorter(s, t) <= Len(s) /\ Shorter(s, t) <= Len(t)
    BY <2>1 DEF Shorter, Least
  <2>3. p \in 0 .. Shorter(s, t) /\ SamePrefix(s, t, p)
    BY <2>2, CommonPrefixIs
  <2>4. b \in Nat
    BY <2>2, <2>3
  <2>5. k \in 0 .. b /\ SameSuffix(s, t, k)
    <3> HIDE DEF b
    <3> QED
      BY <2>4, CommonSuffixIs
  <2>6. /\ p \in Nat /\ e \in Nat /\ f \in Nat
        /\ p <= e /\ p <= f /\ e <= Len(s) /\ f <= Len(t)
        /\ Len(s) - e = k /\ Len(t) - f = k
    <3> HIDE DEF p, k
    <3> QED
      BY <2>1, <2>2, <2>3, <2>5
  <2>7. Diff(s, t) = [start |-> p, end |-> e, newText |-> SubSeq(t, p + 1, f)]
    BY <1>2 DEF Diff
  <2> HIDE DEF p, k, e, f
  <2>8. Apply([start |-> p, end |-> e, newText |-> SubSeq(t, p + 1, f)], s) = t
    BY <2>3, <2>5, <2>6, ReplacedRange
  <2>9. SubSeq(t, p + 1, f) \in Seq(S)
    BY <2>6, Cut
  <2> QED
    BY <2>6, <2>7, <2>8, <2>9
<1> QED
  BY <1>1, <1>2
=============================================================================
