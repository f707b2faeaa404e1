--------------------------- MODULE TextDiff_proofs ---------------------------
(***************************************************************************)
(* TextDiff proved for texts of every length over every set of units: a    *)
(* client that applies the change to the old text has the new one, and the *)
(* two loops compute the function Diff that the other modules use.         *)
(***************************************************************************)
EXTENDS TextDiff, TextChange_proofs

-----------------------------------------------------------------------------
(* Texts.                                                                  *)

LEMMA SameInterval ==
    ASSUME NEW m \in Nat, NEW n \in Nat, 1 .. m = 1 .. n
    PROVE  m = n
<1>1. m > 0 => m \in 1 .. n
  OBVIOUS
<1>2. n > 0 => n \in 1 .. m
  OBVIOUS
<1> QED
  BY <1>1, <1>2

LEMMA TextIsSeq ==
    ASSUME NEW t \in Texts
    PROVE  t \in Seq(Units) /\ Len(t) \in 0 .. MaxLen
<1>1. PICK n \in 0 .. MaxLen : t \in [1 .. n -> Units]
  BY DEF Texts
<1>2. n \in Nat /\ n <= MaxLen
  BY TextAssumption
<1>3. t \in Seq(Units)
  BY <1>1, <1>2, SeqDef
<1>4. Len(t) \in Nat /\ DOMAIN t = 1 .. Len(t)
  BY <1>3, LenProperties
<1>5. 1 .. n = 1 .. Len(t)
  BY <1>1, <1>4
<1>6. n = Len(t)
  BY <1>2, <1>4, <1>5, SameInterval
<1> QED
  BY <1>2, <1>3, <1>4, <1>6

LEMMA EmptyIsText == <<>> \in Texts
<1>1. <<>> \in [1 .. 0 -> Units]
  BY EmptySeq, LenProperties
<1> QED
  BY <1>1, TextAssumption DEF Texts

-----------------------------------------------------------------------------
(* The loops.                                                              *)

\* What the prefix loop keeps, and what it leaves behind.
Before ==
    /\ oldText # newText
    /\ start <= Len(oldText) /\ start <= Len(newText)
    /\ SamePrefix(oldText, newText, start)

\* What the suffix loop keeps: the rest of both texts is equally long and equal.
After ==
    /\ start <= oldEnd /\ oldEnd <= Len(oldText)
    /\ start <= newEnd /\ newEnd <= Len(newText)
    /\ Len(oldText) - oldEnd = Len(newText) - newEnd
    /\ SameSuffix(oldText, newText, Len(oldText) - oldEnd)

Returned ==
    result = [start |-> start, end |-> oldEnd,
              newText |-> SubSeq(newText, start + 1, newEnd)]

LoopInv ==
    /\ pc = "call" => start = 0 /\ result = NoChange
    /\ pc # "call" => oldText \in Texts /\ newText \in Texts
    /\ pc = "prefix" => Before
    /\ pc = "suffix" => Before /\ ~InPrefix /\ After
    /\ pc = "done" =>
          \/ oldText = newText /\ result = NoChange
          \/ Before /\ ~InPrefix /\ After /\ ~InSuffix /\ Returned

IInv == TypeOK /\ LoopInv

LEMMA InvInit == Init => IInv
<1> SUFFICES ASSUME Init PROVE IInv
  OBVIOUS
<1>1. <<>> \in Seq(Units)
  OBVIOUS
<1>2. NoChange \in [start : 0 .. MaxLen, end : 0 .. MaxLen, newText : Seq(Units)]
  BY <1>1, TextAssumption DEF NoChange
<1> QED
  BY <1>2, TextAssumption DEF Init, IInv, TypeOK, LoopInv

LEMMA InvStep == IInv /\ [Next]_vars => IInv'
<1> SUFFICES ASSUME IInv, [Next]_vars PROVE IInv'
  OBVIOUS
<1> USE TextAssumption
<1>0. pc # "call" => /\ oldText \in Seq(Units) /\ Len(oldText) \in 0 .. MaxLen
                     /\ newText \in Seq(Units) /\ Len(newText) \in 0 .. MaxLen
  BY TextIsSeq DEF IInv, LoopInv
<1>1. CASE Enter
  <2>1. oldText' \in Texts /\ newText' \in Texts
    BY <1>1, EmptyIsText DEF Enter, TextOf, IInv, TypeOK
  <2>2. TypeOK'
    BY <1>1, <2>1 DEF Enter, IInv, TypeOK
  <2>3. pc' = "done" => oldText' = newText' /\ result' = NoChange
    BY <1>1 DEF Enter, IInv, LoopInv
  <2>4. pc' = "prefix" => Before'
    <3>1. Len(oldText') \in Nat /\ Len(newText') \in Nat
      BY <2>1, TextIsSeq
    <3> QED
      BY <1>1, <3>1 DEF Enter, IInv, LoopInv, Before, SamePrefix
  <2>5. pc' \in {"prefix", "done"}
    BY <1>1 DEF Enter
  <2> QED
    <3>1. CASE pc' = "prefix"
      BY <2>1, <2>2, <2>4, <3>1 DEF IInv, LoopInv
    <3>2. CASE pc' = "done"
      BY <2>1, <2>2, <2>3, <3>2 DEF IInv, LoopInv
    <3> QED
      BY <2>5, <3>1, <3>2
<1>2. CASE Advance
  <2>1. /\ start < Len(oldText) /\ start < Len(newText)
        /\ oldText[start + 1] = newText[start + 1]
    BY <1>0, <1>2 DEF Advance, InPrefix, Shorter, Least, IInv, TypeOK
  <2>2. start' = start + 1 /\ start' \in 0 .. MaxLen
    BY <1>0, <1>2, <2>1 DEF Advance, IInv, TypeOK
  <2>3. TypeOK'
    BY <1>2, <2>2 DEF Advance, IInv, TypeOK
  <2>4. Before'
    BY <1>0, <1>2, <2>1, <2>2 DEF Advance, IInv, TypeOK, LoopInv, Before, SamePrefix
  <2> QED
    BY <1>2, <2>3, <2>4 DEF Advance, IInv, LoopInv
<1>3. CASE EndPrefix
  <2>1. TypeOK'
    BY <1>0, <1>3 DEF EndPrefix, IInv, TypeOK
  <2>2. After'
    BY <1>0, <1>3 DEF EndPrefix, IInv, TypeOK, LoopInv, Before, After, SameSuffix
  <2>3. Before' /\ ~InPrefix'
    BY <1>3 DEF EndPrefix, IInv, LoopInv, Before, InPrefix
  <2> QED
    BY <1>3, <2>1, <2>2, <2>3 DEF EndPrefix, IInv, LoopInv
<1>4. CASE Retreat
  <2>1. /\ oldEnd > start /\ newEnd > start /\ oldText[oldEnd] = newText[newEnd]
        /\ oldEnd' = oldEnd - 1 /\ newEnd' = newEnd - 1
    BY <1>4 DEF Retreat, InSuffix
  <2>2. TypeOK'
    BY <1>4, <2>1 DEF Retreat, IInv, TypeOK
  <2> DEFINE k == Len(oldText) - oldEnd
  <2>3. /\ k \in Nat /\ k + 1 = Len(oldText) - oldEnd'
        /\ Len(oldText) - k = oldEnd /\ Len(newText) - k = newEnd
        /\ SameSuffix(oldText, newText, k)
    BY <1>0, <1>4, <2>1 DEF Retreat, IInv, TypeOK, LoopInv, After
  <2> HIDE DEF k
  <2>4. SameSuffix(oldText, newText, k + 1)
    <3>1. \A i \in 0 .. k : i = k \/ i \in 0 .. k - 1
      BY <2>3
    <3>2. \A i \in 0 .. k : oldText[Len(oldText) - i] = newText[Len(newText) - i]
      BY <2>1, <2>3, <3>1 DEF SameSuffix
    <3>3. \A i \in 0 .. (k + 1) - 1 : i \in 0 .. k
      BY <2>3
    <3> QED
      BY <3>2, <3>3 DEF SameSuffix
  <2>6. After'
    <3>1. /\ start <= oldEnd - 1 /\ oldEnd - 1 <= Len(oldText)
          /\ start <= newEnd - 1 /\ newEnd - 1 <= Len(newText)
          /\ Len(oldText) - (oldEnd - 1) = Len(newText) - (newEnd - 1)
      <4>1. /\ start \in Int /\ oldEnd \in Int /\ newEnd \in Int
            /\ Len(oldText) \in Int /\ Len(newText) \in Int
        BY <1>0, <1>4 DEF Retreat, IInv, TypeOK
      <4>2. /\ oldEnd <= Len(oldText) /\ newEnd <= Len(newText)
            /\ Len(oldText) - oldEnd = Len(newText) - newEnd
        BY <1>4 DEF Retreat, IInv, LoopInv, After
      <4>3. start < oldEnd /\ start < newEnd
        BY <2>1
      <4>4. start <= oldEnd - 1 /\ start <= newEnd - 1
        BY <4>1, <4>3
      <4>5. oldEnd - 1 <= Len(oldText) /\ newEnd - 1 <= Len(newText)
        BY <4>1, <4>2
      <4>6. Len(oldText) - (oldEnd - 1) = Len(newText) - (newEnd - 1)
        BY <4>1, <4>2
      <4> QED
        BY <4>4, <4>5, <4>6
    <3> QED
      BY <1>4, <2>1, <2>3, <2>4, <3>1 DEF Retreat, After
  <2>5. Before' /\ ~InPrefix'
    BY <1>4 DEF Retreat, IInv, LoopInv, Before, InPrefix
  <2> QED
    BY <1>4, <2>2, <2>5, <2>6 DEF Retreat, IInv, LoopInv
<1>5. CASE Return
  <2>1. SubSeq(newText, start + 1, newEnd) \in Seq(Units)
    BY <1>0, <1>5, Cut DEF Return, IInv, TypeOK, LoopInv, After
  <2>2. TypeOK'
    BY <1>5, <2>1 DEF Return, IInv, TypeOK
  <2>3. Before' /\ ~InPrefix' /\ After' /\ ~InSuffix' /\ Returned'
    BY <1>5 DEF Return, IInv, LoopInv, Before, InPrefix, After, InSuffix, Returned
  <2> QED
    BY <1>5, <2>2, <2>3 DEF Return, IInv, LoopInv
<1>6. CASE UNCHANGED vars
  BY <1>6 DEF vars, IInv, TypeOK, LoopInv, Before, InPrefix, After, InSuffix, Returned
<1> QED
  BY <1>1, <1>2, <1>3, <1>4, <1>5, <1>6 DEF Next

\* IInv holds in every state of every call.
THEOREM Invariance == Spec => []IInv
  BY InvInit, InvStep, PTL DEF Spec

\* Every variable of calculateDiff keeps to its type, for texts of any length.
THEOREM TypeCorrect == Spec => []TypeOK
<1>1. IInv => TypeOK
  BY DEF IInv
<1> QED
  BY <1>1, Invariance, PTL

\* Whatever the two texts, the change that calculateDiff returns turns the old
\* one into the new one.
THEOREM DiffIsRight == Spec => []ChangeGivesNewText
<1>1. IInv => ChangeGivesNewText
  <2> SUFFICES ASSUME IInv, pc = "done" PROVE Apply(result, oldText) = newText
    BY DEF ChangeGivesNewText
  <2>1. oldText \in Seq(Units) /\ newText \in Seq(Units)
    BY TextIsSeq DEF IInv, LoopInv
  <2>2. CASE oldText = newText /\ result = NoChange
    BY <2>1, <2>2, UnchangedText
  <2>3. CASE Before /\ After /\ Returned
    <3>1. start \in Nat /\ oldEnd \in Nat /\ newEnd \in Nat
      BY TextAssumption DEF IInv, TypeOK
    <3> QED
      BY <2>1, <2>3, <3>1, ReplacedRange DEF Before, After, Returned
  <2> QED
    BY <2>2, <2>3 DEF IInv, LoopInv
<1> QED
  BY <1>1, Invariance, PTL

\* The loops find the longest common prefix and then the longest common suffix
\* of what is left: they compute Diff.
THEOREM LoopsAreDiff == Spec => []LoopsComputeDiff
<1>1. IInv => LoopsComputeDiff
  <2> SUFFICES ASSUME IInv, pc = "done" PROVE result = Diff(oldText, newText)
    BY DEF LoopsComputeDiff
  <2>1. CASE oldText = newText /\ result = NoChange
    BY <2>1 DEF Diff
  <2>2. CASE Before /\ ~InPrefix /\ After /\ ~InSuffix /\ Returned
    <3> DEFINE k == Len(oldText) - oldEnd
               b == Shorter(oldText, newText) - start
    <3>1. {start, oldEnd, newEnd, Len(oldText), Len(newText)} \subseteq Nat
      BY TextIsSeq, TextAssumption DEF IInv, TypeOK, LoopInv
    <3>2. /\ Shorter(oldText, newText) \in Nat /\ start <= Shorter(oldText, newText)
          /\ start < Shorter(oldText, newText) => oldText[start + 1] # newText[start + 1]
      BY <2>2, <3>1 DEF Before, InPrefix, Shorter, Least
    <3>3. CommonPrefix(oldText, newText) = start
      BY <2>2, <3>1, <3>2, LongestPrefix DEF Before
    <3>4. /\ b \in Nat /\ k \in 0 .. b
          /\ Len(oldText) - k = oldEnd /\ Len(newText) - k = newEnd
          /\ k < b => oldEnd > start /\ newEnd > start
      <4>1. /\ start <= oldEnd /\ oldEnd <= Len(oldText)
            /\ start <= newEnd /\ newEnd <= Len(newText)
            /\ Len(oldText) - oldEnd = Len(newText) - newEnd
        BY <2>2 DEF After
      <4>2. /\ start \in Nat /\ oldEnd \in Nat /\ newEnd \in Nat
            /\ Len(oldText) \in Nat /\ Len(newText) \in Nat
        BY <3>1
      <4>3. b = Len(oldText) - start \/ b = Len(newText) - start
        BY DEF Shorter, Least
      <4>4. b <= Len(oldText) - start /\ b <= Len(newText) - start
        BY <4>2 DEF Shorter, Least
      <4>5. b \in Nat /\ k \in 0 .. b
        BY <4>1, <4>2, <4>3
      <4>6. Len(oldText) - k = oldEnd /\ Len(newText) - k = newEnd
        BY <4>1, <4>2
      <4>7. k < b => oldEnd > start /\ newEnd > start
        <5>1. k < Len(oldText) - start /\ k < Len(newText) - start <=> k < b
          BY <4>2, <4>3, <4>5, <4>4
        <5> QED
          BY <4>1, <4>2, <5>1
      <4> QED
        BY <4>5, <4>6, <4>7
    <3>5. SameSuffix(oldText, newText, k)
      BY <2>2 DEF After
    <3>6. k < b => oldText[Len(oldText) - k] # newText[Len(newText) - k]
      BY <2>2, <3>4 DEF InSuffix
    <3>7. CommonSuffix(oldText, newText, b) = k
      <4> HIDE DEF k, b
      <4> QED
        BY <3>4, <3>5, <3>6, LongestSuffix
    <3> QED
      BY <2>2, <3>3, <3>4, <3>7 DEF Diff, Before, Returned
  <2> QED
    BY <2>1, <2>2 DEF IInv, LoopInv
<1> QED
  BY <1>1, Invariance, PTL

\* No other change of one range that gives the new text replaces less of the
\* old one or brings more of the new: whatever it leaves alone before and after
\* its range is common to both texts, and the loops went at least as far.
THEOREM DiffIsLeast == Spec => []ChangeIsLeast
<1>1. IInv => ChangeIsLeast
  <2> SUFFICES ASSUME IInv, pc = "done",
                      NEW from \in 0 .. Len(oldText), NEW to \in 0 .. Len(oldText),
                      NEW n \in 0 .. Len(newText) - from,
                      from <= to,
                      Apply([start |-> from, end |-> to,
                             newText |-> SubSeq(newText, from + 1, from + n)], oldText)
                          = newText
               PROVE  /\ result.end - result.start <= to - from
                      /\ Len(result.newText) <= n
    BY DEF ChangeIsLeast
  <2>1. /\ oldText \in Seq(Units) /\ newText \in Seq(Units)
        /\ Len(oldText) \in Nat /\ Len(newText) \in Nat
        /\ from \in Nat /\ to \in Nat /\ n \in Nat
    BY TextIsSeq, TextAssumption DEF IInv, LoopInv
  <2>2. /\ Len(newText) = from + n + (Len(oldText) - to)
        /\ SamePrefix(oldText, newText, from)
        /\ SameSuffix(oldText, newText, Len(oldText) - to)
    BY <2>1, KeptAround
  <2>3. CASE oldText = newText /\ result = NoChange
    BY <2>1, <2>3 DEF NoChange
  <2>4. CASE Before /\ ~InPrefix /\ After /\ ~InSuffix /\ Returned
    <3>1. start \in Nat /\ oldEnd \in Nat /\ newEnd \in Nat
      BY TextAssumption DEF IInv, TypeOK
    <3>2. from <= start
      <4> SUFFICES ASSUME start < from PROVE FALSE
        BY <2>1, <3>1
      <4>1. start + 1 \in 1 .. from /\ start < Shorter(oldText, newText)
        BY <2>1, <2>2, <3>1 DEF Shorter, Least
      <4>2. oldText[start + 1] = newText[start + 1]
        BY <4>1, <2>2 DEF SamePrefix
      <4> QED
        BY <4>1, <4>2, <2>4 DEF InPrefix
    <3> DEFINE k == Len(oldText) - oldEnd
               m == Len(oldText) - to
    <3>3. k \in Nat /\ m \in Nat /\ oldEnd = Len(oldText) - k /\ newEnd = Len(newText) - k
      BY <2>1, <2>4, <3>1 DEF After
    <3>4. from + m <= start + k
      <4>1. CASE m <= k
        BY <4>1, <2>1, <3>1, <3>2, <3>3
      <4>2. CASE k < m
        <5>1. oldText[Len(oldText) - k] = newText[Len(newText) - k]
          <6>1. k \in 0 .. m - 1
            BY <4>2, <3>3
          <6> HIDE DEF k
          <6> QED
            BY <6>1, <2>2 DEF SameSuffix
        <5>2. oldEnd <= start \/ newEnd <= start
          BY <5>1, <2>4, <3>1, <3>3 DEF InSuffix
        <5> QED
          BY <5>2, <2>1, <2>2, <3>1, <3>3
      <4> QED
        BY <4>1, <4>2, <3>3
    <3>5. result.end - result.start <= to - from
      BY <2>1, <2>4, <3>1, <3>3, <3>4 DEF Returned
    <3>6. Len(SubSeq(newText, start + 1, newEnd)) = newEnd - start
      <4>1. start + 1 \in Nat \ {0} /\ newEnd <= Len(newText) /\ start <= newEnd
        BY <2>4, <3>1 DEF After
      <4>2. Len(SubSeq(newText, start + 1, newEnd)) =
              IF start + 1 <= newEnd THEN newEnd - (start + 1) + 1 ELSE 0
        BY <4>1, <2>1, <3>1, Cut
      <4> QED
        BY <4>1, <4>2, <3>1
    <3>7. newEnd - start <= n
      BY <2>1, <2>2, <3>1, <3>3, <3>4
    <3> QED
      BY <2>4, <3>5, <3>6, <3>7 DEF Returned
  <2> QED
    BY <2>3, <2>4 DEF IInv, LoopInv
<1> QED
  BY <1>1, Invariance, PTL
=============================================================================
