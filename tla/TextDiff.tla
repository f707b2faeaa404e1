------------------------------ MODULE TextDiff ------------------------------
(***************************************************************************)
(* TextDiffUtil.calculateDiff, one action per step of its loops, for any   *)
(* two texts.  Java counts the characters of a string from 0, a sequence   *)
(* counts from 1: charAt(i) is the element i + 1.                          *)
(***************************************************************************)
EXTENDS TextChange

CONSTANTS
    Units,      \* the UTF-16 units that texts are made of
    MaxLen,     \* bound: the length of a text
    NullText    \* Java's null

ASSUME TextAssumption == MaxLen \in Nat /\ NullText \notin Seq(Units)

Texts == UNION {[1 .. n -> Units] : n \in 0 .. MaxLen}

VARIABLES oldText, newText, start, oldEnd, newEnd, pc, result

vars == <<oldText, newText, start, oldEnd, newEnd, pc, result>>

TypeOK ==
    /\ oldText \in Texts \cup {NullText}
    /\ newText \in Texts \cup {NullText}
    /\ start \in 0 .. MaxLen
    /\ oldEnd \in 0 .. MaxLen
    /\ newEnd \in 0 .. MaxLen
    /\ pc \in {"call", "prefix", "suffix", "done"}
    /\ result \in [start : 0 .. MaxLen, end : 0 .. MaxLen, newText : Seq(Units)]

Init ==
    /\ oldText \in Texts \cup {NullText}
    /\ newText \in Texts \cup {NullText}
    /\ start = 0 /\ oldEnd = 0 /\ newEnd = 0
    /\ pc = "call"
    /\ result = NoChange

TextOf(t) == IF t = NullText THEN <<>> ELSE t

\* Null is taken for the empty text, and equal texts have no change.
Enter ==
    /\ pc = "call"
    /\ oldText' = TextOf(oldText)
    /\ newText' = TextOf(newText)
    /\ pc' = IF oldText' = newText' THEN "done" ELSE "prefix"
    /\ UNCHANGED <<start, oldEnd, newEnd, result>>

\* The prefix loop stopping before the last unit of the shorter text.
InPrefixShort ==
    start < Shorter(oldText, newText) - 1 /\ oldText[start + 1] = newText[start + 1]

InPrefix ==
    start < Shorter(oldText, newText) /\ oldText[start + 1] = newText[start + 1]

Advance ==
    /\ pc = "prefix"
    /\ InPrefix
    /\ start' = start + 1
    /\ UNCHANGED <<oldText, newText, oldEnd, newEnd, pc, result>>

EndPrefix ==
    /\ pc = "prefix"
    /\ ~InPrefix
    /\ oldEnd' = Len(oldText)
    /\ newEnd' = Len(newText)
    /\ pc' = "suffix"
    /\ UNCHANGED <<oldText, newText, start, result>>

\* The suffix loop stopping at the beginning of the texts.
InSuffixToZero == oldEnd > 0 /\ newEnd > 0 /\ oldText[oldEnd] = newText[newEnd]

\* The suffix loop stopping one unit early.
InSuffixStrict ==
    /\ oldEnd > start + 1 /\ newEnd > start + 1
    /\ oldText[oldEnd] = newText[newEnd]

InSuffix ==
    oldEnd > start /\ newEnd > start /\ oldText[oldEnd] = newText[newEnd]

Retreat ==
    /\ pc = "suffix"
    /\ InSuffix
    /\ oldEnd' = oldEnd - 1
    /\ newEnd' = newEnd - 1
    /\ UNCHANGED <<oldText, newText, start, pc, result>>

Return ==
    /\ pc = "suffix"
    /\ ~InSuffix
    /\ result' = [start |-> start, end |-> oldEnd,
                  newText |-> SubSeq(newText, start + 1, newEnd)]
    /\ pc' = "done"
    /\ UNCHANGED <<oldText, newText, start, oldEnd, newEnd>>

Next == Enter \/ Advance \/ EndPrefix \/ Retreat \/ Return

Spec == Init /\ [][Next]_vars /\ WF_vars(Next)

-----------------------------------------------------------------------------
(* What holds.                                                             *)

\* A client that has the old text and applies the change has the new text.
ChangeGivesNewText == pc = "done" => Apply(result, oldText) = newText

\* No change of one range that gives the new text replaces fewer units, nor
\* brings fewer new ones (so no other user's edit beside it is touched).
ChangeIsLeast ==
    pc = "done" =>
        \A from, to \in 0 .. Len(oldText) :
        \A n \in 0 .. Len(newText) - from :
            LET insertion == SubSeq(newText, from + 1, from + n)
                change == [start |-> from, end |-> to, newText |-> insertion]
            IN from <= to /\ Apply(change, oldText) = newText
               => /\ result.end - result.start <= to - from
                  /\ Len(result.newText) <= n

\* The loops compute the function Diff of module TextChange.
LoopsComputeDiff == pc = "done" => result = Diff(oldText, newText)

=============================================================================
