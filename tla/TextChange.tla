----------------------------- MODULE TextChange -----------------------------
(***************************************************************************)
(* TextDiffUtil.calculateDiff as a function of its two arguments, and what *)
(* a client does with the change: TextSyncMessage says that it applies the *)
(* change to its local text.  A text is a sequence of UTF-16 units.        *)
(***************************************************************************)
EXTENDS Integers, Sequences

NoChange == [start |-> 0, end |-> 0, newText |-> <<>>]

\* Two texts agree on a first and on a last stretch of n units.
SamePrefix(s, t, n) == \A i \in 1 .. n : s[i] = t[i]
SameSuffix(s, t, n) == \A i \in 0 .. n - 1 : s[Len(s) - i] = t[Len(t) - i]

Least(a, b) == IF a < b THEN a ELSE b
Shorter(s, t) == Least(Len(s), Len(t))

\* The longest such stretches.
CommonPrefix(s, t) ==
    CHOOSE n \in 0 .. Shorter(s, t) :
        /\ SamePrefix(s, t, n)
        /\ \A m \in n + 1 .. Shorter(s, t) : ~SamePrefix(s, t, m)

CommonSuffix(s, t, bound) ==
    CHOOSE n \in 0 .. bound :
        /\ SameSuffix(s, t, n)
        /\ \A m \in n + 1 .. bound : ~SameSuffix(s, t, m)

\* The range [start, end) of the old text and what takes its place; NoChange
\* stands for the null that equal texts give.
Diff(oldText, newText) ==
    IF oldText = newText THEN NoChange
    ELSE LET start  == CommonPrefix(oldText, newText)
             suffix == CommonSuffix(oldText, newText, Shorter(oldText, newText) - start)
         IN [start   |-> start,
             end     |-> Len(oldText) - suffix,
             newText |-> SubSeq(newText, start + 1, Len(newText) - suffix)]

\* The client's side: the range of the text is replaced.  A client that has
\* another text than the change was made for replaces what it has there.
Apply(change, text) ==
    SubSeq(text, 1, Least(change.start, Len(text)))
        \o change.newText
        \o SubSeq(text, change.end + 1, Len(text))
=============================================================================
