---------------------------- MODULE MCEditorSync ----------------------------
(* Instances of EditorSync for TLC: the texts that the editors write.        *)
EXTENDS EditorSync, TLC
TwoTexts == {<<"a">>, <<"a", "b">>}
\* Every client writes either of the two.
TwoTextsEach == [s \in Sessions |-> TwoTexts]
\* Each of two clients writes a text of its own.
OwnTextEach ==
    CHOOSE f \in [Sessions -> {{t} : t \in TwoTexts}] :
        \A s, t \in Sessions : s # t => f[s] # f[t]
=============================================================================
