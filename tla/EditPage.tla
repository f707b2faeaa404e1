------------------------------ MODULE EditPage ------------------------------
(***************************************************************************)
(* The files of the IDE page: the tree, the open file and its text, the    *)
(* copies in the local storage, and the requests that load, save, create   *)
(* and delete files while the user goes on.  An answer finds a page that   *)
(* may have moved on, and is applied to it all the same.  The page is the  *)
(* only one at work on its project, and has no folders here.               *)
(*                                                                         *)
(* A text is known by the file it was loaded or written for, and a number. *)
(***************************************************************************)
EXTENDS Integers, FiniteSets

CONSTANTS
    Existing,      \* the files there are at the start
    MaxFiles,      \* bound: files there ever are
    MaxEdits,      \* bound: edits
    MaxLoads, MaxSaves,   \* bounds: requests under way
    MaxSlips       \* bound: the kinds of things that went wrong

ASSUME BoundsAssumption ==
    /\ Existing \in Nat /\ MaxFiles \in Nat /\ Existing <= MaxFiles
    /\ MaxEdits \in Nat /\ MaxLoads \in Nat /\ MaxSaves \in Nat
    /\ MaxSlips \in Nat

Files == 1 .. MaxFiles
None == 0
Texts == [of : Files, n : 0 .. MaxEdits + 1]
Empty(f) == [of |-> f, n |-> 0]
Original(f) == [of |-> f, n |-> 1]
NoText == [of |-> None, n |-> 0]

VARIABLES
    alive, content,    \* the server: the files there are, and the last
                       \* content of each, NoText if it has none
    tree,              \* the files the page shows
    selected, open,    \* the file that was clicked last, the one in the editor
    text, dirty,       \* the editor, and its mark "unsaved"
    saving,            \* the button Save is disabled
    cache,             \* the local copies
    loads, saves,      \* requests for contents
    made, creating,    \* the files there ever were; a request to create one
    deleting,          \* a request to delete one
    edits, latest,     \* history: the last thing written to each file
    slips              \* history: what went wrong so far

server == <<alive, content, made>>
editor == <<open, text, dirty>>
history == <<edits, latest, slips>>
vars == <<server, tree, selected, editor, saving, cache, loads, saves, creating,
          deleting, history>>

Slips == {"late load", "failed load", "failed save", "edit during load",
          "edit during save", "save during load", "reopened"}

\* The slot tells requests apart.
Loads == [slot : 1 .. MaxLoads, file : Files, answer : {"none", "ok", "failed"},
          text : Texts \cup {NoText}]
\* What is opened when a save is over, or None.
Saves == [slot : 1 .. MaxSaves, file : Files, text : Texts \cup {NoText},
          answer : {"none", "ok", "failed"}, then : 0 .. MaxFiles]

TypeOK ==
    /\ alive \subseteq Files /\ tree \subseteq Files
    /\ content \in [Files -> Texts \cup {NoText}]
    /\ selected \in 0 .. MaxFiles /\ open \in 0 .. MaxFiles
    /\ text \in Texts \cup {NoText}
    /\ dirty \in BOOLEAN /\ saving \in BOOLEAN
    /\ cache \in [Files -> Texts \cup {NoText}]
    /\ loads \subseteq Loads /\ saves \subseteq Saves
    /\ made \in Existing .. MaxFiles
    /\ creating \in [file : 0 .. MaxFiles, step : {"no", "file", "tree"}]
    /\ deleting \in [file : 0 .. MaxFiles, wasOpen : BOOLEAN, step : {"file", "tree"}]
    /\ edits \in 0 .. MaxEdits /\ latest \in [Files -> Texts]
    /\ slips \subseteq Slips

NoCreation == [file |-> None, step |-> "no"]
NoDeletion == [file |-> None, wasOpen |-> FALSE, step |-> "file"]

Init ==
    /\ alive = 1 .. Existing /\ tree = alive
    /\ content = [f \in Files |-> IF f \in alive THEN Original(f) ELSE NoText]
    /\ selected = None /\ open = None
    /\ text = NoText /\ dirty = FALSE /\ saving = FALSE
    /\ cache = [f \in Files |-> NoText]
    /\ loads = {} /\ saves = {}
    /\ made = Existing /\ creating = NoCreation /\ deleting = NoDeletion
    /\ edits = 0 /\ slips = {}
    /\ latest = [f \in Files |-> IF f \in alive THEN Original(f) ELSE Empty(f)]

-----------------------------------------------------------------------------
(* What the actions are made of.                                           *)

\* What the server has of a file; nothing is as good as an empty text.
Stored(f) == IF content[f] = NoText THEN Empty(f) ELSE content[f]

\* The server has the last text of the file, and no older one is to come.
Settled(f) ==
    /\ latest[f] = Stored(f)
    /\ \A s \in saves : s.file = f /\ s.answer = "none" => s.text = latest[f]

Free(requests, bound) == {k \in 1 .. bound : \A r \in requests : r.slot # k}
First(slots) == CHOOSE k \in slots : \A j \in slots : k <= j

Happen(more) ==
    /\ slips' = slips \cup more
    /\ Cardinality(slips') <= MaxSlips

Note(slip, condition) == Happen(IF condition THEN {slip} ELSE {})

\* File f is asked for.
Ask(f) ==
    /\ Free(loads, MaxLoads) # {}
    /\ loads' = loads \cup {[slot |-> First(Free(loads, MaxLoads)), file |-> f,
                             answer |-> "none", text |-> NoText]}

\* An editor that shows the old text until the new one is there.
ShowLater(f, local) ==
    /\ open' = f
    /\ UNCHANGED text
    /\ dirty' = FALSE
    /\ Ask(f)

\* File f comes into the editor, with its local copy, and is asked for.
Show(f, local) ==
    /\ open' = f
    /\ text' = IF local[f] = NoText THEN Empty(f) ELSE local[f]
    /\ dirty' = FALSE
    /\ Ask(f)

\* The open file is sent to be saved; the file to open then.
Send(then) ==
    /\ Free(saves, MaxSaves) # {}
    /\ saving' = TRUE
    /\ cache' = [cache EXCEPT ![open] = text]
    /\ saves' = saves \cup {[slot |-> First(Free(saves, MaxSaves)), file |-> open,
                             text |-> text, answer |-> "none", then |-> then]}
    /\ Note("save during load", \E l \in loads : l.file = open)

\* The page gets the tree, or fails to; a file that is not in it is in the
\* editor no more, the text and its mark stay.
GetTree ==
    \/ /\ tree' = alive
       /\ selected' = IF selected \in alive THEN selected ELSE None
       /\ open' = IF open \in alive THEN open ELSE None
    \/ UNCHANGED <<tree, selected, open>>

-----------------------------------------------------------------------------
(* The user.                                                               *)

\* An edit that is not copied to the local storage.
EditUncached ==
    /\ open # None /\ edits < MaxEdits
    /\ edits' = edits + 1
    /\ text' = [of |-> text.of, n |-> edits + 2]
    /\ dirty' = TRUE
    /\ latest' = [latest EXCEPT ![open] = text']
    /\ Happen((IF \E l \in loads : l.file = open THEN {"edit during load"} ELSE {})
              \cup (IF saves # {} THEN {"edit during save"} ELSE {}))
    /\ UNCHANGED <<server, tree, selected, open, saving, cache, loads, saves, creating,
                   deleting>>

\* An edit that does not set the mark.
EditUnmarked ==
    /\ open # None /\ edits < MaxEdits
    /\ edits' = edits + 1
    /\ text' = [of |-> text.of, n |-> edits + 2]
    /\ cache' = [cache EXCEPT ![open] = text']
    /\ latest' = [latest EXCEPT ![open] = text']
    /\ Happen((IF \E l \in loads : l.file = open THEN {"edit during load"} ELSE {})
              \cup (IF saves # {} THEN {"edit during save"} ELSE {}))
    /\ UNCHANGED <<server, tree, selected, open, dirty, saving, loads, saves, creating,
                   deleting>>

Edit ==
    /\ open # None /\ edits < MaxEdits
    /\ edits' = edits + 1
    /\ text' = [of |-> text.of, n |-> edits + 2]
    /\ dirty' = TRUE
    /\ cache' = [cache EXCEPT ![open] = text']
    /\ latest' = [latest EXCEPT ![open] = text']
    /\ Happen((IF \E l \in loads : l.file = open THEN {"edit during load"} ELSE {})
              \cup (IF saves # {} THEN {"edit during save"} ELSE {}))
    /\ UNCHANGED <<server, tree, selected, open, saving, loads, saves, creating, deleting>>

Save ==
    /\ open # None /\ ~saving
    /\ Send(None)
    /\ UNCHANGED <<server, tree, selected, editor, loads, creating, deleting, edits, latest>>

\* The user clicks a file, and does not want to save, or is not asked.
Click(f) ==
    /\ f \in tree
    /\ selected' = f
    /\ Show(f, cache)
    /\ Note("reopened", ~Settled(f))
    /\ UNCHANGED <<server, tree, saving, cache, saves, creating, deleting, edits, latest>>

\* ... or is asked to save and agrees: the file is opened after that.
ClickAndSave(f) ==
    /\ f \in tree /\ dirty /\ open # None
    /\ selected' = f
    /\ Send(f)
    /\ UNCHANGED <<server, tree, editor, loads, creating, deleting, edits, latest>>

NewFile ==
    /\ creating = NoCreation /\ made < MaxFiles
    /\ creating' = [file |-> None, step |-> "file"]
    /\ UNCHANGED <<server, tree, selected, editor, saving, cache, loads, saves, deleting,
                   history>>

Delete ==
    /\ selected # None /\ deleting = NoDeletion
    /\ deleting' = [file |-> selected, wasOpen |-> open = selected, step |-> "file"]
    /\ UNCHANGED <<server, tree, selected, editor, saving, cache, loads, saves, creating,
                   history>>

-----------------------------------------------------------------------------
(* The server takes a request, or it fails on its way.                     *)

ServeLoad(l) ==
    /\ l.answer = "none"
    /\ \E a \in {"ok", "failed"} :
          /\ a = "ok" => l.file \in alive /\ content[l.file] # NoText
          /\ loads' = (loads \ {l}) \cup {[l EXCEPT !.answer = a,
                 !.text = IF a = "ok" THEN content[l.file] ELSE NoText]}
          /\ Note("failed load", a = "failed" /\ content[l.file] # NoText)
    /\ UNCHANGED <<server, tree, selected, editor, saving, cache, saves, creating, deleting,
                   edits, latest>>

\* A save that failed may have been stored before its answer was lost.
ServeSave(s) ==
    /\ s.answer = "none"
    /\ \E stored \in {TRUE, FALSE}, a \in {"ok", "failed"} :
          /\ a = "ok" => stored
          /\ stored => s.file \in alive
          /\ content' = IF stored THEN [content EXCEPT ![s.file] = s.text] ELSE content
          /\ saves' = (saves \ {s}) \cup {[s EXCEPT !.answer = a]}
          /\ Note("failed save", ~stored)
    /\ UNCHANGED <<alive, made, tree, selected, editor, saving, cache, loads, creating,
                   deleting, edits, latest>>

-----------------------------------------------------------------------------
(* The answers.                                                            *)

\* The content is put into the editor, whatever file that has by now.
OnLoad(l) ==
    /\ l.answer = "ok"
    /\ text' = l.text /\ dirty' = FALSE
    /\ cache' = [cache EXCEPT ![l.file] = l.text]
    /\ loads' = loads \ {l}
    /\ Note("late load", l.file # open)
    /\ UNCHANGED <<server, tree, selected, open, saving, saves, creating, deleting, edits,
                   latest>>

\* A load that failed leaves the local copy, or nothing.
OnLoadFailed(l) ==
    /\ l.answer = "failed"
    /\ loads' = loads \ {l}
    /\ UNCHANGED <<server, tree, selected, editor, saving, cache, saves, creating, deleting,
                   history>>

\* A save that is over takes the mark away, failed or not, and the file that
\* waited for it is opened.
OnSave(s) ==
    /\ s.answer # "none"
    /\ saves' = saves \ {s}
    /\ saving' = FALSE
    /\ IF s.then = None
       THEN dirty' = FALSE /\ UNCHANGED <<open, text, loads, slips>>
       ELSE /\ Show(s.then, cache)
            /\ Note("reopened", ~Settled(s.then))
    /\ UNCHANGED <<server, tree, selected, cache, creating, deleting, edits, latest>>

\* The file is created and the tree asked for, or the answer does not come.
OnCreate ==
    /\ creating.step = "file"
    /\ \/ /\ made' = made + 1
          /\ alive' = alive \cup {made'}
          /\ creating' \in {[file |-> made', step |-> "tree"], NoCreation}
       \/ /\ UNCHANGED <<made, alive>>
          /\ creating' = NoCreation
    /\ UNCHANGED <<content, tree, selected, editor, saving, cache, loads, saves, deleting,
                   history>>

\* The tree is there, or failed: the new file is opened in either case, and
\* nobody is asked to save.
OnCreated ==
    /\ creating.step = "tree"
    /\ creating' = NoCreation
    /\ tree' \in {alive, tree}
    /\ selected' = creating.file
    /\ cache' = [cache EXCEPT ![creating.file] = Empty(creating.file)]
    /\ Show(creating.file, cache')
    /\ Note("reopened", ~Settled(creating.file))
    /\ UNCHANGED <<server, saving, saves, deleting, edits, latest>>

\* The file is deleted, and if it was in the editor when the user asked, the
\* editor is emptied of whatever it has by now; or the answer does not come.
OnDelete ==
    /\ deleting.file # None /\ deleting.step = "file"
    /\ \/ /\ alive' = alive \ {deleting.file}
          /\ deleting' = [deleting EXCEPT !.step = "tree"]
          /\ selected' = None
          /\ IF deleting.wasOpen
             THEN open' = None /\ text' = NoText /\ dirty' = FALSE
             ELSE UNCHANGED editor
       \/ /\ alive' \in {alive, alive \ {deleting.file}}
          /\ deleting' = NoDeletion
          /\ UNCHANGED <<selected, editor>>
    /\ content' = [f \in Files |-> IF f \in alive' THEN content[f] ELSE NoText]
    /\ UNCHANGED <<made, tree, saving, cache, loads, saves, creating, history>>

OnDeleted ==
    /\ deleting.file # None /\ deleting.step = "tree"
    /\ deleting' = NoDeletion
    /\ GetTree
    /\ UNCHANGED <<server, text, dirty, saving, cache, loads, saves, creating, history>>

Next ==
    \/ Edit \/ Save \/ NewFile \/ Delete
    \/ \E f \in Files : Click(f) \/ ClickAndSave(f)
    \/ \E l \in loads : ServeLoad(l) \/ OnLoad(l) \/ OnLoadFailed(l)
    \/ \E s \in saves : ServeSave(s) \/ OnSave(s)
    \/ OnCreate \/ OnCreated \/ OnDelete \/ OnDeleted

Spec == Init /\ [][Next]_vars

-----------------------------------------------------------------------------
(* What the page promises.                                                 *)

\* What was in the way of each, so far.
Never(kinds) == slips \cap kinds = {}

\* The text in the editor is a text of the file whose name is above it, and is
\* what Save would store there, unless a load came in after another file was
\* opened: k puts an answer into the editor without asking what is open.
OpenText ==
    open # None /\ Never({"late load"}) => text.of = open

\* An editor at rest that does not say "unsaved" shows what the server has.
\* Any save takes the mark away, one that failed or that is older than the text
\* or of another file too, and so does any load.
CleanIsSaved ==
    /\ open \in alive /\ ~dirty /\ loads = {} /\ saves = {}
    /\ Never({"late load", "failed load", "failed save", "edit during save",
              "save during load", "reopened"})
    => text = Stored(open)

\* The last text of a file is on the server or in the local copy, also after a
\* save that failed.  It is lost by a load that comes in over it, a save of the
\* empty editor that waits for a load, and by opening the file again before the
\* server has settled on it, which loads over the copy.
LastEditKept ==
    Never({"late load", "failed load", "edit during load", "save during load", "reopened"}) =>
        \A f \in alive : latest[f] \in {Stored(f), cache[f]}
=============================================================================
