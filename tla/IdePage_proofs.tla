--------------------------- MODULE IdePage_proofs ---------------------------
(***************************************************************************)
(* The IDE page, for any number of files, edits, requests, sockets and     *)
(* messages: the texts of its editor, and the connection of its chat.      *)
(*                                                                         *)
(* The texts.  What the page shows depends on answers that are under way   *)
(* and on what the server will have when they are all in.  So the          *)
(* invariant speaks of every request: a load brings the last text          *)
(* (Kept) and what is stored (Served), a save that is on its way carries   *)
(* what the editor shows (Clean).  Each part holds until one of the slips  *)
(* happened that break it, and each step either keeps the part or notes    *)
(* such a slip.  That a file is opened again before the server has settled *)
(* on its last text is one of them: an older save may be on its way still. *)
(*                                                                         *)
(* The chat.  OneLink is inductive but for the types: a new socket is made *)
(* only when the client has no handler, and a handler is given up only by  *)
(* the close of a socket, which by OneLink itself is the one there was.    *)
(* LeftForGood needs that a left page's client is not active and that no   *)
(* timer is running that could call it back.                               *)
(***************************************************************************)
EXTENDS EditPage, ChatLink, TLAPS

\* A load, by its members.
LoadShaped(l) ==
    /\ l = [slot |-> l.slot, file |-> l.file, answer |-> l.answer, text |-> l.text]
    /\ l.file \in 1 .. made /\ l.answer \in {"none", "ok", "failed"}
    /\ l.answer = "ok" => l.text \in Texts

\* A save, by its members.
SaveShaped(s) ==
    /\ s = [slot |-> s.slot, file |-> s.file, text |-> s.text, answer |-> s.answer,
            then |-> s.then]
    /\ s.file \in 1 .. made /\ s.text \in Texts /\ s.answer \in {"none", "ok", "failed"}
    /\ s.then \in 0 .. made

\* The types that the proofs need: files named anywhere were made, a file that
\* is not there has no content, and one not made yet has no text.
Shape ==
    /\ made \in Nat /\ made <= MaxFiles
    /\ alive \subseteq 1 .. made /\ tree \subseteq 1 .. made
    /\ selected \in 0 .. made /\ open \in 0 .. made
    /\ content \in [Files -> Texts \cup {NoText}]
    /\ cache \in [Files -> Texts \cup {NoText}]
    /\ latest \in [Files -> Texts]
    /\ open # None => text \in Texts
    /\ \A l \in loads : LoadShaped(l)
    /\ \A s \in saves : SaveShaped(s)
    /\ creating.file \in 0 .. made /\ (creating.step = "tree" => creating.file # None)
    /\ creating.step = "file" => made < MaxFiles
    /\ deleting.file \in 0 .. made
    /\ deleting = [file |-> deleting.file, wasOpen |-> deleting.wasOpen,
                    step |-> deleting.step]
    /\ edits \in 0 .. MaxEdits
    /\ \A f \in Files : f \notin alive => content[f] = NoText
    /\ \A f \in Files : f > made => latest[f] = Empty(f)

\* Texts are texts of their file, and no newer than the last one.
OfFile(t, f) == t.of = f /\ t.n <= latest[f].n

Right ==
    /\ open # None => OfFile(text, open)
    /\ \A f \in Files : content[f] # NoText => OfFile(content[f], f)
    /\ \A f \in Files : cache[f] # NoText => OfFile(cache[f], f)
    /\ \A l \in loads : l.answer = "ok" => OfFile(l.text, l.file)
    /\ \A s \in saves : OfFile(s.text, s.file)
    /\ \A f \in Files : latest[f].of = f /\ latest[f].n <= edits + 1

\* They are, as long as no load came in over another file.
RightTexts == Never({"late load"}) => Right

\* A load of the file is under way.
LoadOf(f) == \E l \in loads : l.file = f

\* The save of f has not reached the server.
OnItsWay(s, f) == s.file = f /\ s.answer = "none"

\* The last text of a file is in the copy, or the server has settled on it;
\* it has while the file is being loaded, and the editor has it once it is.
Kept ==
    /\ \A f \in alive : latest[f] = cache[f] \/ Settled(f)
    /\ \A l \in loads : l.file \in alive =>
          /\ Settled(l.file)
          /\ l.answer = "ok" => l.text = latest[l.file]
          /\ l.answer = "failed" => latest[l.file] = Empty(l.file)
    /\ open \in alive /\ ~LoadOf(open) => text = latest[open]

\* That is so until one of the things went wrong that lose it.
LastTexts ==
    Never({"late load", "failed load", "edit during load", "save during load",
           "reopened"}) => Kept

\* The answer to the load is what the server will have stored.
Served(l) ==
    /\ \A s \in saves : OnItsWay(s, l.file) => s.text = Stored(l.file)
    /\ l.answer = "ok" => l.text = Stored(l.file)
    /\ l.answer = "failed" => Stored(l.file) = Empty(l.file)

\* A load brings what is stored.  A text that is not marked as unsaved, or is
\* being saved, is what the server has or is about to get.
Clean ==
    /\ \A l \in loads : l.file \in alive => Served(l)
    /\ dirty /\ saves # {} => ~LoadOf(open)
    /\ open \in alive /\ LoadOf(open) /\ ~dirty /\ Stored(open) = Empty(open) =>
          text = Empty(open)
    /\ open \in alive /\ ~LoadOf(open) /\ (~dirty \/ saves # {}) =>
          /\ text = Stored(open) \/ \E s \in saves : OnItsWay(s, open)
          /\ \A s \in saves : OnItsWay(s, open) => s.text = text

\* That is so until one of the things went wrong that break it.
CleanTexts ==
    Never({"late load", "failed load", "failed save", "edit during save",
           "save during load", "reopened"}) => Clean

\* The inductive invariant.
IInv == Shape /\ RightTexts /\ LastTexts /\ CleanTexts

\* Texts, and what is none.
LEMMA TextsAre ==
    /\ NoText \notin Texts /\ 0 \notin Files /\ MaxFiles \in Nat /\ MaxEdits \in Nat
    /\ \A f \in Files : /\ Empty(f) \in Texts /\ Empty(f).of = f /\ Empty(f).n = 0
                        /\ Original(f) \in Texts /\ Original(f).of = f /\ Original(f).n = 1
    /\ \A t \in Texts : t.of \in Files /\ t.n \in Nat /\ t = [of |-> t.of, n |-> t.n]
    /\ \A t \in Texts, n \in 0 .. MaxEdits + 1 : [of |-> t.of, n |-> n] \in Texts
  BY BoundsAssumption DEF NoText, Texts, Files, Empty, Original, None

\* Requests keep their shape when files are made.
LEMMA ShapedOn ==
    ASSUME made \in Nat, made' \in Nat, made <= made'
    PROVE  /\ \A l : LoadShaped(l) => LoadShaped(l)'
           /\ \A s : SaveShaped(s) => SaveShaped(s)'
<1>1. 1 .. made \subseteq 1 .. made' /\ 0 .. made \subseteq 0 .. made'
  OBVIOUS
<1> QED
  BY <1>1 DEF LoadShaped, SaveShaped

\* A file that is there or was is one of Files.
LEMMA MadeIs ==
    ASSUME Shape
    PROVE  /\ made \in Nat /\ 1 .. made \subseteq Files /\ alive \subseteq Files
           /\ \A f \in 0 .. made : f # None => f \in 1 .. made /\ f \in Files
           /\ None \in 0 .. made /\ None \notin 1 .. made
  BY BoundsAssumption DEF Shape, Files, None

\* What the steps do, apart from the buttons, the tree and the slots.

\* A new request for the content of f.
Asked(l, f) == l = [slot |-> l.slot, file |-> f, answer |-> "none", text |-> NoText]

\* The file f comes into the editor with one of these texts, and is asked for.
Shown(f) ==
    /\ f \in 1 .. made /\ open' = f /\ dirty' = FALSE
    /\ \/ cache' = cache
       \/ cache' = [cache EXCEPT ![f] = Empty(f)] /\ text' = Empty(f)
    /\ text' = IF cache'[f] = NoText THEN Empty(f) ELSE cache'[f]
    /\ \E l : Asked(l, f) /\ loads' = loads \cup {l}
    /\ saves' \subseteq saves /\ \A s \in saves \ saves' : s.answer # "none"
    /\ Settled(f) \/ "reopened" \in slips'
    /\ slips \subseteq slips'
    /\ UNCHANGED <<server, edits, latest>>

\* The text in the editor is sent to be saved.
Sent ==
    /\ open # None
    /\ cache' = [cache EXCEPT ![open] = text]
    /\ \E s : /\ s = [slot |-> s.slot, file |-> open, text |-> text, answer |-> "none",
                      then |-> s.then]
              /\ s.file = open /\ s.text = text /\ s.answer = "none" /\ s.then \in 0 .. made
              /\ saves' = saves \cup {s}
    /\ ~LoadOf(open) \/ "save during load" \in slips'
    /\ slips \subseteq slips'
    /\ UNCHANGED <<server, editor, loads, edits, latest>>

\* Files come and go.
Stays == UNCHANGED <<made, editor, cache, loads, saves, history>>

\* Happen adds to the history.
LEMMA HappenIs ==
    ASSUME NEW more, Happen(more)
    PROVE  slips' = slips \cup more
  BY DEF Happen

\* Note adds the slip on its condition.
LEMMA NoteIs ==
    ASSUME NEW slip, NEW condition, Note(slip, condition)
    PROVE  slips \subseteq slips' /\ (condition => slip \in slips')
  BY HappenIs DEF Note

\* Ask adds a request for the content.
LEMMA AskIs ==
    ASSUME NEW f, Ask(f)
    PROVE  \E l : Asked(l, f) /\ loads' = loads \cup {l}
<1> DEFINE l == [slot |-> First(Free(loads, MaxLoads)), file |-> f, answer |-> "none",
                 text |-> NoText]
<1>1. Asked(l, f)
  BY DEF Asked
<1>2. loads' = loads \cup {l}
  BY DEF Ask
<1> QED
  BY <1>1, <1>2

\* A click shows the file.
LEMMA ClickIs == ASSUME Shape, NEW f \in Files, Click(f) PROVE Shown(f)
<1>1. f \in 1 .. made
  BY DEF Click, Shape
<1>2. slips \subseteq slips' /\ (Settled(f) \/ "reopened" \in slips')
  BY NoteIs DEF Click
<1>3. \E l : Asked(l, f) /\ loads' = loads \cup {l}
  BY AskIs DEF Click, Show
<1> QED
  BY <1>1, <1>2, <1>3 DEF Click, Show, Shown, server

\* The answer to a save ends it, and shows the file that waited for it.
LEMMA OnSaveIs ==
    ASSUME Shape, NEW s \in saves, OnSave(s)
    PROVE  /\ s.answer # "none" /\ saves' = saves \ {s}
           /\ IF s.then = None
              THEN dirty' = FALSE /\ UNCHANGED <<server, open, text, cache, loads, history>>
              ELSE Shown(s.then)
<1>1. CASE s.then = None
  BY <1>1 DEF OnSave, history
<1>2. CASE s.then # None
  <2>1. s.then \in 1 .. made
    BY <1>2, MadeIs DEF Shape, SaveShaped
  <2>2. slips \subseteq slips' /\ (Settled(s.then) \/ "reopened" \in slips')
    BY <1>2, NoteIs DEF OnSave
  <2>3. \E l : Asked(l, s.then) /\ loads' = loads \cup {l}
    BY <1>2, AskIs DEF OnSave, Show
  <2> QED
    BY <1>2, <2>1, <2>2, <2>3 DEF OnSave, Show, Shown, server
<1> QED
  BY <1>1, <1>2

\* The tree that follows a creation shows the new file.
LEMMA OnCreatedIs ==
    ASSUME Shape, OnCreated
    PROVE  Shown(creating.file) /\ saves' = saves
<1> DEFINE f == creating.file
<1>1. f \in 1 .. made /\ f \in Files
  BY MadeIs DEF OnCreated, Shape
<1>2. slips \subseteq slips' /\ (Settled(f) \/ "reopened" \in slips')
  BY NoteIs DEF OnCreated
<1>3. \E l : Asked(l, f) /\ loads' = loads \cup {l}
  BY AskIs DEF OnCreated, Show
<1>4. cache' = [cache EXCEPT ![f] = Empty(f)] /\ cache'[f] = Empty(f)
  BY <1>1 DEF OnCreated, Shape
<1>5. Empty(f) # NoText
  BY <1>1, TextsAre
<1>6. text' = IF cache'[f] = NoText THEN Empty(f) ELSE cache'[f]
  BY DEF OnCreated, Show
<1> QED
  BY <1>1, <1>2, <1>3, <1>4, <1>5, <1>6 DEF OnCreated, Show, Shown, server

\* Send sends the text in the editor.
LEMMA SendIs ==
    ASSUME Shape, NEW then \in 0 .. made, open # None, Send(then),
           UNCHANGED <<server, editor, loads, edits, latest>>
    PROVE  Sent
<1> DEFINE s == [slot |-> First(Free(saves, MaxSaves)), file |-> open, text |-> text,
                 answer |-> "none", then |-> then]
<1>1. s = [slot |-> s.slot, file |-> open, text |-> text, answer |-> "none", then |-> s.then]
      /\ s.file = open /\ s.text = text /\ s.answer = "none" /\ s.then = then
  OBVIOUS
<1>2. saves' = saves \cup {s}
  BY DEF Send
<1>3. slips \subseteq slips' /\ (~LoadOf(open) \/ "save during load" \in slips')
  BY NoteIs DEF Send, LoadOf
<1> HIDE DEF s
<1> QED
  BY <1>1, <1>2, <1>3 DEF Sent, Send

\* Both ways to save do.
LEMMA SavesAre ==
    ASSUME Shape, Save \/ \E f \in Files : ClickAndSave(f)
    PROVE  Sent
<1>1. CASE Save
  BY <1>1, SendIs, MadeIs DEF Save, editor, server
<1>2. ASSUME NEW f \in Files, ClickAndSave(f) PROVE Sent
  <2>1. f \in 0 .. made
    BY <1>2 DEF ClickAndSave, Shape
  <2> QED
    BY <1>2, <2>1, SendIs DEF ClickAndSave, editor, server
<1> QED
  BY <1>1, <1>2

\* A request with its answer.
LEMMA SaveAnswered ==
    ASSUME NEW a, NEW b, NEW c, NEW d, NEW e, NEW answer, NEW s,
           s = [slot |-> a, file |-> b, text |-> c, answer |-> d, then |-> e]
    PROVE  [s EXCEPT !.answer = answer]
              = [slot |-> a, file |-> b, text |-> c, answer |-> answer, then |-> e]
  OBVIOUS

\* The server answers a load with the content, or fails.
LEMMA ServeLoadIs ==
    ASSUME Shape, NEW l \in loads, ServeLoad(l)
    PROVE  \E m : /\ loads' = (loads \ {l}) \cup {m}
                  /\ m = [slot |-> l.slot, file |-> l.file, answer |-> m.answer, text |-> m.text]
                  /\ m.file = l.file /\ l.answer = "none"
                  /\ \/ /\ m.answer = "ok" /\ m.text = content[l.file]
                        /\ l.file \in alive /\ content[l.file] # NoText
                     \/ /\ m.answer = "failed"
                        /\ content[l.file] = NoText \/ "failed load" \in slips'
                  /\ slips \subseteq slips'
                  /\ UNCHANGED <<server, tree, selected, editor, cache, saves, creating,
                                 deleting, edits, latest>>
<1>1. PICK a \in {"ok", "failed"} :
         /\ a = "ok" => l.file \in alive /\ content[l.file] # NoText
         /\ loads' = (loads \ {l}) \cup {[l EXCEPT !.answer = a,
               !.text = IF a = "ok" THEN content[l.file] ELSE NoText]}
         /\ Note("failed load", a = "failed" /\ content[l.file] # NoText)
  BY DEF ServeLoad
<1> DEFINE t == IF a = "ok" THEN content[l.file] ELSE NoText
           m == [slot |-> l.slot, file |-> l.file, answer |-> a, text |-> t]
<1>2. l = [slot |-> l.slot, file |-> l.file, answer |-> l.answer, text |-> l.text]
  BY DEF Shape, LoadShaped
<1>3. loads' = (loads \ {l}) \cup {m}
  <2> DEFINE k == [l EXCEPT !.answer = a]
             n == [l EXCEPT !.answer = a, !.text = t]
  <2>1. loads' = (loads \ {l}) \cup {n}
    BY <1>1
  <2> HIDE DEF t
  <2>2. k = [slot |-> l.slot, file |-> l.file, answer |-> a, text |-> l.text]
    BY <1>2
  <2>3. n = [k EXCEPT !.text = t]
    OBVIOUS
  <2> HIDE DEF k
  <2>4. [k EXCEPT !.text = t] = m
    BY <2>2
  <2> QED
    BY <2>1, <2>3, <2>4
<1>4. m.file = l.file /\ m.answer = a /\ m.text = t
  OBVIOUS
<1>5. m = [slot |-> l.slot, file |-> l.file, answer |-> m.answer, text |-> m.text]
  OBVIOUS
<1>6. slips \subseteq slips' /\ (a = "failed" /\ content[l.file] # NoText => "failed load" \in slips')
  BY <1>1, NoteIs
<1>7. UNCHANGED <<server, tree, selected, editor, cache, saves, creating, deleting, edits, latest>>
      /\ l.answer = "none"
  BY DEF ServeLoad
<1> HIDE DEF m
<1> QED
  BY <1>1, <1>3, <1>4, <1>5, <1>6, <1>7

\* The server stores the text of a save, or fails.
LEMMA ServeSaveIs ==
    ASSUME Shape, NEW s \in saves, ServeSave(s)
    PROVE  \E m : /\ saves' = (saves \ {s}) \cup {m}
                  /\ m = [slot |-> s.slot, file |-> s.file, text |-> s.text,
                          answer |-> m.answer, then |-> s.then]
                  /\ m.file = s.file /\ m.text = s.text /\ s.answer = "none" /\ m.answer \in {"ok", "failed"}
                  /\ \/ s.file \in alive /\ content' = [content EXCEPT ![s.file] = s.text]
                     \/ content' = content /\ "failed save" \in slips'
                  /\ slips \subseteq slips'
                  /\ UNCHANGED <<alive, made, tree, selected, editor, cache, loads, creating,
                                 deleting, edits, latest>>
<1>1. PICK stored \in {TRUE, FALSE}, a \in {"ok", "failed"} :
        /\ stored => s.file \in alive
        /\ content' = IF stored THEN [content EXCEPT ![s.file] = s.text] ELSE content
        /\ saves' = (saves \ {s}) \cup {[s EXCEPT !.answer = a]}
        /\ Note("failed save", ~stored)
  BY DEF ServeSave
<1> DEFINE m == [slot |-> s.slot, file |-> s.file, text |-> s.text, answer |-> a,
                 then |-> s.then]
<1>2. s = [slot |-> s.slot, file |-> s.file, text |-> s.text, answer |-> s.answer,
           then |-> s.then]
  BY DEF Shape, SaveShaped
<1>3. saves' = (saves \ {s}) \cup {m}
  <2>1. [s EXCEPT !.answer = a] = m
    BY <1>2, SaveAnswered
  <2> QED
    BY <1>1, <2>1
<1>4. m.file = s.file /\ m.text = s.text /\ m.answer = a
  OBVIOUS
<1>5. m = [slot |-> s.slot, file |-> s.file, text |-> s.text, answer |-> m.answer,
           then |-> s.then]
  OBVIOUS
<1>6. slips \subseteq slips' /\ (~stored => "failed save" \in slips')
  BY <1>1, NoteIs
<1>7. UNCHANGED <<alive, made, tree, selected, editor, cache, loads, creating, deleting,
                  edits, latest>>
      /\ s.answer = "none"
  BY DEF ServeSave
<1> HIDE DEF m
<1> QED
  BY <1>1, <1>3, <1>4, <1>5, <1>6, <1>7

\* The editor, the copies and the requests keep their types when they stay.
LEMMA ShownShape ==
    ASSUME Shape, NEW f, Shown(f), tree' \subseteq 1 .. made, selected' \in 0 .. made,
           creating' = creating \/ creating' = NoCreation, deleting' = deleting
    PROVE  Shape'
<1>1. f \in Files /\ f \in 1 .. made /\ f \in 0 .. made /\ made \in Nat
  BY MadeIs DEF Shown
<1>2. cache' \in [Files -> Texts \cup {NoText}] /\ text' \in Texts
  <2>1. Empty(f) \in Texts
    BY <1>1, TextsAre
  <2>2. cache' \in [Files -> Texts \cup {NoText}]
    BY <2>1 DEF Shown, Shape
  <2> QED
    BY <1>1, <2>1, <2>2 DEF Shown
<1>3. PICK l : Asked(l, f) /\ loads' = loads \cup {l}
  BY DEF Shown
<1>4. LoadShaped(l)
  BY <1>1, <1>3 DEF Asked, LoadShaped
<1>5. /\ \A m \in loads' : LoadShaped(m)'
      /\ \A s \in saves' : SaveShaped(s)'
  BY <1>3, <1>4 DEF Shown, Shape, LoadShaped, SaveShaped, server
<1>6. creating'.file \in 0 .. made /\ (creating'.step = "tree" => creating'.file # None)
      /\ (creating'.step = "file" => made < MaxFiles)
  BY <1>1 DEF Shape, NoCreation, None
<1> QED
  BY <1>1, <1>2, <1>5, <1>6 DEF Shape, Shown, server

\* The same when a text is sent.
LEMMA SentShape ==
    ASSUME Shape, Sent, tree' = tree, selected' \in 0 .. made, creating' = creating,
           deleting' = deleting
    PROVE  Shape'
<1>1. open \in Files /\ open \in 1 .. made /\ made \in Nat /\ text \in Texts
  BY MadeIs DEF Sent, Shape, None
<1>2. cache' \in [Files -> Texts \cup {NoText}]
  BY <1>1 DEF Sent, Shape
<1>3. PICK s : /\ s = [slot |-> s.slot, file |-> open, text |-> text, answer |-> "none",
                       then |-> s.then]
               /\ s.then \in 0 .. made
               /\ saves' = saves \cup {s}
  BY DEF Sent
<1>4. SaveShaped(s)
  BY <1>1, <1>3 DEF SaveShaped
<1>5. /\ \A m \in loads' : LoadShaped(m)'
      /\ \A n \in saves' : SaveShaped(n)'
  BY <1>3, <1>4 DEF Sent, Shape, LoadShaped, SaveShaped, server
<1> QED
  BY <1>1, <1>2, <1>5 DEF Shape, Sent, server, editor

\* An edit writes a new text to the editor and to the copy.
LEMMA EditIs ==
    ASSUME Shape, Edit, NEW t, t = [of |-> text.of, n |-> edits + 2]
    PROVE  /\ open \in Files /\ open \in 1 .. made /\ text \in Texts /\ edits \in Nat
           /\ t \in Texts /\ t.of = text.of /\ t.n = edits + 2
           /\ text' = t /\ dirty' = TRUE /\ edits' = edits + 1
           /\ cache' = [cache EXCEPT ![open] = t] /\ latest' = [latest EXCEPT ![open] = t]
           /\ slips \subseteq slips'
           /\ ~LoadOf(open) \/ "edit during load" \in slips'
           /\ saves = {} \/ "edit during save" \in slips'
           /\ edits' \in 0 .. MaxEdits
           /\ UNCHANGED <<server, open, loads, saves>>
<1>1. open \in Files /\ open \in 1 .. made /\ text \in Texts /\ edits \in Nat
      /\ edits + 2 \in 0 .. MaxEdits + 1 /\ edits + 1 \in 0 .. MaxEdits
  <2>1. open \in Files /\ open \in 1 .. made /\ text \in Texts
    BY MadeIs DEF Edit, Shape
  <2>2. edits \in 0 .. MaxEdits /\ edits < MaxEdits
    BY DEF Edit, Shape
  <2>3. edits \in Nat /\ edits + 2 \in 0 .. MaxEdits + 1 /\ edits + 1 \in 0 .. MaxEdits
    BY <2>2, BoundsAssumption
  <2> QED
    BY <2>1, <2>3
<1>2. t \in Texts /\ t.of = text.of /\ t.n = edits + 2
  BY <1>1, TextsAre
<1>3. slips' = slips \cup ((IF \E l \in loads : l.file = open THEN {"edit during load"} ELSE {})
            \cup (IF saves # {} THEN {"edit during save"} ELSE {}))
  BY HappenIs DEF Edit
<1>4. /\ slips \subseteq slips' /\ (~LoadOf(open) \/ "edit during load" \in slips')
      /\ saves = {} \/ "edit during save" \in slips'
  BY <1>3 DEF LoadOf
<1> QED
  BY <1>1, <1>2, <1>4 DEF Edit

\* Every step keeps the types: an edit,
LEMMA EditShape == ASSUME Shape, Edit PROVE Shape'
<1> DEFINE t == [of |-> text.of, n |-> edits + 2]
<1> HIDE DEF t
<1>1. /\ open \in Files /\ open \in 1 .. made /\ t \in Texts
      /\ text' = t /\ edits' \in 0 .. MaxEdits
      /\ cache' = [cache EXCEPT ![open] = t] /\ latest' = [latest EXCEPT ![open] = t]
      /\ UNCHANGED <<server, open, loads, saves, tree, selected, creating, deleting>>
  BY EditIs DEF t, Edit
<1>2. cache' \in [Files -> Texts \cup {NoText}] /\ latest' \in [Files -> Texts]
  BY <1>1 DEF Shape
<1>3. /\ \A m \in loads' : LoadShaped(m)'
      /\ \A n \in saves' : SaveShaped(n)'
  BY <1>1 DEF Shape, LoadShaped, SaveShaped, server
<1>4. \A f \in Files : f > made' => latest'[f] = Empty(f)
  BY <1>1, MadeIs DEF Shape, server
<1> QED
  BY <1>1, <1>2, <1>3, <1>4 DEF Shape, server

\* the server's answer to a load,
LEMMA ServeLoadShape == ASSUME Shape, NEW l \in loads, ServeLoad(l) PROVE Shape'
<1>1. PICK m :
         /\ loads' = (loads \ {l}) \cup {m}
         /\ m = [slot |-> l.slot, file |-> l.file, answer |-> m.answer, text |-> m.text]
         /\ \/ m.answer = "ok" /\ m.text = content[l.file] /\ content[l.file] # NoText
            \/ m.answer = "failed"
         /\ UNCHANGED <<server, tree, selected, editor, cache, saves, creating, deleting,
                        edits, latest>>
  BY ServeLoadIs
<1>2. LoadShaped(l) /\ l.file \in Files
  BY MadeIs DEF Shape, LoadShaped
<1>3. m.file = l.file
  BY <1>1
<1>4. LoadShaped(m)
  BY <1>1, <1>2, <1>3 DEF LoadShaped, Shape
<1>5. /\ \A k \in loads' : LoadShaped(k)'
      /\ \A n \in saves' : SaveShaped(n)'
  BY <1>1, <1>4 DEF Shape, LoadShaped, SaveShaped, server
<1> QED
  BY <1>1, <1>5 DEF Shape, server, editor

\* the end of a load,
LEMMA OnLoadShape ==
    ASSUME Shape, NEW l \in loads, OnLoad(l) \/ OnLoadFailed(l)
    PROVE  Shape'
<1>1. LoadShaped(l) /\ l.file \in Files
  BY MadeIs DEF Shape, LoadShaped
<1>2. /\ loads' = loads \ {l}
      /\ \/ text' = text /\ cache' = cache
         \/ l.text \in Texts /\ text' = l.text /\ cache' = [cache EXCEPT ![l.file] = l.text]
      /\ UNCHANGED <<server, tree, selected, open, saves, creating, deleting, edits, latest>>
  BY <1>1 DEF OnLoad, OnLoadFailed, editor, history, LoadShaped
<1>3. /\ \A k \in loads' : LoadShaped(k)'
      /\ \A n \in saves' : SaveShaped(n)'
  BY <1>2 DEF Shape, LoadShaped, SaveShaped, server
<1>4. cache' \in [Files -> Texts \cup {NoText}]
  BY <1>1, <1>2 DEF Shape
<1> QED
  BY <1>2, <1>3, <1>4 DEF Shape, server

\* the server's answer to a save,
LEMMA ServeSaveShape == ASSUME Shape, NEW s \in saves, ServeSave(s) PROVE Shape'
<1>1. PICK m :
         /\ saves' = (saves \ {s}) \cup {m}
         /\ m = [slot |-> s.slot, file |-> s.file, text |-> s.text,
                 answer |-> m.answer, then |-> s.then]
         /\ m.answer \in {"ok", "failed"}
         /\ \/ s.file \in alive /\ content' = [content EXCEPT ![s.file] = s.text]
            \/ content' = content
         /\ UNCHANGED <<alive, made, tree, selected, editor, cache, loads, creating, deleting,
                        edits, latest>>
  BY ServeSaveIs
<1>2. SaveShaped(s) /\ s.file \in Files /\ s.text \in Texts
  BY MadeIs DEF Shape, SaveShaped
<1>3. m.file = s.file /\ m.text = s.text /\ m.then = s.then
  BY <1>1
<1>4. SaveShaped(m)
  BY <1>1, <1>2, <1>3 DEF SaveShaped
<1>5. /\ \A k \in loads' : LoadShaped(k)'
      /\ \A n \in saves' : SaveShaped(n)'
  BY <1>1, <1>4 DEF Shape, LoadShaped, SaveShaped
<1>6. content' \in [Files -> Texts \cup {NoText}]
      /\ \A f \in Files : f \notin alive' => content'[f] = NoText
  BY <1>1, <1>2 DEF Shape
<1> QED
  BY <1>1, <1>5, <1>6 DEF Shape, editor

\* the end of a save,
LEMMA OnSaveShape == ASSUME Shape, NEW s \in saves, OnSave(s) PROVE Shape'
<1>1. /\ saves' = saves \ {s}
      /\ IF s.then = None
         THEN dirty' = FALSE /\ UNCHANGED <<server, open, text, cache, loads, history>>
         ELSE Shown(s.then)
  BY OnSaveIs
<1>2. UNCHANGED <<tree, selected, creating, deleting>>
  BY DEF OnSave
<1>3. CASE s.then = None
  <2>1. /\ \A k \in loads' : LoadShaped(k)'
        /\ \A n \in saves' : SaveShaped(n)'
    BY <1>1, <1>3 DEF Shape, LoadShaped, SaveShaped, server
  <2> QED
    BY <1>1, <1>2, <1>3, <2>1 DEF Shape, server, history
<1>4. CASE s.then # None
  <2>1. tree' \subseteq 1 .. made /\ selected' \in 0 .. made
    BY <1>2 DEF Shape
  <2> QED
    BY <1>1, <1>2, <1>4, <2>1, ShownShape
<1> QED
  BY <1>3, <1>4

\* the creation of a file,
LEMMA OnCreateShape == ASSUME Shape, OnCreate PROVE Shape'
<1>1. made \in Nat /\ 1 .. made \subseteq 1 .. made + 1 /\ 0 .. made \subseteq 0 .. made + 1
      /\ made + 1 \in 1 .. made + 1 /\ made + 1 \in 0 .. made + 1 /\ made + 1 # None
      /\ made + 1 <= MaxFiles /\ made + 1 \in Nat
  BY BoundsAssumption DEF Shape, OnCreate, None
<1>2. /\ \/ made' = made + 1 /\ alive' = alive \cup {made + 1}
         \/ UNCHANGED <<made, alive>>
      /\ creating'.step # "file"
      /\ creating'.file \in 0 .. made' /\ (creating'.step = "tree" => creating'.file # None)
      /\ UNCHANGED <<content, tree, selected, open, text, cache, loads, saves, deleting,
                     edits, latest>>
  BY <1>1 DEF OnCreate, NoCreation, editor, history, None
<1>3. made' \in Nat /\ made <= made'
  BY <1>1, <1>2
<1>4. /\ \A k \in loads' : LoadShaped(k)'
      /\ \A n \in saves' : SaveShaped(n)'
  BY <1>2, <1>3, <1>1, ShapedOn DEF Shape
<1>5. /\ alive' \subseteq 1 .. made' /\ tree' \subseteq 1 .. made'
      /\ selected' \in 0 .. made' /\ open' \in 0 .. made' /\ deleting'.file \in 0 .. made'
  BY <1>1, <1>2 DEF Shape
<1>6. \A f \in Files : f > made' => latest'[f] = Empty(f)
  BY <1>1, <1>2 DEF Shape, Files
<1>7. \A f \in Files : f \notin alive' => content'[f] = NoText
  BY <1>1, <1>2 DEF Shape
<1> QED
  BY <1>1, <1>2, <1>3, <1>4, <1>5, <1>6, <1>7 DEF Shape

\* its deletion,
LEMMA OnDeleteShape == ASSUME Shape, OnDelete \/ OnDeleted PROVE Shape'
<1>1. UNCHANGED <<made, cache, loads, saves, creating, edits, latest>>
  BY DEF OnDelete, OnDeleted, history, server
<1>2. /\ alive' \subseteq alive
      /\ \/ content' = [f \in Files |-> IF f \in alive' THEN content[f] ELSE NoText]
         \/ content' = content /\ alive' = alive
  BY DEF OnDelete, OnDeleted, server
<1>3. /\ tree' = tree \/ tree' = alive
      /\ selected' = selected \/ selected' = None
      /\ open' = None \/ (open' = open /\ text' = text)
  BY DEF OnDelete, OnDeleted, GetTree, editor
<1>4. /\ deleting'.file \in 0 .. made
      /\ deleting' = [file |-> deleting'.file, wasOpen |-> deleting'.wasOpen,
                      step |-> deleting'.step]
  <2>1. CASE deleting' = NoDeletion
    BY <2>1, MadeIs DEF NoDeletion
  <2>2. CASE deleting' = [deleting EXCEPT !.step = "tree"]
    BY <2>2 DEF Shape
  <2> QED
    BY <2>1, <2>2 DEF OnDelete, OnDeleted
<1>5. /\ \A k \in loads' : LoadShaped(k)'
      /\ \A n \in saves' : SaveShaped(n)'
  BY <1>1 DEF Shape, LoadShaped, SaveShaped
<1>6. content' \in [Files -> Texts \cup {NoText}]
      /\ \A f \in Files : f \notin alive' => content'[f] = NoText
  BY <1>2 DEF Shape
<1>7. /\ alive' \subseteq 1 .. made /\ tree' \subseteq 1 .. made
      /\ selected' \in 0 .. made /\ open' \in 0 .. made
      /\ open' # None => text' \in Texts
  BY <1>2, <1>3, MadeIs DEF Shape
<1> QED
  BY <1>1, <1>4, <1>5, <1>6, <1>7 DEF Shape

\* Nothing that the other parts of the invariant speak of moves.
Quiet == UNCHANGED <<server, editor, cache, loads, saves, history>>

\* and the buttons.
LEMMA QuietShape == ASSUME Shape, NewFile \/ Delete \/ UNCHANGED vars PROVE Shape' /\ Quiet
<1>1. UNCHANGED <<server, editor, cache, loads, saves, history, tree, selected>>
  BY DEF NewFile, Delete, vars
<1>2. /\ creating'.file \in 0 .. made /\ (creating'.step = "tree" => creating'.file # None)
      /\ creating'.step = "file" => made < MaxFiles
  BY MadeIs DEF NewFile, Delete, vars, Shape
<1>3. /\ deleting'.file \in 0 .. made
      /\ deleting' = [file |-> deleting'.file, wasOpen |-> deleting'.wasOpen,
                      step |-> deleting'.step]
  BY DEF NewFile, Delete, vars, Shape
<1>4. /\ \A k \in loads' : LoadShaped(k)'
      /\ \A n \in saves' : SaveShaped(n)'
  BY <1>1 DEF Shape, LoadShaped, SaveShaped, server
<1> QED
  BY <1>1, <1>2, <1>3, <1>4 DEF Shape, Quiet, server, editor, history

\* The types at first.
LEMMA InitShape == ASSUME Init PROVE Shape
<1>1. 1 .. Existing \subseteq Files /\ Existing \in Nat /\ Existing <= MaxFiles
  BY BoundsAssumption DEF Files
<1>2. content \in [Files -> Texts \cup {NoText}] /\ cache \in [Files -> Texts \cup {NoText}]
      /\ latest \in [Files -> Texts]
  BY TextsAre DEF Init
<1>3. \A f \in Files : f > made => latest[f] = Empty(f)
  BY <1>1 DEF Init
<1>4. edits \in 0 .. MaxEdits /\ None \in 0 .. made
  BY <1>1, BoundsAssumption DEF Init, None
<1> QED
  BY <1>1, <1>2, <1>3, <1>4 DEF Init, Shape, NoCreation, NoDeletion

\* What has not happened by now had not happened before.
LEMMA NeverIs ==
    ASSUME slips \subseteq slips', NEW kinds, Never(kinds)'
    PROVE  Never(kinds) /\ \A k \in kinds : k \notin slips'
  BY DEF Never

\* Texts stay texts of their file: when a file is shown,
LEMMA ShownRight == ASSUME Shape, Right, NEW f, Shown(f) PROVE Right'
<1>1. f \in Files /\ f # None
  BY MadeIs DEF Shown, None
<1>2. OfFile(Empty(f), f)
  BY <1>1, TextsAre DEF OfFile, Right, Shape
<1>3. UNCHANGED <<content, latest, edits>> /\ open' = f
      /\ saves' \subseteq saves
  BY DEF Shown, server
<1>4. \A g \in Files : cache'[g] # NoText => OfFile(cache'[g], g)
  BY <1>1, <1>2 DEF Shown, Right, Shape
<1>5. OfFile(text', f)
  BY <1>1, <1>2, <1>4 DEF Shown
<1>6. \A l \in loads' : l.answer = "ok" => OfFile(l.text, l.file)
  BY DEF Shown, Asked, Right
<1> QED
  BY <1>3, <1>4, <1>5, <1>6 DEF Right, OfFile

\* when a text is sent,
LEMMA SentRight == ASSUME Shape, Right, Sent PROVE Right'
<1>1. open \in Files /\ open # None
  BY MadeIs DEF Sent, Shape
<1>2. UNCHANGED <<content, latest, edits, loads, open, text>>
  BY DEF Sent, server, editor
<1>3. \A g \in Files : cache'[g] # NoText => OfFile(cache'[g], g)
  BY <1>1 DEF Sent, Right, Shape
<1>4. \A s \in saves' : OfFile(s.text, s.file)
  <2>1. PICK n : n.file = open /\ n.text = text /\ saves' = saves \cup {n}
    BY DEF Sent
  <2> QED
    BY <1>1, <2>1 DEF Right
<1> QED
  BY <1>2, <1>3, <1>4 DEF Right, OfFile

\* after an edit,
LEMMA EditRight == ASSUME Shape, Right, Edit PROVE Right'
<1> DEFINE t == [of |-> text.of, n |-> edits + 2]
<1> HIDE DEF t
<1>1. /\ open \in Files /\ edits \in Nat /\ t \in Texts /\ t.of = text.of /\ t.n = edits + 2
      /\ text' = t /\ edits' = edits + 1
      /\ cache' = [cache EXCEPT ![open] = t] /\ latest' = [latest EXCEPT ![open] = t]
      /\ UNCHANGED <<content, open, loads, saves>>
  BY EditIs DEF t, server
<1>2. text.of = open
  BY <1>1 DEF Right, OfFile, Edit
<1>3. \A f \in Files : latest[f].n \in Nat /\ latest'[f].n \in Nat /\ latest[f].n <= latest'[f].n
  BY <1>1, TextsAre DEF Right, Shape
<1> DEFINE Still(x, f) == x.of = f /\ x.n <= latest'[f].n
<1>4. ASSUME NEW x \in Texts, NEW f \in Files, OfFile(x, f) PROVE Still(x, f)
  BY <1>3, <1>4, TextsAre DEF OfFile
<1>5. Still(t, open)
  BY <1>1, <1>2 DEF Shape
<1> HIDE DEF Still
<1>6. \A f \in Files : content[f] # NoText => Still(content[f], f)
  BY <1>4 DEF Right, Shape
<1>7. \A f \in Files : cache'[f] # NoText => Still(cache'[f], f)
  BY <1>1, <1>4, <1>5 DEF Right, Shape
<1>8. \A l \in loads : l.answer = "ok" => Still(l.text, l.file)
  BY <1>4, MadeIs DEF Right, Shape, LoadShaped
<1>9. \A s \in saves : Still(s.text, s.file)
  BY <1>4, MadeIs DEF Right, Shape, SaveShaped
<1>10. \A f \in Files : latest'[f].of = f /\ latest'[f].n <= edits' + 1
  BY <1>1, <1>2, TextsAre DEF Right, Shape
<1> QED
  BY <1>1, <1>5, <1>6, <1>7, <1>8, <1>9, <1>10 DEF Right, OfFile, Still

\* when the server answers a load,
LEMMA ServeLoadRight == ASSUME Shape, Right, NEW l \in loads, ServeLoad(l) PROVE Right'
<1>1. PICK m :
         /\ loads' = (loads \ {l}) \cup {m}
         /\ m.file = l.file
         /\ \/ m.answer = "ok" /\ m.text = content[l.file] /\ content[l.file] # NoText
            \/ m.answer = "failed"
         /\ UNCHANGED <<server, editor, cache, saves, edits, latest>>
  BY ServeLoadIs
<1>2. l.file \in Files
  BY MadeIs DEF Shape, LoadShaped
<1>4. \A k \in loads' : k.answer = "ok" => OfFile(k.text, k.file)
  BY <1>1, <1>2 DEF Right
<1> QED
  BY <1>1, <1>4 DEF Right, OfFile, server, editor

\* An answer that comes in over another file makes it wrong.
LEMMA OnLoadRight ==
    ASSUME Shape, Right, NEW l \in loads, OnLoad(l), "late load" \notin slips'
    PROVE  Right' /\ l.file = open
<1>1. l.file = open /\ l.file \in Files
  BY MadeIs, NoteIs DEF OnLoad, Shape, LoadShaped
<1>2. OfFile(l.text, open)
  BY <1>1 DEF Right, OnLoad
<1>3. text' = l.text /\ cache' = [cache EXCEPT ![l.file] = l.text] /\ loads' = loads \ {l}
      /\ UNCHANGED <<content, open, saves, edits, latest>>
  BY DEF OnLoad, server
<1>4. \A g \in Files : cache'[g] # NoText => OfFile(cache'[g], g)
  BY <1>1, <1>2, <1>3 DEF Right, Shape
<1> QED
  BY <1>1, <1>2, <1>3, <1>4 DEF Right, OfFile

\* when a load failed,
LEMMA OnLoadFailedRight == ASSUME Right, NEW l \in loads, OnLoadFailed(l) PROVE Right'
<1>1. loads' = loads \ {l} /\ UNCHANGED <<content, open, text, cache, saves, edits, latest>>
  BY DEF OnLoadFailed, server, editor, history
<1> QED
  BY <1>1 DEF Right, OfFile

\* when the server stores a text,
LEMMA ServeSaveRight == ASSUME Shape, Right, NEW s \in saves, ServeSave(s) PROVE Right'
<1>1. PICK m :
         /\ saves' = (saves \ {s}) \cup {m}
         /\ m.file = s.file /\ m.text = s.text
         /\ \/ content' = [content EXCEPT ![s.file] = s.text]
            \/ content' = content
         /\ UNCHANGED <<editor, cache, loads, edits, latest>>
  BY ServeSaveIs
<1>3. \A k \in saves' : OfFile(k.text, k.file)
  BY <1>1 DEF Right
<1>4. \A g \in Files : content'[g] # NoText => OfFile(content'[g], g)
  BY <1>1 DEF Right, Shape
<1> QED
  BY <1>1, <1>3, <1>4 DEF Right, OfFile, editor

\* when a save is over,
LEMMA OnSaveRight == ASSUME Shape, Right, NEW s \in saves, OnSave(s) PROVE Right'
<1>1. /\ saves' = saves \ {s}
      /\ IF s.then = None
         THEN UNCHANGED <<server, open, text, cache, loads, history>>
         ELSE Shown(s.then)
  BY OnSaveIs
<1>2. CASE s.then = None
  BY <1>1, <1>2 DEF Right, OfFile, server, history
<1> QED
  BY <1>1, <1>2, ShownRight

\* when files come and go,
LEMMA FilesRight == ASSUME Shape, Right, OnCreate \/ OnDelete \/ OnDeleted PROVE Right'
<1>1. UNCHANGED <<cache, loads, saves, edits, latest>>
  BY DEF OnCreate, OnDelete, OnDeleted, history
<1>2. open' = None \/ (open' = open /\ text' = text)
  BY DEF OnCreate, OnDelete, OnDeleted, GetTree, editor
<1>3. \A f \in Files : content'[f] \in {content[f], NoText}
  BY DEF OnCreate, OnDelete, OnDeleted, server
<1> QED
  BY <1>1, <1>2, <1>3 DEF Right, OfFile

\* and otherwise.
LEMMA QuietRight == ASSUME Right, Quiet PROVE Right'
  BY DEF Right, Quiet, OfFile, server, editor, history

\* They are at first.
LEMMA InitRight == ASSUME Init PROVE Right
<1>1. \A f \in Files : (content[f] # NoText => OfFile(content[f], f))
  BY TextsAre DEF Init, OfFile
<1>2. \A f \in Files : latest[f].of = f /\ latest[f].n <= edits + 1
  BY TextsAre DEF Init
<1> QED
  BY <1>1, <1>2 DEF Init, Right

\* The last text is kept when a file is shown that the server has settled on,
LEMMA ShownKept ==
    ASSUME Shape, Kept, NEW f, Shown(f), "reopened" \notin slips'
    PROVE  Kept'
<1>1. f \in Files /\ Settled(f) /\ open' = f /\ saves' \subseteq saves
      /\ UNCHANGED <<content, latest, alive>>
  BY MadeIs DEF Shown, server
<1>2. ASSUME NEW g, Settled(g) PROVE Settled(g)'
  BY <1>1, <1>2 DEF Settled, Stored
<1>3. \A g \in Files \ {f} : cache'[g] = cache[g]
  BY <1>1 DEF Shown, Shape
<1>4. PICK l : Asked(l, f) /\ loads' = loads \cup {l}
  BY DEF Shown
<1>5. l.file = f /\ l.answer = "none"
  BY <1>4 DEF Asked
<1>6. \A g \in alive' : latest'[g] = cache'[g] \/ Settled(g)'
  BY <1>1, <1>2, <1>3, MadeIs DEF Kept
<1>7. \A k \in loads' : k.file \in alive' =>
         /\ Settled(k.file)'
         /\ k.answer = "ok" => k.text = latest'[k.file]
         /\ k.answer = "failed" => latest'[k.file] = Empty(k.file)
  BY <1>1, <1>2, <1>4, <1>5 DEF Kept
<1>8. LoadOf(open)'
  BY <1>1, <1>4, <1>5 DEF LoadOf
<1> QED
  BY <1>6, <1>7, <1>8 DEF Kept

\* when a text is sent that is not being loaded,
LEMMA SentKept ==
    ASSUME Shape, Kept, Sent, "save during load" \notin slips'
    PROVE  Kept'
<1>1. open \in Files /\ ~LoadOf(open) /\ UNCHANGED <<alive, content, latest, loads, open, text>>
      /\ cache' = [cache EXCEPT ![open] = text]
  BY MadeIs DEF Sent, server, editor, Shape
<1>2. PICK s : s.file = open /\ saves' = saves \cup {s}
  BY DEF Sent
<1>4. ASSUME NEW g, g # open, Settled(g) PROVE Settled(g)'
  BY <1>1, <1>2, <1>4 DEF Settled, Stored
<1>5. open \in alive => cache'[open] = latest[open]
  BY <1>1 DEF Kept, Shape
<1>6. \A g \in alive' : latest'[g] = cache'[g] \/ Settled(g)'
  BY <1>1, <1>4, <1>5, MadeIs DEF Kept, Shape
<1>7. \A k \in loads' : k.file # open
  BY <1>1 DEF LoadOf
<1>8. \A k \in loads' : k.file \in alive' =>
         /\ Settled(k.file)'
         /\ k.answer = "ok" => k.text = latest'[k.file]
         /\ k.answer = "failed" => latest'[k.file] = Empty(k.file)
  BY <1>1, <1>4, <1>7 DEF Kept
<1>9. open' \in alive' /\ ~LoadOf(open)' => text' = latest'[open']
  BY <1>1 DEF Kept
<1> QED
  BY <1>6, <1>8, <1>9 DEF Kept

\* after an edit of such a text,
LEMMA EditKept ==
    ASSUME Shape, Kept, Edit, "edit during load" \notin slips'
    PROVE  Kept'
<1> DEFINE t == [of |-> text.of, n |-> edits + 2]
<1> HIDE DEF t
<1>1. /\ open \in Files /\ ~LoadOf(open) /\ text' = t
      /\ cache' = [cache EXCEPT ![open] = t] /\ latest' = [latest EXCEPT ![open] = t]
      /\ UNCHANGED <<alive, content, open, loads, saves>>
  BY EditIs DEF t, server
<1>2. cache'[open] = t /\ latest'[open] = t
  BY <1>1 DEF Shape
<1>3. \A g \in Files \ {open} : cache'[g] = cache[g] /\ latest'[g] = latest[g]
  BY <1>1 DEF Shape
<1>4. ASSUME NEW g \in Files, g # open, Settled(g) PROVE Settled(g)'
  BY <1>1, <1>3, <1>4 DEF Settled, Stored
<1>5. \A g \in alive' : latest'[g] = cache'[g] \/ Settled(g)'
  BY <1>1, <1>2, <1>3, <1>4, MadeIs DEF Kept
<1>6. \A k \in loads' : k.file # open /\ k.file \in Files
  BY <1>1, MadeIs DEF LoadOf, Shape, LoadShaped
<1>7. \A k \in loads' : k.file \in alive' =>
         /\ Settled(k.file)'
         /\ k.answer = "ok" => k.text = latest'[k.file]
         /\ k.answer = "failed" => latest'[k.file] = Empty(k.file)
  BY <1>1, <1>3, <1>4, <1>6 DEF Kept
<1> QED
  BY <1>1, <1>2, <1>5, <1>7 DEF Kept

\* when the server answers a load,
LEMMA ServeLoadKept ==
    ASSUME Shape, Kept, NEW l \in loads, ServeLoad(l), "failed load" \notin slips'
    PROVE  Kept'
<1>1. PICK m :
         /\ loads' = (loads \ {l}) \cup {m}
         /\ m.file = l.file
         /\ \/ m.answer = "ok" /\ m.text = content[l.file] /\ content[l.file] # NoText
            \/ m.answer = "failed" /\ content[l.file] = NoText
         /\ UNCHANGED <<server, editor, cache, saves, latest>>
  BY ServeLoadIs
<1>3. UNCHANGED <<alive, content, open, text, cache, saves, latest>>
  BY <1>1 DEF server, editor
<1>4. ASSUME NEW g, Settled(g) PROVE Settled(g)'
  BY <1>3, <1>4 DEF Settled, Stored
<1>5. l.file \in alive =>
         /\ m.answer = "ok" => m.text = latest[l.file]
         /\ m.answer = "failed" => latest[l.file] = Empty(l.file)
  BY <1>1 DEF Kept, Settled, Stored
<1>6. \A k \in loads' : k.file \in alive' =>
         /\ Settled(k.file)'
         /\ k.answer = "ok" => k.text = latest'[k.file]
         /\ k.answer = "failed" => latest'[k.file] = Empty(k.file)
  BY <1>1, <1>3, <1>4, <1>5 DEF Kept
<1>7. LoadOf(open) => LoadOf(open)'
  BY <1>1, <1>3 DEF LoadOf
<1> QED
  BY <1>3, <1>4, <1>6, <1>7 DEF Kept

\* when the load of the open file comes in,
LEMMA OnLoadKept ==
    ASSUME Shape, Right, Kept, NEW l \in loads, OnLoad(l), "late load" \notin slips'
    PROVE  Kept'
<1>1. l.file = open /\ open \in Files
  BY OnLoadRight, MadeIs DEF Shape, LoadShaped
<1>2. /\ text' = l.text /\ cache' = [cache EXCEPT ![open] = l.text] /\ loads' = loads \ {l}
      /\ UNCHANGED <<alive, content, open, saves, latest>>
  BY <1>1 DEF OnLoad, server
<1>3. open \in alive => l.text = latest[open]
  BY <1>1 DEF Kept, OnLoad
<1>4. ASSUME NEW g, Settled(g) PROVE Settled(g)'
  BY <1>2, <1>4 DEF Settled, Stored
<1>5. \A g \in alive' : latest'[g] = cache'[g] \/ Settled(g)'
  BY <1>1, <1>2, <1>3, <1>4, MadeIs DEF Kept, Shape
<1> QED
  BY <1>2, <1>3, <1>4, <1>5 DEF Kept

\* when it failed,
LEMMA OnLoadFailedKept ==
    ASSUME Shape, Right, Kept, NEW l \in loads, OnLoadFailed(l)
    PROVE  Kept'
<1>1. loads' = loads \ {l} /\ UNCHANGED <<alive, content, open, text, cache, saves, latest>>
      /\ l.answer = "failed"
  BY DEF OnLoadFailed, server, editor, history
<1>2. ASSUME NEW g, Settled(g) PROVE Settled(g)'
  BY <1>1, <1>2 DEF Settled, Stored
<1>3. ASSUME open \in alive, ~LoadOf(open)' PROVE text = latest[open]
  <2>1. CASE l.file = open
    <3>1. latest[open] = Empty(open) /\ open \in Files /\ open # None
      BY <1>1, <1>3, <2>1, MadeIs DEF Kept, Shape
    <3>2. text \in Texts /\ text.of = open /\ text.n <= 0
      BY <3>1, TextsAre DEF Right, OfFile, Shape
    <3> QED
      BY <3>1, <3>2, TextsAre DEF Empty
  <2>2. CASE l.file # open
    BY <1>1, <1>3, <2>2 DEF Kept, LoadOf
  <2> QED
    BY <2>1, <2>2
<1> QED
  BY <1>1, <1>2, <1>3 DEF Kept

\* when a save reaches the server or fails,
LEMMA ServeSaveKept ==
    ASSUME Shape, Kept, NEW s \in saves, ServeSave(s)
    PROVE  Kept'
<1>1. PICK m :
         /\ saves' = (saves \ {s}) \cup {m}
         /\ m.answer \in {"ok", "failed"} /\ s.answer = "none"
         /\ \/ content' = [content EXCEPT ![s.file] = s.text]
            \/ content' = content
         /\ UNCHANGED <<alive, editor, cache, loads, latest>>
  BY ServeSaveIs
<1>2. UNCHANGED <<alive, open, text, cache, loads, latest>>
  BY <1>1 DEF editor
<1>3. s.file \in Files /\ s.text \in Texts
  BY MadeIs DEF Shape, SaveShaped
<1>4. ASSUME NEW g \in Files, Settled(g) PROVE Settled(g)'
  <2>1. content'[g] = content[g] \/ (g = s.file /\ content'[g] = s.text)
    BY <1>1, <1>3 DEF Shape
  <2>2. Stored(g)' = latest[g]
    BY <1>1, <1>3, <1>4, <2>1, TextsAre DEF Settled, Stored
  <2> QED
    BY <1>1, <1>2, <1>4, <2>2 DEF Settled
<1>5. \A l \in loads : l.file \in Files
  BY MadeIs DEF Shape, LoadShaped
<1> QED
  BY <1>2, <1>4, <1>5, MadeIs DEF Kept, LoadOf

\* when the page learns of it,
LEMMA OnSaveKept ==
    ASSUME Shape, Kept, NEW s \in saves, OnSave(s), "reopened" \notin slips'
    PROVE  Kept'
<1>1. /\ saves' = saves \ {s}
      /\ IF s.then = None
         THEN UNCHANGED <<server, open, text, cache, loads, history>>
         ELSE Shown(s.then)
  BY OnSaveIs
<1>2. CASE s.then = None
  <2>1. UNCHANGED <<alive, content, open, text, cache, loads, latest>>
    BY <1>1, <1>2 DEF server, history
  <2>2. ASSUME NEW g, Settled(g) PROVE Settled(g)'
    BY <1>1, <2>1, <2>2 DEF Settled, Stored
  <2> QED
    BY <2>1, <2>2 DEF Kept, LoadOf
<1> QED
  BY <1>1, <1>2, ShownKept

\* when files come and go,
LEMMA FilesKept ==
    ASSUME Shape, Kept, OnCreate \/ OnDelete \/ OnDeleted
    PROVE  Kept'
<1>1. UNCHANGED <<cache, loads, saves, latest>>
  BY DEF OnCreate, OnDelete, OnDeleted, history
<1>2. (open' = open /\ text' = text) \/ open' = None
  BY DEF OnCreate, OnDelete, OnDeleted, GetTree, editor
<1>3. alive' \subseteq alive \cup {made + 1} /\ alive' \subseteq Files /\ made \in Nat
  <2>1. CASE OnCreate
    <3>1. (made' = made + 1 /\ alive' = alive \cup {made'}) \/ alive' = alive
      BY <2>1 DEF OnCreate
    <3>2. made + 1 \in Files
      BY <2>1, BoundsAssumption DEF OnCreate, Shape, Files
    <3> QED
      BY <3>1, <3>2, MadeIs
  <2>2. CASE OnDelete \/ OnDeleted
    <3>1. alive' \subseteq alive
      BY <2>2 DEF OnDelete, OnDeleted, server
    <3> QED
      BY <3>1, MadeIs
  <2> QED
    BY <2>1, <2>2
<1>4. \A f \in alive' : content'[f] = content[f]
  BY <1>3 DEF OnCreate, OnDelete, OnDeleted, server
<1>5. ASSUME NEW g \in alive', Settled(g) PROVE Settled(g)'
  BY <1>1, <1>4, <1>5 DEF Settled, Stored
<1>6. made + 1 \notin 1 .. made /\ made + 1 \notin 0 .. made /\ made + 1 \notin alive
  BY <1>3 DEF Shape
<1>7. made + 1 \in alive' => Settled(made + 1)
  <2> SUFFICES ASSUME made + 1 \in alive' PROVE Settled(made + 1)
    OBVIOUS
  <2>1. made + 1 \in Files /\ latest[made + 1] = Empty(made + 1) /\ content[made + 1] = NoText
    BY <1>3, <1>6 DEF Shape
  <2>2. \A s \in saves : s.file # made + 1
    BY <1>6 DEF Shape, SaveShaped
  <2> QED
    BY <2>1, <2>2 DEF Settled, Stored
<1>8. \A f \in alive' : latest'[f] = cache'[f] \/ Settled(f)'
  BY <1>1, <1>3, <1>5, <1>7 DEF Kept
<1>9. \A l \in loads : l.file \in alive' => l.file \in alive
  BY <1>3, <1>6 DEF Shape, LoadShaped
<1>10. open' \in alive' => open' \in alive /\ open' = open /\ text' = text
  BY <1>2, <1>3, <1>6, MadeIs DEF Shape, None, Files
<1> QED
  BY <1>1, <1>5, <1>8, <1>9, <1>10 DEF Kept, LoadOf

\* and otherwise.
LEMMA QuietKept == ASSUME Kept, Quiet PROVE Kept'
  BY DEF Kept, Quiet, Settled, Stored, LoadOf, server, editor, history

\* It is at first.
LEMMA InitKept == ASSUME Init PROVE Kept
<1>1. \A f \in alive : Settled(f)
  BY TextsAre, BoundsAssumption DEF Init, Settled, Stored, Files
<1>2. open \notin alive
  BY DEF Init, None
<1> QED
  BY <1>1, <1>2 DEF Init, Kept

\* A clean text stays what is stored when a file is shown,
LEMMA ShownClean ==
    ASSUME Shape, Right, Clean, NEW f, Shown(f), "reopened" \notin slips'
    PROVE  Clean'
<1>1. /\ f \in Files /\ Settled(f) /\ open' = f /\ dirty' = FALSE /\ saves' \subseteq saves
      /\ UNCHANGED <<content, latest, alive>>
  BY MadeIs DEF Shown, server
<1>2. PICK l : Asked(l, f) /\ loads' = loads \cup {l}
  BY DEF Shown
<1>3. l.file = f /\ l.answer = "none"
  BY <1>2 DEF Asked
<1>4. ASSUME NEW k, Served(k) PROVE Served(k)'
  BY <1>1, <1>4 DEF Served, Stored, OnItsWay
<1>5. Served(l)'
  BY <1>1, <1>3 DEF Served, Stored, OnItsWay, Settled
<1>6. \A k \in loads' : k.file \in alive' => Served(k)'
  BY <1>1, <1>2, <1>4, <1>5 DEF Clean
<1>7. LoadOf(open)'
  BY <1>1, <1>2, <1>3 DEF LoadOf
<1>8. ASSUME Stored(f) = Empty(f) PROVE text' = Empty(f)
  <2>1. latest[f] = Empty(f)
    BY <1>1, <1>8 DEF Settled
  <2>2. CASE cache' = cache
    <3>1. cache[f] \in Texts \cup {NoText} /\ (cache[f] # NoText => cache[f].of = f /\ cache[f].n <= 0)
      BY <1>1, <2>1, TextsAre DEF Right, OfFile, Shape
    <3>2. cache[f] # NoText => cache[f] = Empty(f)
      BY <1>1, <3>1, TextsAre DEF Empty
    <3> QED
      BY <2>2, <3>2 DEF Shown
  <2> QED
    BY <2>2 DEF Shown
<1>9. Stored(f)' = Stored(f)
  BY <1>1 DEF Stored
<1> QED
  BY <1>1, <1>6, <1>7, <1>8, <1>9 DEF Clean

\* when a text is sent,
LEMMA SentClean ==
    ASSUME Shape, Clean, Sent, "save during load" \notin slips'
    PROVE  Clean'
<1>1. ~LoadOf(open) /\ UNCHANGED <<alive, content, loads, open, text, dirty>>
  BY DEF Sent, server, editor
<1>2. PICK s : /\ s.file = open /\ s.text = text /\ s.answer = "none"
               /\ saves' = saves \cup {s}
  BY DEF Sent
<1>3. \A k \in loads : k.file # open
  BY <1>1 DEF LoadOf
<1>4. ASSUME NEW k \in loads, Served(k) PROVE Served(k)'
  BY <1>1, <1>2, <1>3, <1>4 DEF Served, Stored, OnItsWay
<1>5. ~LoadOf(open)'
  BY <1>1 DEF LoadOf
<1>6. \E n \in saves' : OnItsWay(n, open)
  BY <1>2 DEF OnItsWay
<1>7. open \in alive => \A n \in saves' : OnItsWay(n, open) => n.text = text
  BY <1>1, <1>2 DEF Clean
<1> QED
  BY <1>1, <1>4, <1>5, <1>6, <1>7 DEF Clean, OnItsWay

\* after an edit,
LEMMA EditClean ==
    ASSUME Shape, Clean, Edit, "edit during save" \notin slips'
    PROVE  Clean'
<1> DEFINE t == [of |-> text.of, n |-> edits + 2]
<1>1. /\ saves = {} /\ dirty' = TRUE
      /\ UNCHANGED <<alive, content, open, loads, saves>>
  <2> HIDE DEF t
  <2> QED
    BY EditIs DEF t, server
<1>2. ASSUME NEW k \in loads, Served(k) PROVE Served(k)'
  BY <1>1, <1>2 DEF Served, Stored
<1> QED
  BY <1>1, <1>2 DEF Clean

\* when the server answers a load,
LEMMA ServeLoadClean ==
    ASSUME Shape, Clean, NEW l \in loads, ServeLoad(l), "failed load" \notin slips'
    PROVE  Clean'
<1>1. PICK m :
         /\ loads' = (loads \ {l}) \cup {m}
         /\ m.file = l.file
         /\ \/ m.answer = "ok" /\ m.text = content[l.file] /\ content[l.file] # NoText
            \/ m.answer = "failed" /\ content[l.file] = NoText
         /\ UNCHANGED <<server, editor, saves>>
  BY ServeLoadIs
<1>2. UNCHANGED <<alive, content, open, text, dirty, saves>>
  BY <1>1 DEF server, editor
<1>3. ASSUME NEW k \in loads, Served(k) PROVE Served(k)'
  BY <1>2, <1>3 DEF Served, Stored
<1>4. m.file \in alive => Served(m)'
  BY <1>1, <1>2 DEF Clean, Served, Stored
<1>5. LoadOf(open)' = LoadOf(open)
  BY <1>1, <1>2 DEF LoadOf
<1>6. Stored(open)' = Stored(open)
  BY <1>2 DEF Stored
<1> QED
  BY <1>1, <1>2, <1>3, <1>4, <1>5, <1>6 DEF Clean, OnItsWay

\* when the load comes in,
LEMMA OnLoadClean ==
    ASSUME Shape, Right, Clean, NEW l \in loads, OnLoad(l), "late load" \notin slips'
    PROVE  Clean'
<1>1. l.file = open /\ l.answer = "ok"
  BY OnLoadRight DEF OnLoad
<1>2. /\ text' = l.text /\ dirty' = FALSE /\ loads' = loads \ {l}
      /\ UNCHANGED <<alive, content, open, saves>>
  BY DEF OnLoad, server
<1>3. open \in alive => /\ l.text = Stored(open)
                        /\ \A s \in saves : OnItsWay(s, open) => s.text = Stored(open)
  BY <1>1 DEF Clean, Served
<1>4. ASSUME NEW k \in loads, Served(k) PROVE Served(k)'
  BY <1>2, <1>4 DEF Served, Stored
<1>5. Stored(open)' = Stored(open)
  BY <1>2 DEF Stored
<1> QED
  BY <1>2, <1>3, <1>4, <1>5 DEF Clean, OnItsWay

\* when it failed,
LEMMA OnLoadFailedClean ==
    ASSUME Shape, Clean, NEW l \in loads, OnLoadFailed(l)
    PROVE  Clean'
<1>1. loads' = loads \ {l} /\ UNCHANGED <<alive, content, open, text, dirty, saves>>
      /\ l.answer = "failed"
  BY DEF OnLoadFailed, server, editor
<1>2. ASSUME NEW k \in loads, Served(k) PROVE Served(k)'
  BY <1>1, <1>2 DEF Served, Stored
<1>3. Stored(open)' = Stored(open)
  BY <1>1 DEF Stored
<1>4. LoadOf(open)' => LoadOf(open)
  BY <1>1 DEF LoadOf
<1>5. ASSUME open \in alive, ~LoadOf(open)', ~dirty \/ saves # {}
      PROVE  /\ text = Stored(open) \/ \E s \in saves : OnItsWay(s, open)
             /\ \A s \in saves : OnItsWay(s, open) => s.text = text
  <2>1. CASE l.file = open
    <3>1. LoadOf(open)
      BY <2>1 DEF LoadOf
    <3>2. ~dirty /\ Served(l)
      BY <1>5, <2>1, <3>1 DEF Clean
    <3>3. text = Stored(open)
      BY <1>1, <1>5, <2>1, <3>1, <3>2 DEF Clean, Served
    <3> QED
      BY <2>1, <3>2, <3>3 DEF Served
  <2>2. CASE l.file # open
    <3>1. ~LoadOf(open)
      BY <1>1, <1>5, <2>2 DEF LoadOf
    <3> QED
      BY <1>5, <3>1 DEF Clean
  <2> QED
    BY <2>1, <2>2
<1> QED
  BY <1>1, <1>2, <1>3, <1>4, <1>5 DEF Clean, OnItsWay

\* when a save reaches the server,
LEMMA ServeSaveClean ==
    ASSUME Shape, Clean, NEW s \in saves, ServeSave(s), "failed save" \notin slips'
    PROVE  Clean'
<1>1. PICK m :
         /\ saves' = (saves \ {s}) \cup {m}
         /\ m.answer \in {"ok", "failed"} /\ s.answer = "none"
         /\ s.file \in alive /\ content' = [content EXCEPT ![s.file] = s.text]
         /\ UNCHANGED <<alive, editor, loads>>
  BY ServeSaveIs
<1>2. UNCHANGED <<alive, open, text, dirty, loads>>
  BY <1>1 DEF editor
<1>3. s.file \in Files /\ s.text \in Texts /\ s.text # NoText
  BY MadeIs, TextsAre DEF Shape, SaveShaped
<1>4. Stored(s.file)' = s.text
  BY <1>1, <1>3 DEF Stored, Shape
<1>5. ASSUME NEW f \in alive, f # s.file PROVE Stored(f)' = Stored(f)
  BY <1>1, <1>3, <1>5, MadeIs DEF Stored, Shape
<1>6. \A n \in saves', f \in alive : OnItsWay(n, f) => n \in saves
  BY <1>1 DEF OnItsWay
<1>7. ASSUME NEW k \in loads, k.file \in alive PROVE Stored(k.file)' = Stored(k.file)
  <2>1. CASE k.file = s.file
    <3>1. Served(k)
      BY <1>7 DEF Clean
    <3>2. OnItsWay(s, k.file)
      BY <1>1, <2>1 DEF OnItsWay
    <3> QED
      BY <1>4, <2>1, <3>1, <3>2 DEF Served
  <2> QED
    BY <1>5, <1>7, <2>1
<1>8. ASSUME NEW k \in loads, k.file \in alive PROVE Served(k)'
  <2>1. Served(k)
    BY <1>8 DEF Clean
  <2> QED
    BY <1>6, <1>7, <1>8, <2>1 DEF Served, OnItsWay
<1>10. PICK f : f = open
  OBVIOUS
<1>11. f \in alive /\ LoadOf(f) => Stored(f)' = Stored(f)
  BY <1>7 DEF LoadOf
<1>12. ASSUME f \in alive, ~LoadOf(f)
       PROVE  /\ text = Stored(f)' \/ \E n \in saves' : OnItsWay(n, f)
              /\ \A n \in saves' : OnItsWay(n, f) => n.text = text
  <2>1. /\ text = Stored(f) \/ \E n \in saves : OnItsWay(n, f)
        /\ \A n \in saves : OnItsWay(n, f) => n.text = text
    BY <1>10, <1>12 DEF Clean
  <2>2. CASE s.file = f
    BY <1>1, <1>4, <1>6, <1>12, <2>1, <2>2 DEF OnItsWay
  <2>3. CASE s.file # f
    <3>1. \A n \in saves : OnItsWay(n, f) => n \in saves'
      BY <1>1, <2>3 DEF OnItsWay
    <3> QED
      BY <1>5, <1>6, <1>12, <2>1, <2>3, <3>1
  <2> QED
    BY <2>2, <2>3
<1>13. dirty => ~LoadOf(f)
  BY <1>10 DEF Clean
<1>14. open' = f
  BY <1>2, <1>10
<1>15. LoadOf(f)' = LoadOf(f)
  BY <1>2 DEF LoadOf
<1>16. ASSUME f \in alive, LoadOf(f), ~dirty, Stored(f)' = Empty(f) PROVE text = Empty(f)
  BY <1>10, <1>11, <1>16 DEF Clean
<1> QED
  BY <1>2, <1>8, <1>12, <1>13, <1>14, <1>15, <1>16 DEF Clean, OnItsWay

\* when the page learns of it,
LEMMA OnSaveClean ==
    ASSUME Shape, Right, Clean, NEW s \in saves, OnSave(s), "reopened" \notin slips'
    PROVE  Clean'
<1>1. /\ saves' = saves \ {s} /\ s.answer # "none"
      /\ IF s.then = None
         THEN dirty' = FALSE /\ UNCHANGED <<server, open, text, cache, loads, history>>
         ELSE Shown(s.then)
  BY OnSaveIs
<1>2. CASE s.then = None
  <2>1. UNCHANGED <<alive, content, open, text, loads>> /\ dirty' = FALSE
    BY <1>1, <1>2 DEF server
  <2>2. ASSUME NEW k \in loads, Served(k) PROVE Served(k)'
    BY <1>1, <2>1, <2>2 DEF Served, Stored
  <2>3. LoadOf(open)' = LoadOf(open) /\ Stored(open)' = Stored(open)
    BY <2>1 DEF LoadOf, Stored
  <2>4. \A f : (\E n \in saves' : OnItsWay(n, f)) <=> (\E n \in saves : OnItsWay(n, f))
    BY <1>1 DEF OnItsWay
  <2> QED
    BY <1>1, <2>1, <2>2, <2>3, <2>4 DEF Clean, OnItsWay
<1> QED
  BY <1>1, <1>2, ShownClean

\* when files come and go,
LEMMA FilesClean ==
    ASSUME Shape, Clean, OnCreate \/ OnDelete \/ OnDeleted
    PROVE  Clean'
<1>1. UNCHANGED <<loads, saves>>
  BY DEF OnCreate, OnDelete, OnDeleted
<1>2. (open' = open /\ text' = text /\ dirty' = dirty) \/ open' = None
  BY DEF OnCreate, OnDelete, OnDeleted, GetTree, editor
<1>3. alive' \subseteq alive \cup {made + 1} /\ made \in Nat
  BY MadeIs DEF OnCreate, OnDelete, OnDeleted, server
<1>4. \A f \in alive \cap alive' : content'[f] = content[f]
  BY MadeIs DEF OnCreate, OnDelete, OnDeleted, server
<1>5. made + 1 \notin 1 .. made /\ made + 1 \notin 0 .. made /\ None # made + 1 /\ None \notin alive
  BY <1>3 DEF Shape, None
<1>6. \A l \in loads : l.file \in alive' => l.file \in alive
  BY <1>3, <1>5 DEF Shape, LoadShaped
<1>7. ASSUME NEW k \in loads, k.file \in alive' PROVE Served(k)'
  BY <1>1, <1>4, <1>6, <1>7 DEF Clean, Served, Stored
<1>8. \A l \in loads : l.file # None
  BY MadeIs DEF Shape, LoadShaped
<1>9. ~LoadOf(None)'
  BY <1>1, <1>8 DEF LoadOf
<1>10. None \notin alive'
  BY <1>3, <1>5
<1>11. open \in alive' => open \in alive
  BY <1>3, <1>5 DEF Shape
<1>12. CASE open' = None
  BY <1>7, <1>1, <1>9, <1>10, <1>12 DEF Clean, LoadOf
<1>13. CASE open' = open /\ text' = text /\ dirty' = dirty
  <2>1. LoadOf(open)' = LoadOf(open)
    BY <1>1, <1>13 DEF LoadOf
  <2>2. open \in alive' => Stored(open)' = Stored(open)
    BY <1>4, <1>11, <1>13 DEF Stored
  <2> QED
    BY <1>1, <1>7, <1>11, <1>13, <2>1, <2>2 DEF Clean, OnItsWay
<1> QED
  BY <1>2, <1>12, <1>13

\* and otherwise.
LEMMA QuietClean == ASSUME Clean, Quiet PROVE Clean'
<1>1. UNCHANGED <<alive, content, open, text, dirty, loads, saves>>
  BY DEF Quiet, server, editor
<1> QED
  BY <1>1 DEF Clean, Served, Stored, LoadOf, OnItsWay

\* It is at first.
LEMMA InitClean == ASSUME Init PROVE Clean
  BY DEF Init, Clean, None

\* Every step keeps the types, and the history.
LEMMA ShapeStep == ASSUME Shape, [Next]_vars PROVE Shape' /\ slips \subseteq slips'
<1>1. ASSUME Shape, Save \/ \E f \in Files : ClickAndSave(f) PROVE Shape' /\ slips \subseteq slips'
  <2>1. Sent
    BY <1>1, SavesAre
  <2>2. tree' = tree /\ selected' \in 0 .. made /\ creating' = creating /\ deleting' = deleting
    BY <1>1 DEF Save, ClickAndSave, Shape
  <2> QED
    BY <2>1, <2>2, SentShape DEF Sent
<1>2. ASSUME NEW f \in Files, Click(f) PROVE Shape' /\ slips \subseteq slips'
  <2>1. Shown(f)
    BY <1>2, ClickIs
  <2>2. tree' \subseteq 1 .. made /\ selected' \in 0 .. made /\ creating' = creating
        /\ deleting' = deleting
    BY <1>2 DEF Click, Shape
  <2> QED
    BY <2>1, <2>2, ShownShape DEF Shown
<1>3. CASE OnCreated
  <2>1. Shown(creating.file)
    BY <1>3, OnCreatedIs
  <2>2. tree' \subseteq 1 .. made /\ selected' \in 0 .. made /\ creating' = NoCreation
        /\ deleting' = deleting
    BY <1>3 DEF OnCreated, Shape
  <2> QED
    BY <2>1, <2>2, ShownShape DEF Shown
<1>4. CASE Edit
  BY <1>4, EditShape, EditIs
<1>5. ASSUME NEW l \in loads, ServeLoad(l) \/ OnLoad(l) \/ OnLoadFailed(l)
      PROVE  Shape' /\ slips \subseteq slips'
  <2>1. CASE ServeLoad(l)
    <3>1. slips \subseteq slips'
      BY <2>1, NoteIs DEF ServeLoad
    <3> QED
      BY <2>1, <3>1, ServeLoadShape
  <2>2. CASE OnLoad(l)
    <3>1. slips \subseteq slips'
      BY <2>2, NoteIs DEF OnLoad
    <3> QED
      BY <2>2, <3>1, OnLoadShape
  <2>3. CASE OnLoadFailed(l)
    BY <2>3, OnLoadShape DEF OnLoadFailed, history
  <2> QED
    BY <1>5, <2>1, <2>2, <2>3
<1>6. ASSUME NEW s \in saves, ServeSave(s) \/ OnSave(s)
      PROVE  Shape' /\ slips \subseteq slips'
  <2>1. CASE ServeSave(s)
    BY <2>1, ServeSaveShape, ServeSaveIs
  <2>2. CASE OnSave(s)
    BY <2>2, OnSaveShape, OnSaveIs DEF Shown, history
  <2> QED
    BY <1>6, <2>1, <2>2
<1>7. CASE OnCreate
  BY <1>7, OnCreateShape DEF OnCreate, history
<1>8. CASE OnDelete \/ OnDeleted
  BY <1>8, OnDeleteShape DEF OnDelete, OnDeleted, history
<1>9. CASE NewFile \/ Delete \/ UNCHANGED vars
  BY <1>9, QuietShape DEF Quiet, history
<1> QED
  BY <1>1, <1>2, <1>3, <1>4, <1>5, <1>6, <1>7, <1>8, <1>9 DEF Next

\* Every step keeps texts those of their file, or a load came in late.
LEMMA RightStep ==
    ASSUME Shape, Right, [Next]_vars, "late load" \notin slips'
    PROVE  Right'
<1>1. ASSUME NEW f \in Files, Click(f) PROVE Right'
  BY <1>1, ClickIs, ShownRight
<1>2. CASE OnCreated
  BY <1>2, OnCreatedIs, ShownRight
<1>3. ASSUME NEW l \in loads, ServeLoad(l) \/ OnLoad(l) \/ OnLoadFailed(l) PROVE Right'
  BY <1>3, ServeLoadRight, OnLoadRight, OnLoadFailedRight
<1>4. ASSUME NEW s \in saves, ServeSave(s) \/ OnSave(s) PROVE Right'
  BY <1>4, ServeSaveRight, OnSaveRight
<1>5. CASE Save \/ \E f \in Files : ClickAndSave(f)
  BY <1>5, SavesAre, SentRight
<1>6. CASE Edit \/ OnCreate \/ OnDelete \/ OnDeleted
  BY <1>6, EditRight, FilesRight
<1>7. CASE NewFile \/ Delete \/ UNCHANGED vars
  BY <1>7, QuietShape, QuietRight
<1> QED
  BY <1>1, <1>2, <1>3, <1>4, <1>5, <1>6, <1>7 DEF Next

\* Every step keeps the last texts, or notes what loses them.
LEMMA KeptStep ==
    ASSUME Shape, Right, Kept, [Next]_vars, "late load" \notin slips', "failed load" \notin slips',
           "edit during load" \notin slips', "save during load" \notin slips',
           "reopened" \notin slips'
    PROVE  Kept'
<1>1. ASSUME NEW f \in Files, Click(f) PROVE Kept'
  BY <1>1, ClickIs, ShownKept
<1>2. CASE OnCreated
  BY <1>2, OnCreatedIs, ShownKept
<1>3. ASSUME NEW l \in loads, ServeLoad(l) \/ OnLoad(l) \/ OnLoadFailed(l) PROVE Kept'
  BY <1>3, ServeLoadKept, OnLoadKept, OnLoadFailedKept
<1>4. ASSUME NEW s \in saves, ServeSave(s) \/ OnSave(s) PROVE Kept'
  BY <1>4, ServeSaveKept, OnSaveKept
<1>5. CASE Save \/ \E f \in Files : ClickAndSave(f)
  BY <1>5, SavesAre, SentKept
<1>6. CASE Edit \/ OnCreate \/ OnDelete \/ OnDeleted
  BY <1>6, EditKept, FilesKept
<1>7. CASE NewFile \/ Delete \/ UNCHANGED vars
  BY <1>7, QuietShape, QuietKept
<1> QED
  BY <1>1, <1>2, <1>3, <1>4, <1>5, <1>6, <1>7 DEF Next

\* Every step keeps clean texts, or notes what breaks them.
LEMMA CleanStep ==
    ASSUME Shape, Right, Clean, [Next]_vars, "late load" \notin slips', "failed load" \notin slips',
           "failed save" \notin slips', "edit during save" \notin slips',
           "save during load" \notin slips', "reopened" \notin slips'
    PROVE  Clean'
<1>1. ASSUME NEW f \in Files, Click(f) PROVE Clean'
  BY <1>1, ClickIs, ShownClean
<1>2. CASE OnCreated
  BY <1>2, OnCreatedIs, ShownClean
<1>3. ASSUME NEW l \in loads, ServeLoad(l) \/ OnLoad(l) \/ OnLoadFailed(l) PROVE Clean'
  BY <1>3, ServeLoadClean, OnLoadClean, OnLoadFailedClean
<1>4. ASSUME NEW s \in saves, ServeSave(s) \/ OnSave(s) PROVE Clean'
  BY <1>4, ServeSaveClean, OnSaveClean
<1>5. CASE Save \/ \E f \in Files : ClickAndSave(f)
  BY <1>5, SavesAre, SentClean
<1>6. CASE Edit \/ OnCreate \/ OnDelete \/ OnDeleted
  BY <1>6, EditClean, FilesClean
<1>7. CASE NewFile \/ Delete \/ UNCHANGED vars
  BY <1>7, QuietShape, QuietClean
<1> QED
  BY <1>1, <1>2, <1>3, <1>4, <1>5, <1>6, <1>7 DEF Next

\* The invariant holds at first.
LEMMA InvInit == Init => IInv
  BY InitShape, InitRight, InitKept, InitClean DEF IInv, RightTexts, LastTexts,
     CleanTexts

\* Every step keeps the invariant.
LEMMA InvStep == IInv /\ [Next]_vars => IInv'
<1> SUFFICES ASSUME IInv, [Next]_vars PROVE IInv'
  OBVIOUS
<1>1. Shape /\ Shape' /\ slips \subseteq slips'
  BY ShapeStep DEF IInv
<1>2. RightTexts'
  <2> SUFFICES ASSUME Never({"late load"})' PROVE Right'
    BY DEF RightTexts
  <2>1. Right /\ "late load" \notin slips'
    BY <1>1, NeverIs DEF IInv, RightTexts
  <2> QED
    BY <1>1, <2>1, RightStep
<1>3. LastTexts'
  <2> DEFINE kinds == {"late load", "failed load", "edit during load", "save during load",
                       "reopened"}
  <2> SUFFICES ASSUME Never(kinds)' PROVE Kept'
    BY DEF LastTexts
  <2>1. Never(kinds) /\ \A k \in kinds : k \notin slips'
    BY <1>1, NeverIs
  <2>2. Kept
    BY <2>1 DEF IInv, LastTexts
  <2>3. Right
    BY <2>1 DEF IInv, RightTexts, Never
  <2> QED
    BY <1>1, <2>1, <2>2, <2>3, KeptStep
<1>4. CleanTexts'
  <2> DEFINE kinds == {"late load", "failed load", "failed save", "edit during save",
                       "save during load", "reopened"}
  <2> SUFFICES ASSUME Never(kinds)' PROVE Clean'
    BY DEF CleanTexts
  <2>1. Never(kinds) /\ \A k \in kinds : k \notin slips'
    BY <1>1, NeverIs
  <2>2. Clean
    BY <2>1 DEF IInv, CleanTexts
  <2>3. Right
    BY <2>1 DEF IInv, RightTexts, Never
  <2> QED
    BY <1>1, <2>1, <2>2, <2>3, CleanStep
<1> QED
  BY <1>1, <1>2, <1>3, <1>4 DEF IInv

\* The invariant holds of every behaviour, for any number of files, edits
\* and requests.
THEOREM Invariance == Spec => []IInv
  BY InvInit, InvStep, PTL DEF Spec

\* The editor shows a text of the file that is open, unless a load came in
\* over it (the answers that the page applies to whatever is open).
THEOREM OpenTextHolds == Spec => []OpenText
<1>1. IInv => OpenText
  BY DEF IInv, OpenText, RightTexts, Right, OfFile
<1> QED
  BY <1>1, Invariance, PTL

\* The last text written is on the server or in the local copy, until one of
\* the named things loses it (the editor's change, save and load handlers).
THEOREM LastEditsKept == Spec => []LastEditKept
<1>1. IInv => LastEditKept
  BY DEF IInv, LastEditKept, LastTexts, Kept, Settled
<1> QED
  BY <1>1, Invariance, PTL

\* A text that is not marked as unsaved is what the server has, unless one of
\* the named things broke that (the mark that a save takes off).
THEOREM CleanTextsSaved == Spec => []CleanIsSaved
<1>1. IInv => CleanIsSaved
  BY DEF IInv, CleanIsSaved, CleanTexts, Clean, LoadOf
<1> QED
  BY <1>1, Invariance, PTL

-----------------------------------------------------------------------------
(* The chat.                                                               *)

\* The types of the variables that the argument is about.
LinkType ==
    /\ mounted \in {"before", "mounted", "left"}
    /\ handler \in 0 .. MaxSockets
    /\ reconnector \in BOOLEAN /\ delay \in BOOLEAN /\ beats \in BOOLEAN
    /\ sock \in [Sockets -> {"connecting", "open", "closing", "closed"}]
    /\ connected \in [Sockets -> BOOLEAN]
    /\ pinger \in [Sockets -> BOOLEAN]
    /\ ponger \in [Sockets -> BOOLEAN]

\* A page that was left has nothing that would connect again.
Resting == mounted = "left" => state # "active" /\ ~reconnector

LinkInv == LinkType /\ OneLink /\ Resting

LEMMA NoSocketIsNone == NoSocket \notin Sockets
  BY DEF NoSocket, Sockets

LEMMA LinkInit == ChatInit => LinkInv
<1> SUFFICES ASSUME ChatInit PROVE LinkInv
  OBVIOUS
<1>1. handler \in 0 .. MaxSockets
  BY ChatBounds DEF ChatInit, NoSocket
<1>2. LinkType
  BY <1>1 DEF ChatInit, LinkType
<1>3. OneLink /\ Resting
  BY DEF ChatInit, OneLink, Resting, Live
<1> QED
  BY <1>2, <1>3 DEF LinkInv

\* A client without a handler has no live socket, so that the new one is alone.
LEMMA ConnectKeeps ==
    ASSUME LinkInv, NEW activation, Connect(activation)
    PROVE  /\ handler' \in 0 .. MaxSockets
           /\ sock' \in [Sockets -> {"connecting", "open", "closing", "closed"}]
           /\ connected' \in [Sockets -> BOOLEAN]
           /\ pinger' \in [Sockets -> BOOLEAN]
           /\ ponger' \in [Sockets -> BOOLEAN]
           /\ OneLink'
           /\ activation # "active" => sock' = sock
<1>1. CASE handler # NoSocket \/ activation # "active"
  BY <1>1 DEF Connect, LinkInv, LinkType, OneLink, Live, handlerVars
<1>2. CASE ~(handler # NoSocket \/ activation # "active")
  <2>1. PICK s \in Sockets : NewHandler(s)
    BY <1>2 DEF Connect
  <2>2. \A t \in Sockets : ~Live(t) /\ ~pinger[t] /\ ~ponger[t]
    BY <1>2, NoSocketIsNone DEF LinkInv, LinkType, OneLink
  <2>3. handler' = s /\ handler' \in 0 .. MaxSockets
    BY <2>1 DEF NewHandler, Sockets
  <2>4. OneLink'
    BY <2>1, <2>2 DEF NewHandler, OneLink, Live, LinkInv, LinkType
  <2> QED
    BY <1>2, <2>1, <2>3, <2>4 DEF NewHandler, LinkInv, LinkType
<1> QED
  BY <1>1, <1>2

LEMMA LinkStep == LinkInv /\ [ChatNext]_chatVars => LinkInv'
<1> SUFFICES ASSUME LinkInv, [ChatNext]_chatVars PROVE LinkInv'
  OBVIOUS
<1> USE DEF LinkInv
<1>1. CASE Mount
  <2>1. /\ Connect("active") /\ mounted' = "mounted" /\ reconnector' = reconnector
        /\ delay' = TRUE /\ beats' = beats
    BY <1>1 DEF Mount, roomVars
  <2> QED
    BY <2>1, ConnectKeeps DEF LinkType, Resting
<1>2. CASE ReconnectTimer
  <2>1. /\ Connect(state) /\ mounted' = mounted /\ state' = state /\ reconnector' = FALSE
        /\ delay' = delay /\ beats' = beats
    BY <1>2 DEF ReconnectTimer, roomVars
  <2> QED
    BY <2>1, ConnectKeeps DEF LinkType, Resting
<1>3. CASE Leave
  BY <1>3 DEF Leave, Dispose, roomVars, LinkType, OneLink, Resting, Live
<1>4. CASE Say \/ Broadcast
  <2>1. UNCHANGED <<clientVars, sock, handlerVars, beats>>
    BY <1>4 DEF Say, Broadcast, roomVars
  <2> QED
    BY <2>1 DEF clientVars, handlerVars, LinkType, OneLink, Resting, Live
<1>5. ASSUME NEW s \in Sockets,
             OnOpen(s) \/ HeartbeatLost(s) \/ ServerCloses(s)
      PROVE  LinkInv'
  BY <1>5 DEF OnOpen, HeartbeatLost, ServerCloses, clientVars, handlerVars, roomVars,
     LinkType, OneLink, Resting, Live
<1>6. ASSUME NEW s \in Sockets, OnConnected(s)
      PROVE  LinkInv'
  <2>1. /\ sock[s] = "open" /\ UNCHANGED <<mounted, state, handler, reconnector, sock, beats>>
        /\ connected' = [connected EXCEPT ![s] = TRUE]
        /\ pinger' = [pinger EXCEPT ![s] = beats]
        /\ ponger' = [ponger EXCEPT ![s] = beats]
        /\ delay' = TRUE
    BY <1>6 DEF OnConnected, Arrives, roomVars
  <2>2. LinkType' /\ Resting'
    BY <2>1 DEF LinkType, Resting
  <2>3. ASSUME NEW t \in Sockets
        PROVE  (Live(t) => handler = t)' /\ (pinger[t] \/ ponger[t] => Live(t) /\ connected[t])'
    BY <2>1 DEF LinkType, OneLink, Live
  <2> QED
    BY <2>2, <2>3 DEF OneLink
<1>7. ASSUME NEW s \in Sockets, OnMessage(s) \/ FallsSilent(s)
      PROVE  LinkInv'
  BY <1>7 DEF OnMessage, FallsSilent, clientVars, handlerVars, roomVars,
     LinkType, OneLink,
     Resting, Live
<1>8. ASSUME NEW s \in Sockets, OnReceipt(s)
      PROVE  LinkInv'
  BY <1>8 DEF OnReceipt, Arrives, clientVars, roomVars, LinkType, OneLink,
     Resting, Live
<1>9. ASSUME NEW s \in Sockets, OnClose(s)
      PROVE  LinkInv'
  <2>1. handler = s /\ \A t \in Sockets : Live(t) => t = s
    BY <1>9 DEF OnClose, OneLink, Live
  <2>2. OneLink'
    BY <1>9, <2>1 DEF OnClose, CleanUp, OneLink, Live, LinkType
  <2>3. Resting'
    BY <1>9 DEF OnClose, OnWebSocketClose, Resting
  <2>4. LinkType'
    <3>1. handler' \in 0 .. MaxSockets
      BY <1>9, ChatBounds DEF OnClose, OnWebSocketClose, NoSocket
    <3>2. reconnector' \in BOOLEAN
      BY <1>9 DEF OnClose, OnWebSocketClose
    <3> QED
      BY <1>9, <3>1, <3>2 DEF OnClose, CleanUp, roomVars, LinkType
  <2> QED
    BY <2>2, <2>3, <2>4
<1>10. ASSUME NEW s \in Sockets, NEW frame \in ToServer, ServerTakes(s, frame)
       PROVE  LinkInv'
  BY <1>10 DEF ServerTakes, clientVars, handlerVars, roomVars,
     LinkType, OneLink, Resting, Live
<1>11. CASE UNCHANGED chatVars
  BY <1>11 DEF chatVars, clientVars, handlerVars, roomVars,
     LinkType, OneLink, Resting, Live
<1> QED
  BY <1>1, <1>2, <1>3, <1>4, <1>5, <1>6, <1>7, <1>8, <1>9, <1>10, <1>11 DEF ChatNext

\* It holds of every behaviour.
THEOREM LinkInvariance == ChatSpec => []LinkInv
  BY LinkInit, LinkStep, PTL DEF ChatSpec

\* The client has one socket at a time, and heartbeat timers for it alone,
\* however often it reconnects.
THEOREM OneSocket == ChatSpec => []OneLink
<1>1. LinkInv => OneLink
  BY DEF LinkInv
<1> QED
  BY <1>1, LinkInvariance, PTL

\* No step makes a socket live when the page was left.
LEMMA NoReturn ==
    LinkInv /\ [ChatNext]_chatVars => (mounted = "left" => \A s \in Sockets : Live(s)' => Live(s))
<1> SUFFICES ASSUME LinkInv, [ChatNext]_chatVars, mounted = "left", NEW s \in Sockets, Live(s)'
             PROVE  Live(s)
  OBVIOUS
<1> USE DEF LinkInv, LinkType, Resting
<1>1. ~reconnector /\ ~Mount /\ ~Leave
  BY DEF Mount, Leave
<1>2. CASE Say \/ Broadcast \/ UNCHANGED chatVars
  BY <1>2 DEF Say, Broadcast, chatVars, Live
<1>3. ASSUME NEW t \in Sockets,
             \/ OnOpen(t) \/ OnConnected(t) \/ OnMessage(t) \/ OnReceipt(t)
             \/ HeartbeatLost(t) \/ OnClose(t) \/ ServerCloses(t) \/ FallsSilent(t)
      PROVE  Live(s)
  BY <1>3 DEF OnOpen, OnConnected, OnMessage, OnReceipt, Arrives, HeartbeatLost,
     OnClose, ServerCloses, FallsSilent, Live
<1>4. ASSUME NEW t \in Sockets, NEW frame \in ToServer, ServerTakes(t, frame)
      PROVE  Live(s)
  BY <1>4 DEF ServerTakes, Live
<1> QED
  BY <1>1, <1>2, <1>3, <1>4 DEF ChatNext, ReconnectTimer

\* A page that was left makes no connection any more, whatever timers and
\* sockets it leaves behind.
THEOREM LeavesForGood == ChatSpec => LeftForGood
<1>1. LinkInv /\ [ChatNext]_chatVars =>
        [mounted = "left" => \A s \in Sockets : Live(s)' => Live(s)]_chatVars
  BY NoReturn
<1> QED
  BY <1>1, LinkInvariance, PTL DEF ChatSpec, LeftForGood
=============================================================================
