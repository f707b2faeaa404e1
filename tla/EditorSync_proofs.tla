-------------------------- MODULE EditorSync_proofs --------------------------
(***************************************************************************)
(* What holds of a file's text for every number of sessions, editors and   *)
(* versions and for texts over every set of units: the stored versions     *)
(* have no gap, and every TEXT_SYNC leads from one to the next.  And when  *)
(* one client alone writes, all others come to show what it had stored.    *)
(*                                                                         *)
(* None is inductive.  The first two rest on what a thread or transaction  *)
(* holds between the query and the insert (Held): the row it read as the   *)
(* latest is still stored when it inserts the next version, since rows are *)
(* never deleted, although it need not be the latest any more.  That the   *)
(* difference then leads from that row's text to the new one is            *)
(* DiffGivesNewText.  The last rests on LInv: the changes on their way to  *)
(* a client lead, one by one, from its text to the stored one, or the last *)
(* is still to be sent to it (Served).                                     *)
(*                                                                         *)
(* The last part is about the rooms that the broadcasts go to.             *)
(***************************************************************************)
EXTENDS EditorSync, EditorRooms, TextChange_proofs

\* What is held between a query and an insert, and between two sends.
Held ==
    /\ \A s \in Sessions :
          /\ pc[s] = "save" => current[s] \in rows \cup {NoRow} /\ message[s] \in Change
          /\ pc[s] = "send" => target[s] \in Sessions
    /\ saver = "insert" => saveBase \in rows \cup {NoRow}
    /\ \A r \in rows : r.version <= stored

\* m leads from one stored version to the next.
Linked(m) ==
    \E r \in rows, q \in rows \cup {NoRow} :
        /\ r.version = m.version
        /\ q.version = m.version - 1
        /\ Apply(m.change, q.text) = r.text

\* SyncLinksVersions, message by message.
Links ==
    \A s \in Sessions :
        /\ sync[s] # NoSync => Linked(sync[s])
        /\ \A i \in 1 .. Len(inbox[s]) : Linked(inbox[s][i])

IInv == TypeOK /\ Held /\ NoVersionGap /\ Links

-----------------------------------------------------------------------------
(* Rows and texts.                                                         *)

LEMMA NoRowIs == NoRow.id = 0 /\ NoRow.version = 0 /\ NoRow.text = <<>> /\ NoRow \notin Row
BY DEF NoRow, Row

LEMMA RowIs ==
    ASSUME NEW r \in Row \cup {NoRow}
    PROVE  /\ r.version \in 0 .. MaxRows /\ r.text \in Seq(Units)
           /\ r # NoRow => r.version \in 1 .. MaxRows
<1>1. CASE r \in Row
  BY <1>1, SyncAssumption DEF Row
<1>2. CASE r = NoRow
  <2>1. <<>> \in Seq(Units)
    OBVIOUS
  <2> QED
    BY <1>2, <2>1, SyncAssumption DEF NoRow
<1> QED
  BY <1>1, <1>2

LEMMA LatestIs == Latest \subseteq rows \cup {NoRow}
BY DEF Latest

\* A client has a text again after it has applied a change.
LEMMA ApplyType ==
    ASSUME NEW change \in TextEdit, NEW text \in Seq(Units)
    PROVE  Apply(change, text) \in Seq(Units)
<1>1. Len(text) \in Nat
  BY LenProperties
<1>2. /\ change.start \in Nat /\ change.end + 1 \in Nat \ {0} /\ change.newText \in Seq(Units)
  BY DEF TextEdit
<1>3. Least(change.start, Len(text)) \in Nat /\ Least(change.start, Len(text)) <= Len(text)
  BY <1>1, <1>2 DEF Least
<1>4. SubSeq(text, 1, Least(change.start, Len(text))) \in Seq(Units)
  BY <1>3, Cut
<1>5. SubSeq(text, change.end + 1, Len(text)) \in Seq(Units)
  BY <1>1, <1>2, Cut
<1>6. SubSeq(text, 1, Least(change.start, Len(text))) \o change.newText \in Seq(Units)
  BY <1>2, <1>4, ConcatProperties
<1> QED
  BY <1>5, <1>6, ConcatProperties DEF Apply

\* Links, when no TEXT_SYNC is new.
LEMMA LinksKept ==
    ASSUME Links, rows \subseteq rows',
           \A s \in Sessions : sync'[s] = sync[s] \/ sync'[s] = NoSync,
           \A s \in Sessions : inbox'[s] = inbox[s] \/ inbox'[s] = <<>>
    PROVE  Links'
<1> SUFFICES ASSUME NEW s \in Sessions
             PROVE  (/\ sync[s] # NoSync => Linked(sync[s])
                     /\ \A i \in 1 .. Len(inbox[s]) : Linked(inbox[s][i]))'
  BY DEF Links
<1>1. (sync[s] # NoSync => Linked(sync[s]))'
  <2> SUFFICES ASSUME (sync[s] # NoSync)' PROVE Linked(sync[s])'
    OBVIOUS
  <2>1. sync'[s] = sync[s] /\ Linked(sync[s])
    BY DEF Links, NoSync
  <2> QED
    BY <2>1 DEF Linked
<1>2. ASSUME NEW i \in 1 .. Len(inbox'[s]) PROVE Linked(inbox[s][i])'
  <2>1. inbox'[s] = inbox[s]
    OBVIOUS
  <2>2. Linked(inbox[s][i])
    BY <2>1 DEF Links
  <2> QED
    BY <2>1, <2>2 DEF Linked
<1> QED
  BY <1>1, <1>2

-----------------------------------------------------------------------------
(* The initial states.                                                     *)

LEMMA InvInit == Init => IInv
<1> SUFFICES ASSUME Init PROVE IInv
  OBVIOUS
<1>1. TypeOK
  <2>1. EmptyReplica \in [version : 0 .. MaxRows, text : Seq(Units)]
    BY SyncAssumption DEF EmptyReplica
  <2> QED
    BY <2>1, SyncAssumption DEF Init, TypeOK
<1>2. Held
  BY DEF Init, Held
<1>3. NoVersionGap
  BY DEF Init, NoVersionGap, Versions
<1>4. Links
  <2>1. \A s \in Sessions : sync[s] = NoSync /\ inbox[s] = <<>>
    BY DEF Init
  <2>2. 1 .. Len(<<>>) = {}
    OBVIOUS
  <2> QED
    BY <2>1, <2>2 DEF Links
<1> QED
  BY <1>1, <1>2, <1>3, <1>4 DEF IInv

-----------------------------------------------------------------------------
(* Inserts.                                                                *)

\* The version after one that is stored is itself within the bound, leaves no
\* gap, and the rows stay.
LEMMA InsertKeeps ==
    ASSUME TypeOK, Held, NoVersionGap,
           NEW base \in rows \cup {NoRow}, NEW text \in Texts,
           Insert(base.version + 1, text)
    PROVE  /\ rows' \subseteq Row /\ stored' \in 0 .. MaxRows
           /\ rows \subseteq rows' /\ (\A r \in rows : r.version <= stored)'
           /\ base.version + 1 \in 1 .. MaxRows
           /\ \E r \in rows' : r.version = base.version + 1 /\ r.text = text
           /\ NoVersionGap'
<1> DEFINE next == base.version + 1
           new  == [id |-> stored + 1, version |-> next, text |-> text]
<1>1. /\ stored < MaxRows /\ stored \in Nat /\ MaxRows \in Nat
      /\ stored' = stored + 1 /\ rows' = rows \cup {new}
  BY SyncAssumption DEF Insert, TypeOK
<1>2. base.version \in Nat /\ base.version <= stored
  BY <1>1, NoRowIs, SyncAssumption DEF Held, TypeOK, Row
<1>3. /\ next \in 1 .. MaxRows /\ stored + 1 \in 1 .. MaxRows /\ next <= stored + 1
  BY <1>1, <1>2
<1>4. new \in Row /\ new.version = next /\ new.text = text
  BY <1>3 DEF Row
<1> HIDE DEF new, next
<1>5. \A r \in rows : r.version \in Nat
  BY SyncAssumption DEF TypeOK, Row
<1>6. rows' \subseteq Row /\ rows \subseteq rows'
  BY <1>1, <1>4 DEF TypeOK
<1>7. (\A r \in rows : r.version <= stored)'
  BY <1>1, <1>3, <1>4, <1>5 DEF Held
<1>8. NoVersionGap'
  <2>1. Versions' = Versions \cup {next}
    BY <1>1, <1>4 DEF Versions
  <2>2. base.version = 0 \/ base.version \in Versions
    BY NoRowIs DEF Versions
  <2>3. 1 .. base.version \subseteq Versions
    BY <2>2 DEF NoVersionGap
  <2>4. 1 .. next = 1 .. base.version \cup {next}
    BY <1>2 DEF next
  <2> QED
    BY <2>1, <2>3, <2>4 DEF NoVersionGap
<1> QED
  BY <1>1, <1>3, <1>4, <1>6, <1>7, <1>8 DEF next

-----------------------------------------------------------------------------
(* The clients.                                                            *)

LEMMA ClientStep ==
    ASSUME IInv, NEW s \in Sessions,
           Connect(s) \/ Close(s) \/ Edit(s) \/ ApplySync(s)
    PROVE  IInv'
<1> USE DEF IInv
<1>1. TypeOK'
  <2>1. CASE Connect(s)
    <3>1. PICK r \in Latest :
             replica' = [replica EXCEPT ![s] = [version |-> r.version, text |-> r.text]]
      BY <2>1 DEF Connect
    <3>2. r \in Row \cup {NoRow}
      BY LatestIs DEF TypeOK
    <3>3. [version |-> r.version, text |-> r.text] \in [version : 0 .. MaxRows, text : Seq(Units)]
      BY <3>2, RowIs
    <3> QED
      BY <2>1, <3>1, <3>3 DEF TypeOK, Connect, storeVars, threadVars, sendVars, restVars
  <2>2. CASE Close(s)
    <3>1. EmptyReplica \in [version : 0 .. MaxRows, text : Seq(Units)]
      BY SyncAssumption DEF EmptyReplica
    <3> QED
      BY <2>2, <3>1 DEF TypeOK, Close, storeVars, threadVars, sendVars, restVars
  <2>3. CASE Edit(s)
    <3>1. PICK text \in Contents[s], twice \in BOOLEAN :
             outbox' = [outbox EXCEPT ![s] =
                <<[version |-> replica[s].version, text |-> text, typeTwice |-> twice]>>]
      BY <2>3 DEF Edit
    <3>2. text \in Texts /\ replica[s].version \in 0 .. MaxRows
      BY DEF Texts, TypeOK
    <3>3. <<[version |-> replica[s].version, text |-> text, typeTwice |-> twice]>> \in Seq(Change)
      BY <3>2 DEF Change
    <3> QED
      BY <2>3, <3>1, <3>3 DEF TypeOK, Edit, storeVars, threadVars, sendVars, restVars
  <2>4. CASE ApplySync(s)
    <3> DEFINE m == Head(inbox[s])
               new == IF m.version > replica[s].version
                      THEN [version |-> m.version, text |-> Apply(m.change, replica[s].text)]
                      ELSE replica[s]
    <3>1. inbox[s] \in Seq(Sync) /\ inbox[s] # <<>>
      BY <2>4 DEF TypeOK, ApplySync
    <3>2. m \in Sync /\ Tail(inbox[s]) \in Seq(Sync)
      BY <3>1, HeadTailProperties
    <3>3. m.version \in 0 .. MaxRows /\ m.change \in TextEdit
      BY <3>2, SyncAssumption DEF Sync
    <3>4. replica[s] \in [version : 0 .. MaxRows, text : Seq(Units)]
      BY DEF TypeOK
    <3>5. Apply(m.change, replica[s].text) \in Seq(Units)
      BY <3>3, <3>4, ApplyType
    <3>6. new \in [version : 0 .. MaxRows, text : Seq(Units)]
      BY <3>3, <3>4, <3>5
    <3>7. replica' = [replica EXCEPT ![s] = new] /\ inbox' = [inbox EXCEPT ![s] = Tail(inbox[s])]
      BY <2>4 DEF ApplySync
    <3> HIDE DEF new
    <3> QED
      BY <2>4, <3>2, <3>6, <3>7
         DEF TypeOK, ApplySync, storeVars, threadVars, sendVars, restVars
  <2> QED
    BY <2>1, <2>2, <2>3, <2>4
<1>2. UNCHANGED <<storeVars, threadVars, sendVars, restVars>>
  BY DEF Connect, Close, Edit, ApplySync
<1>3. Held'
  BY <1>2 DEF Held, storeVars, threadVars, sendVars, restVars
<1>4. NoVersionGap'
  BY <1>2 DEF NoVersionGap, Versions, storeVars
<1>5. Links'
  <2>1. CASE ApplySync(s)
    <3>1. inbox[s] \in Seq(Sync) /\ inbox[s] # <<>>
      BY <2>1 DEF TypeOK, ApplySync
    <3>2. /\ Len(Tail(inbox[s])) = Len(inbox[s]) - 1 /\ Len(inbox[s]) \in Nat
          /\ \A i \in 1 .. Len(inbox[s]) - 1 : Tail(inbox[s])[i] = inbox[s][i + 1]
      BY <3>1, HeadTailProperties
    <3>3. \A q \in Sessions : inbox'[q] = IF q = s THEN Tail(inbox[s]) ELSE inbox[q]
      BY <2>1 DEF TypeOK, ApplySync
    <3>4. ASSUME NEW q \in Sessions, NEW i \in 1 .. Len(inbox'[q])
          PROVE  \E j \in 1 .. Len(inbox[q]) : inbox'[q][i] = inbox[q][j]
      <4>1. CASE q = s
        <5>1. i \in 1 .. Len(inbox[s]) - 1 /\ i + 1 \in 1 .. Len(inbox[s])
          <6>1. inbox'[q] = Tail(inbox[s])
            BY <4>1, <3>3
          <6>2. i \in 1 .. Len(Tail(inbox[s]))
            BY <6>1
          <6> QED
            BY <6>2, <3>2
        <5>2. Tail(inbox[s])[i] = inbox[s][i + 1]
          BY <5>1, <3>2
        <5> QED
          BY <4>1, <5>1, <5>2, <3>3
      <4>2. CASE q # s
        BY <4>2, <3>3
      <4> QED
        BY <4>1, <4>2
    <3>5. ASSUME NEW q \in Sessions, NEW i \in 1 .. Len(inbox'[q])
          PROVE  Linked(inbox[q][i])'
      <4>1. PICK j \in 1 .. Len(inbox[q]) : inbox'[q][i] = inbox[q][j]
        BY <3>4
      <4>2. Linked(inbox[q][j])
        BY DEF Links
      <4>3. rows' = rows
        BY <1>2 DEF storeVars
      <4> QED
        BY <4>1, <4>2, <4>3 DEF Linked
    <3>6. \A q \in Sessions : (sync[q] # NoSync => Linked(sync[q]))'
      BY <1>2 DEF Links, Linked, storeVars, threadVars
    <3> QED
      BY <3>5, <3>6 DEF Links
  <2>2. CASE Connect(s) \/ Close(s) \/ Edit(s)
    <3>1. \A q \in Sessions : inbox'[q] = inbox[q] \/ inbox'[q] = <<>>
      BY <2>2 DEF Connect, Close, Edit, TypeOK
    <3> QED
      BY <3>1, <1>2, LinksKept DEF storeVars, threadVars
  <2> QED
    BY <2>1, <2>2
<1> QED
  BY <1>1, <1>3, <1>4, <1>5

-----------------------------------------------------------------------------
(* The handler.                                                            *)

LEMMA ReceiveStep ==
    ASSUME IInv, NEW s \in Sessions, ReceiveUntyped(s) \/ ReceiveChange(s)
    PROVE  IInv'
<1> USE DEF IInv
<1>1. outbox[s] \in Seq(Change) /\ outbox[s] # <<>>
  BY DEF TypeOK, ReceiveUntyped, ReceiveChange, Receive
<1>2. Head(outbox[s]) \in Change /\ Tail(outbox[s]) \in Seq(Change)
  BY <1>1, HeadTailProperties
<1>3. outbox' = [outbox EXCEPT ![s] = Tail(outbox[s])]
  BY DEF ReceiveUntyped, ReceiveChange, Receive
<1>4. /\ UNCHANGED <<storeVars, conn, inbox, replica, sync, sendVars, restVars>>
      /\ \/ UNCHANGED <<pc, message, current>>
         \/ /\ message' = [message EXCEPT ![s] = Head(outbox[s])]
            /\ \E r \in Latest : current' = [current EXCEPT ![s] = r]
            /\ pc' = [pc EXCEPT ![s] = "save"]
  <2>1. CASE ReceiveUntyped(s)
    BY <2>1 DEF ReceiveUntyped, threadVars
  <2>2. CASE ReceiveChange(s)
    BY <2>2 DEF ReceiveChange, Goto
  <2> QED
    BY <2>1, <2>2
<1>5. Latest \subseteq Row \cup {NoRow}
  BY LatestIs DEF TypeOK
<1>6. TypeOK'
  <2>1. outbox' \in [Sessions -> Seq(Change)]
    BY <1>2, <1>3 DEF TypeOK
  <2>2. pc' \in [Sessions -> {"idle", "save", "broadcast", "loop", "send"}]
    <3>1. pc \in [Sessions -> {"idle", "save", "broadcast", "loop", "send"}]
      BY DEF TypeOK
    <3> HIDE DEF IInv
    <3> QED
      BY <3>1, <1>4
  <2>3. message' \in [Sessions -> Change \cup {NoMessage}]
    <3>1. message \in [Sessions -> Change \cup {NoMessage}]
      BY DEF TypeOK
    <3> HIDE DEF IInv
    <3> QED
      BY <3>1, <1>2, <1>4
  <2>4. current' \in [Sessions -> Row \cup {NoRow}]
    <3>1. current \in [Sessions -> Row \cup {NoRow}]
      BY DEF TypeOK
    <3> HIDE DEF IInv
    <3> QED
      BY <3>1, <1>4, <1>5
  <2> QED
    BY <2>1, <2>2, <2>3, <2>4, <1>4 DEF TypeOK, storeVars, sendVars, restVars
<1>7. Held'
  <2>1. ASSUME NEW q \in Sessions, (pc[q] = "save")'
        PROVE  (current[q] \in rows \cup {NoRow} /\ message[q] \in Change)'
    BY <2>1, <1>2, <1>4, LatestIs DEF Held, TypeOK, storeVars
  <2>2. ASSUME NEW q \in Sessions, (pc[q] = "send")' PROVE (target[q] \in Sessions)'
    BY <2>2, <1>4 DEF Held, TypeOK, sendVars
  <2>3. (saver = "insert" => saveBase \in rows \cup {NoRow})'
    BY <1>4 DEF Held, storeVars, restVars
  <2>4. (\A r \in rows : r.version <= stored)'
    BY <1>4 DEF Held, storeVars
  <2> QED
    BY <2>1, <2>2, <2>3, <2>4 DEF Held
<1>8. NoVersionGap'
  BY <1>4 DEF NoVersionGap, Versions, storeVars
<1>9. Links'
  BY <1>4, LinksKept DEF storeVars
<1> QED
  BY <1>6, <1>7, <1>8, <1>9

LEMMA SaveStep == ASSUME IInv, NEW s \in Sessions, Save(s) PROVE IInv'
<1> USE DEF IInv
<1> DEFINE base == current[s]
           text == message[s].text
           m    == [version |-> base.version + 1, change |-> Diff(base.text, text)]
<1>1. base \in rows \cup {NoRow} /\ message[s] \in Change
  BY DEF Save, Held
<1>2. text \in Texts /\ text \in Seq(Units)
  BY <1>1, SyncAssumption DEF Change
<1>3. base.text \in Seq(Units)
  BY <1>1, RowIs DEF TypeOK
<1>4. Insert(base.version + 1, text)
  BY DEF Save
<1>5. /\ rows' \subseteq Row /\ stored' \in 0 .. MaxRows
      /\ rows \subseteq rows' /\ (\A r \in rows : r.version <= stored)'
      /\ base.version + 1 \in 1 .. MaxRows
      /\ \E r \in rows' : r.version = base.version + 1 /\ r.text = text
      /\ NoVersionGap'
  <2> HIDE DEF base, text
  <2> QED
    BY <1>1, <1>2, <1>4, InsertKeeps
<1>6. Diff(base.text, text) \in TextEdit /\ Apply(Diff(base.text, text), base.text) = text
  <2> HIDE DEF base, text
  <2> QED
    BY <1>2, <1>3, DiffGivesNewText DEF TextEdit
<1>7. m \in Sync
  BY <1>5, <1>6 DEF Sync
<1>8. /\ sync' = [sync EXCEPT ![s] = m]
      /\ message' = [message EXCEPT ![s] = NoMessage]
      /\ current' = [current EXCEPT ![s] = NoRow]
      /\ pc' = [pc EXCEPT ![s] = "broadcast"]
      /\ UNCHANGED <<clientVars, sendVars, restVars>>
  BY DEF Save, Goto
<1> HIDE DEF m
<1>9. TypeOK'
  BY <1>5, <1>7, <1>8 DEF TypeOK, clientVars, sendVars, restVars
<1>10. Held'
  <2>1. ASSUME NEW q \in Sessions, (pc[q] = "save")'
        PROVE  (current[q] \in rows \cup {NoRow} /\ message[q] \in Change)'
    BY <2>1, <1>5, <1>8 DEF Held, TypeOK
  <2>2. ASSUME NEW q \in Sessions, (pc[q] = "send")' PROVE (target[q] \in Sessions)'
    BY <2>2, <1>8 DEF Held, TypeOK, sendVars
  <2>3. (saver = "insert" => saveBase \in rows \cup {NoRow})'
    BY <1>5, <1>8 DEF Held, restVars
  <2> QED
    BY <2>1, <2>2, <2>3, <1>5 DEF Held
<1>11. Links'
  <2>1. ASSUME NEW q \in Sessions, (sync[q] # NoSync)' PROVE Linked(sync[q])'
    <3>1. CASE q = s
      <4>1. sync'[q] = m
        BY <3>1, <1>8 DEF TypeOK
      <4>2. m.version = base.version + 1 /\ m.change = Diff(base.text, text)
        BY DEF m
      <4>3. PICK r \in rows' : r.version = base.version + 1 /\ r.text = text
        BY <1>5
      <4>4. base \in rows' \cup {NoRow}
        BY <1>1, <1>5
      <4>5. base.version = m.version - 1
        BY <1>1, <4>2, RowIs, SyncAssumption DEF TypeOK
      <4> HIDE DEF base, text
      <4>6. Apply(m.change, base.text) = r.text
        BY <1>6, <4>2, <4>3
      <4> QED
        BY <4>1, <4>2, <4>3, <4>4, <4>5, <4>6 DEF Linked
    <3>2. CASE q # s
      <4>1. sync'[q] = sync[q] /\ Linked(sync[q])
        BY <2>1, <3>2, <1>8 DEF Links, TypeOK
      <4> QED
        BY <4>1, <1>5 DEF Linked
    <3> QED
      BY <3>1, <3>2
  <2>2. ASSUME NEW q \in Sessions, NEW i \in 1 .. Len(inbox'[q]) PROVE Linked(inbox[q][i])'
    <3>1. inbox'[q] = inbox[q] /\ Linked(inbox[q][i])
      BY <1>8 DEF Links, clientVars
    <3> QED
      BY <3>1, <1>5 DEF Linked
  <2> QED
    BY <2>1, <2>2 DEF Links
<1> QED
  BY <1>5, <1>9, <1>10, <1>11

\* Of the other steps of a thread none touches the rows, the texts or what the
\* handler has read, and only EndSend adds a TEXT_SYNC to those around.
LEMMA BroadcastStep ==
    ASSUME IInv, NEW s \in Sessions, Broadcast(s) \/ ReceiveCursor(s) PROVE IInv'
<1> USE DEF IInv
<1>1. /\ UNCHANGED <<storeVars, clientVars, message, current, target, sending, missed, restVars>>
      /\ \/ pc' = [pc EXCEPT ![s] = "idle"]
         \/ pc' = [pc EXCEPT ![s] = "loop"]
      /\ sync' = sync \/ sync' = [sync EXCEPT ![s] = NoSync]
      /\ \/ toSend' = toSend
         \/ toSend' = [toSend EXCEPT ![s] = Open]
         \/ toSend' = [toSend EXCEPT ![s] = Open \ {s}]
  BY DEF Broadcast, ReceiveCursor, Goto
<1>2. TypeOK'
  <2>1. toSend' \in [Sessions -> SUBSET Sessions]
    <3>1. toSend \in [Sessions -> SUBSET Sessions]
      BY DEF TypeOK
    <3>2. Open \in SUBSET Sessions /\ Open \ {s} \in SUBSET Sessions
      BY DEF Open
    <3> QED
      BY <1>1, <3>1, <3>2
  <2>2. sync' \in [Sessions -> Sync \cup {NoSync}]
    BY <1>1 DEF TypeOK
  <2>3. pc' \in [Sessions -> {"idle", "save", "broadcast", "loop", "send"}]
    BY <1>1 DEF TypeOK
  <2> QED
    BY <2>1, <2>2, <2>3, <1>1 DEF TypeOK, storeVars, clientVars, restVars
<1>3. Held'
  BY <1>1 DEF Held, TypeOK, storeVars, restVars
<1>4. NoVersionGap'
  BY <1>1 DEF NoVersionGap, Versions, storeVars
<1>5. Links'
  <2>1. \A q \in Sessions : sync'[q] = sync[q] \/ sync'[q] = NoSync
    BY <1>1 DEF TypeOK
  <2> QED
    BY <2>1, <1>1, LinksKept DEF storeVars, clientVars
<1> QED
  BY <1>2, <1>3, <1>4, <1>5

\* The sends of a loop but their end.
LEMMA LoopStep ==
    ASSUME IInv, NEW s \in Sessions,
           \/ SendToClosed(s) \/ FinishLoop(s)
           \/ \E t \in Sessions : BeginSend(s, t) \/ SkipClosed(s, t) \/ SendCollides(s, t)
    PROVE  IInv'
<1> USE DEF IInv
<1>1. UNCHANGED <<storeVars, clientVars, message, current, restVars>>
  BY DEF SendToClosed, FinishLoop, BeginSend, SkipClosed, SendCollides, threadVars
<1>2. /\ sync' = sync \/ sync' = [sync EXCEPT ![s] = NoSync]
      /\ \/ toSend' = [toSend EXCEPT ![s] = {}]
         \/ \E t \in Sessions : toSend' = [toSend EXCEPT ![s] = @ \ {t}]
      /\ missed' = missed \/ missed' = missed \cup toSend[s]
  BY DEF SendToClosed, FinishLoop, BeginSend, SkipClosed, SendCollides, EndLoop, threadVars
<1>3. \/ /\ pc' = pc \/ pc' = [pc EXCEPT ![s] = "idle"]
         /\ target' = target \/ target' = [target EXCEPT ![s] = None]
         /\ target' = target \/ pc' = [pc EXCEPT ![s] = "idle"]
      \/ \E t \in Sessions : /\ pc' = [pc EXCEPT ![s] = "send"]
                              /\ target' = [target EXCEPT ![s] = t]
  BY DEF SendToClosed, FinishLoop, BeginSend, SkipClosed, SendCollides, EndLoop, Goto, threadVars
<1>4. \/ sending' = sending
      \/ \E t \in Sessions : sending' = [sending EXCEPT ![t] = s]
      \/ sending' = [sending EXCEPT ![target[s]] = None]
  BY DEF SendToClosed, FinishLoop, BeginSend, SkipClosed, SendCollides
<1>5. TypeOK'
  <2>1. toSend' \in [Sessions -> SUBSET Sessions] /\ missed' \subseteq Sessions
    <3>1. /\ toSend \in [Sessions -> SUBSET Sessions] /\ missed \subseteq Sessions
          /\ toSend[s] \in SUBSET Sessions
      BY DEF TypeOK
    <3>2. toSend' \in [Sessions -> SUBSET Sessions]
      <4>1. {} \in SUBSET Sessions /\ \A t \in Sessions : toSend[s] \ {t} \in SUBSET Sessions
        BY <3>1
      <4> QED
        BY <1>2, <3>1, <4>1
    <3> QED
      BY <1>2, <3>1, <3>2
  <2>2. sync' \in [Sessions -> Sync \cup {NoSync}]
    BY <1>2 DEF TypeOK
  <2>4. pc' \in [Sessions -> {"idle", "save", "broadcast", "loop", "send"}]
    BY <1>3 DEF TypeOK
  <2>5. target' \in [Sessions -> Sessions \cup {None}]
    BY <1>3 DEF TypeOK
  <2>3. sending' \in [Sessions -> Sessions \cup {None}]
    BY <1>4 DEF TypeOK
  <2> QED
    BY <2>1, <2>2, <2>3, <2>4, <2>5, <1>1 DEF TypeOK, storeVars, clientVars, restVars
<1>6. Held'
  <2>1. ASSUME NEW q \in Sessions, (pc[q] = "save")'
        PROVE  (current[q] \in rows \cup {NoRow} /\ message[q] \in Change)'
    BY <2>1, <1>1, <1>3 DEF Held, TypeOK, storeVars
  <2>2. ASSUME NEW q \in Sessions, (pc[q] = "send")' PROVE (target[q] \in Sessions)'
    BY <2>2, <1>3 DEF Held, TypeOK
  <2> QED
    BY <2>1, <2>2, <1>1 DEF Held, storeVars, restVars
<1>7. NoVersionGap'
  BY <1>1 DEF NoVersionGap, Versions, storeVars
<1>8. Links'
  <2>1. \A q \in Sessions : sync'[q] = sync[q] \/ sync'[q] = NoSync
    BY <1>2 DEF TypeOK
  <2> QED
    BY <2>1, <1>1, LinksKept DEF storeVars, clientVars
<1> QED
  BY <1>5, <1>6, <1>7, <1>8

LEMMA EndSendStep == ASSUME IInv, NEW s \in Sessions, EndSend(s) PROVE IInv'
<1> USE DEF IInv
<1>1. PICK t \in Sessions : t = target[s]
  BY DEF EndSend, Held
<1>2. /\ sending' = [sending EXCEPT ![t] = None]
      /\ target' = [target EXCEPT ![s] = None]
      /\ pc' = [pc EXCEPT ![s] = "loop"]
      /\ UNCHANGED <<storeVars, conn, outbox, replica, message, current, sync, toSend, missed, restVars>>
  BY <1>1 DEF EndSend, Goto
<1>3. \/ inbox' = inbox
      \/ sync[s] # NoSync /\ inbox' = [inbox EXCEPT ![t] = Append(inbox[t], sync[s])]
  BY <1>1 DEF EndSend
<1>4. TypeOK'
  <2>1. inbox' \in [Sessions -> Seq(Sync)]
    <3>1. CASE inbox' = inbox
      BY <3>1 DEF TypeOK
    <3>2. CASE sync[s] # NoSync /\ inbox' = [inbox EXCEPT ![t] = Append(inbox[t], sync[s])]
      <4>1. inbox[t] \in Seq(Sync) /\ sync[s] \in Sync
        BY <3>2 DEF TypeOK
      <4>2. Append(inbox[t], sync[s]) \in Seq(Sync)
        BY <4>1, AppendProperties
      <4> QED
        BY <3>2, <4>2 DEF TypeOK
    <3> QED
      BY <3>1, <3>2, <1>3
  <2> QED
    BY <2>1, <1>2 DEF TypeOK, storeVars, restVars
<1>5. Held'
  BY <1>2 DEF Held, TypeOK, storeVars, restVars
<1>6. NoVersionGap'
  BY <1>2 DEF NoVersionGap, Versions, storeVars
<1>7. Links'
  <2>1. CASE inbox' = inbox
    BY <2>1, <1>2, LinksKept DEF storeVars
  <2>2. CASE sync[s] # NoSync /\ inbox' = [inbox EXCEPT ![t] = Append(inbox[t], sync[s])]
    <3>1. inbox[t] \in Seq(Sync) /\ sync[s] \in Sync
      BY <2>2 DEF TypeOK
    <3>2. /\ Len(Append(inbox[t], sync[s])) = Len(inbox[t]) + 1 /\ Len(inbox[t]) \in Nat
          /\ \A i \in 1 .. Len(inbox[t]) : Append(inbox[t], sync[s])[i] = inbox[t][i]
          /\ Append(inbox[t], sync[s])[Len(inbox[t]) + 1] = sync[s]
      BY <3>1, AppendProperties
    <3>3. ASSUME NEW q \in Sessions, NEW i \in 1 .. Len(inbox'[q])
          PROVE  Linked(inbox[q][i])'
      <4>1. CASE q = t
        <5>1. inbox'[q] = Append(inbox[t], sync[s])
          BY <4>1, <2>2 DEF TypeOK
        <5>2. i \in 1 .. Len(inbox[t]) \/ i = Len(inbox[t]) + 1
          <6>1. i \in 1 .. Len(Append(inbox[t], sync[s]))
            BY <5>1
          <6> QED
            BY <6>1, <3>2
        <5>3. Linked(inbox'[q][i])
          BY <5>1, <5>2, <3>2, <2>2 DEF Links
        <5> QED
          BY <5>3, <1>2 DEF Linked, storeVars
      <4>2. CASE q # t
        <5>1. inbox'[q] = inbox[q]
          BY <4>2, <2>2 DEF TypeOK
        <5>2. Linked(inbox[q][i])
          BY <5>1 DEF Links
        <5> QED
          BY <5>1, <5>2, <1>2 DEF Linked, storeVars
      <4> QED
        BY <4>1, <4>2
    <3>4. ASSUME NEW q \in Sessions, (sync[q] # NoSync)' PROVE Linked(sync[q])'
      <4>1. sync'[q] = sync[q] /\ Linked(sync[q])
        BY <3>4, <1>2 DEF Links
      <4> QED
        BY <4>1, <1>2 DEF Linked, storeVars
    <3> QED
      BY <3>3, <3>4 DEF Links
  <2> QED
    BY <2>1, <2>2, <1>3
<1> QED
  BY <1>4, <1>5, <1>6, <1>7

-----------------------------------------------------------------------------
(* The saves over REST.                                                    *)

LEMMA ContentStep == ASSUME IInv, SaveContent \/ CommitContent PROVE IInv'
<1> USE DEF IInv
<1>1. CASE SaveContent
  <2>1. /\ saveBase' \in rows \cup {NoRow} /\ saver' = "insert"
        /\ UNCHANGED <<storeVars, clientVars, threadVars, sendVars>>
    BY <1>1, LatestIs DEF SaveContent
  <2>2. TypeOK'
    BY <2>1 DEF TypeOK, storeVars, clientVars, threadVars, sendVars
  <2>3. Held'
    BY <2>1 DEF Held, storeVars, threadVars, sendVars
  <2>4. NoVersionGap'
    BY <2>1 DEF NoVersionGap, Versions, storeVars
  <2>5. Links'
    BY <2>1, LinksKept DEF storeVars, clientVars, threadVars
  <2> QED
    BY <2>2, <2>3, <2>4, <2>5
<1>2. CASE CommitContent
  <2>1. PICK text \in Texts : Insert(saveBase.version + 1, text)
    BY <1>2 DEF CommitContent
  <2>2. saveBase \in rows \cup {NoRow}
    BY <1>2 DEF CommitContent, Held
  <2>3. /\ rows' \subseteq Row /\ stored' \in 0 .. MaxRows
        /\ rows \subseteq rows' /\ (\A r \in rows : r.version <= stored)'
        /\ NoVersionGap'
    BY <2>1, <2>2, InsertKeeps
  <2>4. saver' = "idle" /\ saveBase' = NoRow /\ UNCHANGED <<clientVars, threadVars, sendVars>>
    BY <1>2 DEF CommitContent
  <2>5. TypeOK'
    BY <2>3, <2>4 DEF TypeOK, clientVars, threadVars, sendVars
  <2>6. Held'
    <3>1. ASSUME NEW q \in Sessions, (pc[q] = "save")'
          PROVE  (current[q] \in rows \cup {NoRow} /\ message[q] \in Change)'
      BY <3>1, <2>3, <2>4 DEF Held, threadVars
    <3>2. ASSUME NEW q \in Sessions, (pc[q] = "send")' PROVE (target[q] \in Sessions)'
      BY <3>2, <2>4 DEF Held, threadVars, sendVars
    <3> QED
      BY <3>1, <3>2, <2>3, <2>4 DEF Held
  <2>7. Links'
    BY <2>3, <2>4, LinksKept DEF clientVars, threadVars
  <2> QED
    BY <2>3, <2>5, <2>6, <2>7
<1> QED
  BY <1>1, <1>2

-----------------------------------------------------------------------------
(* The theorems.                                                           *)

LEMMA InvStep == IInv /\ [Next]_vars => IInv'
<1> SUFFICES ASSUME IInv, [Next]_vars PROVE IInv'
  OBVIOUS
<1>1. CASE Next
  <2>1. CASE SaveContent \/ CommitContent
    BY <2>1, ContentStep
  <2>2. ASSUME NEW s \in Sessions,
               \/ Connect(s) \/ Close(s) \/ Edit(s) \/ ApplySync(s)
               \/ ReceiveUntyped(s) \/ ReceiveChange(s) \/ Save(s) \/ Broadcast(s)
               \/ ReceiveCursor(s) \/ SendToClosed(s) \/ EndSend(s) \/ FinishLoop(s)
               \/ \E t \in Sessions : BeginSend(s, t) \/ SkipClosed(s, t) \/ SendCollides(s, t)
        PROVE  IInv'
    <3>1. CASE Connect(s) \/ Close(s) \/ Edit(s) \/ ApplySync(s)
      BY <3>1, ClientStep
    <3>2. CASE ReceiveUntyped(s) \/ ReceiveChange(s)
      BY <3>2, ReceiveStep
    <3>3. CASE Save(s)
      BY <3>3, SaveStep
    <3>4. CASE Broadcast(s) \/ ReceiveCursor(s)
      BY <3>4, BroadcastStep
    <3>5. CASE \/ SendToClosed(s) \/ FinishLoop(s)
               \/ \E t \in Sessions : BeginSend(s, t) \/ SkipClosed(s, t) \/ SendCollides(s, t)
      BY <3>5, LoopStep
    <3>6. CASE EndSend(s)
      BY <3>6, EndSendStep
    <3> QED
      BY <2>2, <3>1, <3>2, <3>3, <3>4, <3>5, <3>6
  <2> QED
    BY <1>1, <2>1, <2>2 DEF Next
<1>2. CASE UNCHANGED vars
  <2>1. TypeOK'
    BY <1>2 DEF IInv, TypeOK, vars, storeVars, clientVars, threadVars, sendVars, restVars
  <2>2. Held'
    BY <1>2 DEF IInv, Held, vars, storeVars, threadVars, sendVars, restVars
  <2>3. NoVersionGap'
    BY <1>2 DEF IInv, NoVersionGap, Versions, vars, storeVars
  <2>4. Links'
    BY <1>2, LinksKept DEF IInv, vars, storeVars, clientVars, threadVars
  <2> QED
    BY <2>1, <2>2, <2>3, <2>4 DEF IInv
<1> QED
  BY <1>1, <1>2

\* The invariant and its strengthening hold in every reachable state.
THEOREM Invariance == Spec => []IInv
BY InvInit, InvStep, PTL DEF Spec

\* Every variable has its type; in particular no version exceeds the number of
\* inserts, so the bound on rows never cuts a version off.
THEOREM TypeCorrect == Spec => []TypeOK
<1>1. IInv => TypeOK
  BY DEF IInv
<1> QED
  BY <1>1, Invariance, PTL

\* handleTextChange's and saveFileContent's "latest version + 1" never leaves
\* a gap, however many editors and REST saves interleave.
THEOREM VersionsAreGapless == Spec => []NoVersionGap
<1>1. IInv => NoVersionGap
  BY DEF IInv
<1> QED
  BY <1>1, Invariance, PTL

\* Every TEXT_SYNC that broadcastTextSync sends turns the text of a stored
\* version into that of a stored next version, also when two threads stored
\* the same version.
THEOREM SyncsLeadOn == Spec => []SyncLinksVersions
<1>1. IInv => SyncLinksVersions
  <2> SUFFICES ASSUME IInv, NEW m \in SyncsAround PROVE Linked(m)
    BY DEF SyncLinksVersions, Linked
  <2>1. CASE \E s \in Sessions : sync[s] # NoSync /\ m = sync[s]
    BY <2>1 DEF IInv, Links
  <2>2. CASE \E s \in Sessions : \E i \in DOMAIN inbox[s] : m = inbox[s][i]
    <3>1. PICK s \in Sessions : \E i \in DOMAIN inbox[s] : m = inbox[s][i]
      BY <2>2
    <3>2. DOMAIN inbox[s] = 1 .. Len(inbox[s])
      <4>1. inbox[s] \in Seq(Sync)
        BY DEF IInv, TypeOK
      <4> QED
        BY <4>1, LenProperties
    <3> QED
      BY <3>1, <3>2 DEF IInv, Links
  <2> QED
    BY <2>1, <2>2 DEF SyncsAround
<1> QED
  BY <1>1, Invariance, PTL

-----------------------------------------------------------------------------
(* A lone editor.                                                          *)

\* One client writes the file, and only through its connection.
Lone(e) == Editors = {e} /\ ~UsesREST

\* The text of version v in a table R.
TextIn(R, v) == (CHOOSE r \in R \cup {NoRow} : r.version = v).text

\* There is one row of each version, and the last inserted is the latest.
OnePerVersion(R) == \A r, q \in R : r.version = q.version => r = q
Numbered == OnePerVersion(rows) /\ Versions = 1 .. stored

\* Only e's thread saves and broadcasts.
Solo(e) ==
    /\ \A s \in Sessions \ {e} :
          outbox[s] = <<>> /\ pc[s] \in {"idle", "loop", "send"} /\ sync[s] = NoSync
    /\ saver = "idle"
    /\ pc[e] = "save" => current[e].version = stored
    /\ pc[e] \in {"idle", "save"} => sync[e] = NoSync
    /\ sync[e] # NoSync => sync[e].version = stored
    /\ pc[e] # "send" => target[e] = None
    /\ pc[e] \in {"idle", "save", "broadcast"} => toSend[e] = {}

Shut == \A s \in Sessions : conn[s] # "open" => inbox[s] = <<>>

\* Who has the text of one version needs nothing but the change to a later one.
Leads(R, from, to) == from <= to /\ (from < to => TextIn(R, to - 1) = TextIn(R, from))

\* The version a client has after the first i of the changes q on their way.
Known(c, q, i) == IF i = 0 THEN c.version ELSE q[i].version

Follows(R, c, q) ==
    /\ c.text = TextIn(R, c.version)
    /\ \A i \in 1 .. Len(q) : Leads(R, Known(c, q, i - 1), q[i].version)

\* The broadcast of e's last change has yet to reach s.
Pending(e, s) ==
    /\ sync[e] # NoSync
    /\ \/ pc[e] = "broadcast" /\ sync[e].change # NoChange
       \/ s \in toSend[e] \/ target[e] = s

\* What a client that no broadcast passed by has, and what is on its way.
Served(e, s) ==
    LET k == Known(replica[s], inbox[s], Len(inbox[s])) IN
    /\ Follows(rows, replica[s], inbox[s])
    /\ Leads(rows, k, stored)
    /\ Pending(e, s) \/ TextIn(rows, k) = TextIn(rows, stored)

LInv(e) == Numbered /\ Solo(e) /\ Shut /\ \A s \in Open \ missed : Served(e, s)

LEMMA TextIs ==
    ASSUME NEW R, R \subseteq Row, OnePerVersion(R), NEW r \in R \cup {NoRow}
    PROVE  TextIn(R, r.version) = r.text
<1> DEFINE c == CHOOSE q \in R \cup {NoRow} : q.version = r.version
<1>1. c \in R \cup {NoRow} /\ c.version = r.version
  OBVIOUS
<1> HIDE DEF c
<1>2. \A q \in R : q.version # NoRow.version
  BY NoRowIs, SyncAssumption DEF Row
<1>3. c = r
  BY <1>1, <1>2 DEF OnePerVersion
<1>4. TextIn(R, r.version) = c.text
  BY DEF TextIn, c
<1> QED
  BY <1>3, <1>4

\* What is stored under a number.
LEMMA RowOf ==
    ASSUME TypeOK, Numbered, NEW v \in 0 .. stored
    PROVE  \E r \in rows \cup {NoRow} : r.version = v /\ r.text = TextIn(rows, v)
<1>1. \E r \in rows \cup {NoRow} : r.version = v
  <2>1. CASE v = 0
    BY <2>1, NoRowIs
  <2>2. CASE v # 0
    <3>1. stored \in Nat
      BY SyncAssumption DEF TypeOK
    <3>2. v \in Versions
      BY <2>2, <3>1 DEF Numbered
    <3> QED
      BY <3>2 DEF Versions
  <2> QED
    BY <2>1, <2>2
<1>2. PICK r \in rows \cup {NoRow} : r.version = v
  BY <1>1
<1>3. TextIn(rows, r.version) = r.text
  BY TextIs DEF TypeOK, Numbered
<1> QED
  BY <1>2, <1>3

LEMMA LatestIsStored ==
    ASSUME TypeOK, Numbered, NEW r \in Latest
    PROVE  r \in rows \cup {NoRow} /\ r.version = stored
<1>1. stored \in Nat
  BY SyncAssumption DEF TypeOK
<1>2. CASE rows = {}
  <2>1. Versions = {}
    BY <1>2 DEF Versions
  <2>2. stored = 0
    BY <1>1, <2>1 DEF Numbered
  <2> QED
    BY <1>2, <2>2, NoRowIs DEF Latest
<1>3. CASE rows # {}
  <2>1. r \in rows /\ \A q \in rows : q.version <= r.version
    BY <1>3 DEF Latest
  <2>2. r.version \in 1 .. stored
    BY <2>1 DEF Numbered, Versions
  <2>3. stored \in Versions
    BY <1>1, <2>2 DEF Numbered
  <2>4. stored <= r.version
    BY <2>1, <2>3 DEF Versions
  <2> QED
    BY <1>1, <2>1, <2>2, <2>4
<1> QED
  BY <1>2, <1>3

\* A change that is on its way leads on from the version before it.
LEMMA LinkedTexts ==
    ASSUME TypeOK, Numbered, NEW m \in Sync, Linked(m)
    PROVE  /\ m.version \in 1 .. stored
           /\ Apply(m.change, TextIn(rows, m.version - 1)) = TextIn(rows, m.version)
<1>1. PICK r \in rows, q \in rows \cup {NoRow} :
          r.version = m.version /\ q.version = m.version - 1 /\ Apply(m.change, q.text) = r.text
  BY DEF Linked
<1>2. m.version \in 1 .. stored
  BY <1>1 DEF Numbered, Versions
<1>3. TextIn(rows, q.version) = q.text /\ TextIn(rows, r.version) = r.text
  BY <1>1, TextIs DEF TypeOK, Numbered
<1> QED
  BY <1>1, <1>2, <1>3

-----------------------------------------------------------------------------
(* The changes on their way to a client.                                   *)

LEMMA FollowsAppend ==
    ASSUME NEW R, NEW c, NEW q \in Seq(Sync), NEW m \in Sync,
           Follows(R, c, q), Leads(R, Known(c, q, Len(q)), m.version)
    PROVE  /\ Follows(R, c, Append(q, m))
           /\ Known(c, Append(q, m), Len(Append(q, m))) = m.version
<1> DEFINE p == Append(q, m)
<1>1. /\ Len(q) \in Nat /\ Len(p) = Len(q) + 1 /\ p[Len(q) + 1] = m
      /\ \A i \in 1 .. Len(q) : p[i] = q[i]
  BY AppendProperties, LenProperties
<1> HIDE DEF p
<1>2. \A i \in 0 .. Len(q) : Known(c, p, i) = Known(c, q, i)
  BY <1>1 DEF Known
<1>3. ASSUME NEW i \in 1 .. Len(p) PROVE Leads(R, Known(c, p, i - 1), p[i].version)
  <2>1. Known(c, p, i - 1) = Known(c, q, i - 1)
    BY <1>1, <1>2
  <2>2. CASE i \in 1 .. Len(q)
    BY <1>1, <2>1, <2>2 DEF Follows
  <2>3. CASE i = Len(q) + 1
    BY <1>1, <2>1, <2>3
  <2> QED
    BY <1>1, <2>2, <2>3
<1>4. Known(c, p, Len(p)) = m.version
  BY <1>1 DEF Known
<1> QED
  BY <1>3, <1>4 DEF Follows, p

LEMMA FollowsTail ==
    ASSUME NEW R, NEW c, NEW d, NEW q \in Seq(Sync), q # <<>>, Follows(R, c, q),
           d.version = Head(q).version, d.text = TextIn(R, d.version)
    PROVE  Follows(R, d, Tail(q)) /\ Known(d, Tail(q), Len(Tail(q))) = Known(c, q, Len(q))
<1> DEFINE p == Tail(q)
<1>1. /\ Len(q) \in Nat \ {0} /\ Len(p) = Len(q) - 1 /\ Head(q) = q[1]
      /\ \A i \in 1 .. Len(p) : p[i] = q[i + 1]
  BY HeadTailProperties, LenProperties, EmptySeq
<1> HIDE DEF p
<1>2. \A i \in 0 .. Len(p) : Known(d, p, i) = Known(c, q, i + 1)
  BY <1>1 DEF Known
<1>3. ASSUME NEW i \in 1 .. Len(p) PROVE Leads(R, Known(d, p, i - 1), p[i].version)
  <2>1. Known(d, p, i - 1) = Known(c, q, i)
    BY <1>1, <1>2
  <2>2. i + 1 \in 1 .. Len(q)
    BY <1>1
  <2>3. Leads(R, Known(c, q, (i + 1) - 1), q[i + 1].version)
    BY <2>2 DEF Follows
  <2> QED
    BY <1>1, <2>1, <2>3
<1>4. Known(d, p, Len(p)) = Known(c, q, Len(q))
  BY <1>1, <1>2
<1> QED
  BY <1>3, <1>4 DEF Follows, p

\* A client's version, and those on the way to it, are stored.
LEMMA ServedIs ==
    ASSUME IInv, Numbered, NEW e, NEW s \in Sessions, Served(e, s)
    PROVE  /\ replica[s].version \in 0 .. stored
           /\ \A i \in 1 .. Len(inbox[s]) : inbox[s][i].version \in 1 .. stored
           /\ Known(replica[s], inbox[s], Len(inbox[s])) \in 0 .. stored
<1> DEFINE q == inbox[s]
<1>1. /\ q \in Seq(Sync) /\ Len(q) \in Nat /\ replica[s].version \in Nat /\ stored \in Nat
      /\ \A i \in 1 .. Len(q) : q[i] \in Sync /\ Linked(q[i])
  BY SyncAssumption, LenProperties, ElementOfSeq DEF IInv, TypeOK, Links
<1>2. \A i \in 1 .. Len(q) : q[i].version \in 1 .. stored
  BY <1>1, LinkedTexts DEF IInv
<1>3. replica[s].version <= stored
  <2>1. CASE Len(q) = 0
    BY <2>1 DEF Served, Leads, Known
  <2>2. CASE Len(q) # 0
    <3>1. 1 \in 1 .. Len(q) /\ 1 - 1 = 0
      BY <1>1, <2>2
    <3>2. Leads(rows, Known(replica[s], q, 1 - 1), q[1].version)
      BY <3>1 DEF Served, Follows
    <3>3. Known(replica[s], q, 1 - 1) = replica[s].version
      BY DEF Known
    <3>4. replica[s].version <= q[1].version /\ q[1].version \in 1 .. stored
      BY <1>2, <3>1, <3>2, <3>3 DEF Leads
    <3> QED
      BY <1>1, <3>4
  <2> QED
    BY <2>1, <2>2
<1> QED
  BY <1>1, <1>2, <1>3 DEF Known

-----------------------------------------------------------------------------
(* The lone editor's save.                                                 *)

LEMMA LoneSave ==
    ASSUME IInv, NEW e \in Sessions, Numbered, Solo(e), Save(e)
    PROVE  /\ Numbered' /\ stored \in Nat /\ stored' = stored + 1
           /\ \A v \in 0 .. stored : TextIn(rows', v) = TextIn(rows, v)
           /\ sync'[e].version = stored'
           /\ sync'[e].change = NoChange => TextIn(rows', stored') = TextIn(rows, stored)
<1> DEFINE text == message[e].text
           new  == [id |-> stored + 1, version |-> stored + 1, text |-> text]
<1>1. /\ current[e] \in rows \cup {NoRow} /\ current[e].version = stored
      /\ message[e] \in Change /\ text \in Texts
  BY DEF Save, Solo, IInv, Held, Change
<1>2. /\ stored < MaxRows /\ stored' = stored + 1 /\ rows' = rows \cup {new}
      /\ sync' = [sync EXCEPT ![e] =
             [version |-> stored + 1, change |-> Diff(current[e].text, text)]]
  BY <1>1 DEF Save, Insert
<1>3. stored \in Nat /\ MaxRows \in Nat
  BY SyncAssumption DEF IInv, TypeOK
<1>4. new \in Row /\ new.version = stored + 1 /\ new.text = text
  BY <1>1, <1>2, <1>3 DEF Row
<1> HIDE DEF new
<1>5. Versions' = Versions \cup {stored + 1}
  BY <1>2, <1>4 DEF Versions
<1>6. \A r \in rows : r.version \in 1 .. stored
  BY DEF Numbered, Versions
<1>7. OnePerVersion(rows')
  BY <1>2, <1>3, <1>4, <1>6 DEF Numbered, OnePerVersion
<1>8. Numbered'
  <2>1. 1 .. stored + 1 = 1 .. stored \cup {stored + 1}
    BY <1>3
  <2>2. Versions' = 1 .. stored'
    BY <1>2, <1>5, <2>1 DEF Numbered
  <2> QED
    BY <1>7, <2>2 DEF Numbered
<1>9. rows' \subseteq Row
  BY <1>2, <1>4 DEF IInv, TypeOK
<1>10. \A r \in rows' \cup {NoRow} : TextIn(rows', r.version) = r.text
  BY <1>7, <1>9, TextIs
<1>11. \A v \in 0 .. stored : TextIn(rows', v) = TextIn(rows, v)
  <2> SUFFICES ASSUME NEW v \in 0 .. stored PROVE TextIn(rows', v) = TextIn(rows, v)
    OBVIOUS
  <2>1. PICK r \in rows \cup {NoRow} : r.version = v /\ r.text = TextIn(rows, v)
    BY RowOf DEF IInv
  <2>2. r \in rows' \cup {NoRow}
    BY <1>2
  <2> QED
    BY <1>10, <2>1, <2>2
<1>12. sync'[e] = [version |-> stored + 1, change |-> Diff(current[e].text, text)]
  BY <1>2 DEF IInv, TypeOK
<1>13. sync'[e].change = NoChange => TextIn(rows', stored') = TextIn(rows, stored)
  <2>1. current[e].text \in Seq(Units) /\ text \in Seq(Units)
    BY <1>1, RowIs, SyncAssumption DEF IInv, TypeOK
  <2>2. Apply(Diff(current[e].text, text), current[e].text) = text
    BY <2>1, DiffGivesNewText
  <2>3. Diff(current[e].text, text) = NoChange => current[e].text = text
    BY <2>1, <2>2, UnchangedText
  <2>4. TextIn(rows, stored) = current[e].text
    BY <1>1, TextIs DEF IInv, TypeOK, Numbered
  <2>5. TextIn(rows', stored') = text
    BY <1>2, <1>4, <1>10
  <2> QED
    BY <1>12, <2>3, <2>4, <2>5
<1>14. sync'[e].version = stored'
  BY <1>2, <1>12
<1> QED
  BY <1>2, <1>3, <1>8, <1>11, <1>13, <1>14

\* What a client follows is not touched by a new row.
LEMMA FollowsOn ==
    ASSUME IInv, IInv', NEW e \in Sessions, NEW s \in Sessions, Numbered, Solo(e), Save(e),
           Served(e, s)
    PROVE  Served(e, s)'
<1> DEFINE c == replica[s]
           q == inbox[s]
           k == Known(c, q, Len(q))
<1>1. UNCHANGED <<replica, inbox, toSend, target>> /\ pc' = [pc EXCEPT ![e] = "broadcast"]
  BY DEF Save, Goto, clientVars, sendVars
<1>2. /\ stored \in Nat /\ stored' = stored + 1
      /\ \A v \in 0 .. stored : TextIn(rows', v) = TextIn(rows, v)
      /\ sync'[e].change = NoChange => TextIn(rows', stored') = TextIn(rows, stored)
      /\ sync'[e].version = stored'
  BY LoneSave
<1>3. /\ c.version \in 0 .. stored /\ k \in 0 .. stored
      /\ \A i \in 1 .. Len(q) : q[i].version \in 1 .. stored
  BY ServedIs
<1>4. Len(q) \in Nat
  BY LenProperties DEF IInv, TypeOK
<1>5. ASSUME NEW from \in 0 .. stored, NEW to \in 0 .. stored, Leads(rows, from, to)
      PROVE  Leads(rows', from, to)
  <2>1. from < to => to - 1 \in 0 .. stored
    BY <1>2
  <2> QED
    BY <1>2, <1>5, <2>1 DEF Leads
<1>6. Follows(rows', c, q)
  <2>1. \A i \in 0 .. Len(q) : Known(c, q, i) \in 0 .. stored
    BY <1>3, <1>4 DEF Known
  <2>2. c.text = TextIn(rows', c.version)
    BY <1>2, <1>3 DEF Served, Follows
  <2>3. ASSUME NEW i \in 1 .. Len(q) PROVE Leads(rows', Known(c, q, i - 1), q[i].version)
    <3>1. Leads(rows, Known(c, q, i - 1), q[i].version)
      BY DEF Served, Follows
    <3>2. Known(c, q, i - 1) \in 0 .. stored /\ q[i].version \in 0 .. stored
      BY <1>3, <1>4, <2>1
    <3> QED
      BY <1>5, <3>1, <3>2
  <2> QED
    BY <2>2, <2>3 DEF Follows
<1>7. TextIn(rows, k) = TextIn(rows, stored)
  <2>1. sync[e] = NoSync
    BY DEF Solo, Save
  <2> QED
    BY <2>1 DEF Served, Pending
<1>8. TextIn(rows', k) = TextIn(rows, stored) /\ TextIn(rows', stored) = TextIn(rows, stored)
  BY <1>2, <1>3, <1>7
<1>9. Leads(rows', k, stored')
  <2>1. stored' - 1 = stored /\ k <= stored'
    BY <1>2, <1>3
  <2> QED
    BY <1>8, <2>1 DEF Leads
<1>10. Pending(e, s)' \/ TextIn(rows', k) = TextIn(rows', stored')
  <2>1. CASE sync'[e].change = NoChange
    BY <1>2, <1>8, <2>1
  <2>2. CASE sync'[e].change # NoChange
    <3>1. sync'[e] # NoSync
      BY <1>2 DEF NoSync
    <3>2. pc'[e] = "broadcast"
      BY <1>1 DEF IInv, TypeOK
    <3> QED
      BY <2>2, <3>1, <3>2 DEF Pending
  <2> QED
    BY <2>1, <2>2
<1>11. replica'[s] = c /\ inbox'[s] = q
  BY <1>1
<1> QED
  BY <1>6, <1>9, <1>10, <1>11 DEF Served

-----------------------------------------------------------------------------
(* What a client receives.                                                 *)

LEMMA ServedOnApply ==
    ASSUME IInv, NEW e, NEW s \in Sessions, Numbered, ApplySync(s), Served(e, s)
    PROVE  Served(e, s)'
<1> DEFINE c == replica[s]
           q == inbox[s]
           m == Head(q)
           d == IF m.version > c.version
                THEN [version |-> m.version, text |-> Apply(m.change, c.text)] ELSE c
<1>1. q \in Seq(Sync) /\ q # <<>> /\ Len(q) \in Nat
  BY LenProperties DEF IInv, TypeOK, ApplySync
<1>2. m = q[1] /\ m \in Sync /\ 1 \in 1 .. Len(q)
  BY <1>1, HeadTailProperties, EmptySeq, ElementOfSeq
<1>3. Linked(m)
  BY <1>2 DEF IInv, Links
<1>4. /\ m.version \in 1 .. stored /\ c.version \in 0 .. stored
      /\ Apply(m.change, TextIn(rows, m.version - 1)) = TextIn(rows, m.version)
  BY <1>2, <1>3, LinkedTexts, ServedIs DEF IInv
<1>5. Leads(rows, c.version, m.version)
  <2>1. Leads(rows, Known(c, q, 1 - 1), q[1].version)
    BY <1>2 DEF Served, Follows
  <2>2. Known(c, q, 1 - 1) = c.version
    BY DEF Known
  <2> QED
    BY <1>2, <2>1, <2>2
<1>6. /\ replica' = [replica EXCEPT ![s] = d] /\ inbox' = [inbox EXCEPT ![s] = Tail(q)]
      /\ UNCHANGED <<storeVars, threadVars, sendVars>>
  BY DEF ApplySync
<1>7. d.version = m.version /\ d.text = TextIn(rows, d.version)
  <2>1. CASE m.version > c.version
    <3>1. c.text = TextIn(rows, c.version) /\ TextIn(rows, m.version - 1) = TextIn(rows, c.version)
      BY <1>5, <2>1 DEF Served, Follows, Leads
    <3> QED
      BY <1>4, <2>1, <3>1
  <2>2. CASE ~(m.version > c.version)
    <3>1. c.version = m.version
      BY <1>4, <1>5, <2>2 DEF Leads
    <3> QED
      BY <2>2, <3>1 DEF Served, Follows
  <2> QED
    BY <2>1, <2>2
<1> HIDE DEF d
<1>8. /\ Follows(rows, d, Tail(q))
      /\ Known(d, Tail(q), Len(Tail(q))) = Known(c, q, Len(q))
  <2>1. Follows(rows, c, q)
    BY DEF Served
  <2> QED
    BY <1>1, <1>7, <2>1, FollowsTail
<1>9. replica'[s] = d /\ inbox'[s] = Tail(q)
  BY <1>6 DEF IInv, TypeOK
<1>10. /\ Leads(rows, Known(c, q, Len(q)), stored)
       /\ Pending(e, s) \/ TextIn(rows, Known(c, q, Len(q))) = TextIn(rows, stored)
  BY DEF Served
<1>11. rows' = rows /\ stored' = stored /\ (Pending(e, s)' <=> Pending(e, s))
  BY <1>6 DEF Pending, storeVars, threadVars, sendVars
<1> QED
  BY <1>8, <1>9, <1>10, <1>11 DEF Served

\* The broadcast reaches a client.
LEMMA ServedOnEndSend ==
    ASSUME IInv, IInv', NEW e \in Sessions, NEW s \in Sessions, Numbered, Solo(e),
           EndSend(e), sync[e] # NoSync, target[e] = s, conn[s] = "open", Served(e, s)
    PROVE  Served(e, s)'
<1> DEFINE c == replica[s]
           q == inbox[s]
<1>1. /\ inbox' = [inbox EXCEPT ![s] = Append(q, sync[e])]
      /\ UNCHANGED <<rows, stored, replica>>
  BY DEF EndSend, storeVars
<1>2. q \in Seq(Sync) /\ sync[e] \in Sync /\ inbox'[s] = Append(q, sync[e])
  BY <1>1 DEF IInv, TypeOK
<1>3. sync[e].version = stored
  BY DEF Solo
<1>4. /\ Follows(rows, c, Append(q, sync[e]))
      /\ Known(c, Append(q, sync[e]), Len(Append(q, sync[e]))) = stored
  BY <1>2, <1>3, FollowsAppend DEF Served
<1>5. Leads(rows, stored, stored)
  BY SyncAssumption DEF Leads, IInv, TypeOK
<1> QED
  BY <1>1, <1>2, <1>4, <1>5 DEF Served

\* Nothing that concerns s changes.
LEMMA ServedKept ==
    ASSUME NEW e, NEW s \in Sessions, Served(e, s), UNCHANGED storeVars,
           replica'[s] = replica[s], inbox'[s] = inbox[s], Pending(e, s) => Pending(e, s)'
    PROVE  Served(e, s)'
BY DEF Served, storeVars

-----------------------------------------------------------------------------
(* The steps.                                                              *)

\* A step of a client or of a thread.
Step(s) ==
    \/ Connect(s) \/ Close(s) \/ Edit(s) \/ ApplySync(s)
    \/ ReceiveUntyped(s) \/ ReceiveChange(s) \/ Save(s) \/ Broadcast(s)
    \/ ReceiveCursor(s) \/ SendToClosed(s) \/ EndSend(s) \/ FinishLoop(s)
    \/ \E t \in Sessions : BeginSend(s, t) \/ SkipClosed(s, t) \/ SendCollides(s, t)

\* The others have nothing to save.
LEMMA OthersMove ==
    ASSUME IInv, NEW e, Lone(e), Solo(e), NEW s \in Sessions, s # e, Step(s)
    PROVE  /\ UNCHANGED <<storeVars, saver, current>>
           /\ outbox'[s] = <<>> /\ pc'[s] \in {"idle", "loop", "send"} /\ sync'[s] = NoSync
           /\ missed' = missed
           /\ \A q \in Sessions \ {s} :
                 /\ outbox'[q] = outbox[q] /\ pc'[q] = pc[q] /\ sync'[q] = sync[q]
                 /\ target'[q] = target[q] /\ toSend'[q] = toSend[q]
<1>1. outbox[s] = <<>> /\ pc[s] \in {"idle", "loop", "send"} /\ sync[s] = NoSync
  BY DEF Solo
<1>2. CASE Connect(s) \/ Close(s) \/ ApplySync(s)
  <2>1. /\ UNCHANGED <<storeVars, threadVars, sendVars, restVars>>
        /\ outbox' = outbox \/ outbox' = [outbox EXCEPT ![s] = <<>>]
    BY <1>2 DEF Connect, Close, ApplySync
  <2>2. outbox'[s] = <<>> /\ \A q \in Sessions \ {s} : outbox'[q] = outbox[q]
    BY <1>1, <2>1 DEF IInv, TypeOK
  <2> QED
    BY <1>1, <2>1, <2>2 DEF threadVars, sendVars, restVars
<1>3. ~Edit(s) /\ ~ReceiveUntyped(s) /\ ~ReceiveChange(s) /\ ~Save(s) /\ ~Broadcast(s)
  BY <1>1 DEF Lone, Edit, ReceiveUntyped, ReceiveChange, Receive, Save, Broadcast
<1>4. CASE \/ ReceiveCursor(s) \/ SendToClosed(s) \/ EndSend(s) \/ FinishLoop(s)
           \/ \E t \in Sessions : BeginSend(s, t) \/ SkipClosed(s, t) \/ SendCollides(s, t)
  <2>1. UNCHANGED <<storeVars, outbox, restVars, current>> /\ missed' = missed
    BY <1>1, <1>4 DEF ReceiveCursor, SendToClosed, EndSend, FinishLoop, BeginSend, SkipClosed,
                      SendCollides, clientVars, threadVars
  <2>2. /\ pc' = pc \/ \E l \in {"idle", "loop", "send"} : pc' = [pc EXCEPT ![s] = l]
        /\ sync' = sync \/ sync' = [sync EXCEPT ![s] = NoSync]
    BY <1>4 DEF ReceiveCursor, SendToClosed, EndSend, FinishLoop, BeginSend, SkipClosed,
                SendCollides, EndLoop, Goto, threadVars
  <2>3. /\ target' = target \/ \E t \in Sessions \cup {None} : target' = [target EXCEPT ![s] = t]
        /\ toSend' = toSend \/ \E T \in SUBSET Sessions : toSend' = [toSend EXCEPT ![s] = T]
    <3>1. Open \ {s} \subseteq Sessions /\ toSend[s] \subseteq Sessions
      BY DEF Open, IInv, TypeOK
    <3> QED
      BY <1>4, <3>1 DEF ReceiveCursor, SendToClosed, EndSend, FinishLoop, BeginSend,
                        SkipClosed, SendCollides, EndLoop
  <2>4. /\ pc'[s] \in {"idle", "loop", "send"} /\ sync'[s] = NoSync
        /\ \A q \in Sessions \ {s} : pc'[q] = pc[q] /\ sync'[q] = sync[q]
    BY <1>1, <2>2 DEF IInv, TypeOK
  <2>5. \A q \in Sessions \ {s} : target'[q] = target[q] /\ toSend'[q] = toSend[q]
    BY <2>3 DEF IInv, TypeOK
  <2> QED
    BY <1>1, <2>1, <2>4, <2>5 DEF restVars
<1> QED
  BY <1>2, <1>3, <1>4 DEF Step

LEMMA SoloOthers ==
    ASSUME IInv, NEW e \in Sessions, Lone(e), Solo(e), NEW s \in Sessions, s # e, Step(s)
    PROVE  Solo(e)'
<1>1. /\ UNCHANGED <<storeVars, saver, current>>
      /\ outbox'[s] = <<>> /\ pc'[s] \in {"idle", "loop", "send"} /\ sync'[s] = NoSync
      /\ \A q \in Sessions \ {s} :
            /\ outbox'[q] = outbox[q] /\ pc'[q] = pc[q] /\ sync'[q] = sync[q]
            /\ target'[q] = target[q] /\ toSend'[q] = toSend[q]
  BY OthersMove
<1>2. ASSUME NEW q \in Sessions \ {e}
      PROVE  outbox'[q] = <<>> /\ pc'[q] \in {"idle", "loop", "send"} /\ sync'[q] = NoSync
  BY <1>1 DEF Solo
<1>3. /\ outbox'[e] = outbox[e] /\ pc'[e] = pc[e] /\ sync'[e] = sync[e]
      /\ target'[e] = target[e] /\ toSend'[e] = toSend[e]
  BY <1>1
<1> QED
  BY <1>1, <1>2, <1>3 DEF Solo, storeVars

LEMMA SoloEditor ==
    ASSUME IInv, NEW e \in Sessions, Numbered, Solo(e), Step(e)
    PROVE  Solo(e)'
<1>1. /\ \A s \in Sessions \ {e} :
            outbox[s] = <<>> /\ pc[s] \in {"idle", "loop", "send"} /\ sync[s] = NoSync
      /\ saver = "idle"
  BY DEF Solo
<1>2. CASE Connect(e) \/ Close(e) \/ ApplySync(e) \/ Edit(e)
  <2>1. /\ UNCHANGED <<storeVars, threadVars, sendVars, restVars>>
        /\ outbox' = outbox \/ \E q : outbox' = [outbox EXCEPT ![e] = q]
    BY <1>2 DEF Connect, Close, ApplySync, Edit
  <2>2. \A s \in Sessions \ {e} : outbox'[s] = outbox[s]
    BY <2>1 DEF IInv, TypeOK
  <2> QED
    BY <2>1, <2>2 DEF Solo, storeVars, threadVars, sendVars, restVars
<1>3. CASE ReceiveUntyped(e) \/ ReceiveChange(e)
  <2>1. /\ pc[e] = "idle" /\ outbox' = [outbox EXCEPT ![e] = Tail(@)]
        /\ UNCHANGED <<storeVars, sync, sendVars, restVars>>
        /\ \/ UNCHANGED <<pc, current>>
           \/ \E r \in Latest : /\ current' = [current EXCEPT ![e] = r]
                                /\ pc' = [pc EXCEPT ![e] = "save"]
    BY <1>3 DEF ReceiveUntyped, ReceiveChange, Receive, Goto, threadVars
  <2>2. \A s \in Sessions \ {e} : outbox'[s] = outbox[s] /\ pc'[s] = pc[s]
    BY <2>1 DEF IInv, TypeOK
  <2>3. \/ pc'[e] = "idle"
        \/ pc'[e] = "save" /\ \E r \in Latest : current'[e] = r
    BY <2>1 DEF IInv, TypeOK
  <2>4. pc'[e] = "save" => current'[e].version = stored
    BY <2>3, LatestIsStored DEF IInv
  <2> QED
    BY <2>1, <2>2, <2>3, <2>4 DEF Solo, storeVars, sendVars, restVars
<1>4. CASE Save(e)
  <2>1. /\ pc' = [pc EXCEPT ![e] = "broadcast"] /\ UNCHANGED <<clientVars, sendVars, restVars>>
        /\ \E m : sync' = [sync EXCEPT ![e] = m]
        /\ pc[e] = "save"
    BY <1>4 DEF Save, Goto
  <2>2. sync'[e].version = stored'
    BY <1>4, LoneSave
  <2>3. /\ pc'[e] = "broadcast" /\ target'[e] = None /\ toSend'[e] = {}
        /\ \A s \in Sessions \ {e} : pc'[s] = pc[s] /\ sync'[s] = sync[s]
    BY <2>1 DEF Solo, IInv, TypeOK, sendVars
  <2> QED
    BY <2>1, <2>2, <2>3 DEF Solo, clientVars, sendVars, restVars
<1>5. CASE Broadcast(e) \/ ReceiveCursor(e)
  <2>1. /\ UNCHANGED <<storeVars, outbox, target, restVars>>
        /\ pc[e] \in {"idle", "broadcast"}
        /\ \/ /\ pc' = [pc EXCEPT ![e] = "idle"] /\ sync' = [sync EXCEPT ![e] = NoSync]
              /\ toSend' = toSend
           \/ /\ pc' = [pc EXCEPT ![e] = "loop"] /\ sync' = sync
              /\ \E T : toSend' = [toSend EXCEPT ![e] = T]
    BY <1>5 DEF Broadcast, ReceiveCursor, Goto, clientVars
  <2>2. \A s \in Sessions \ {e} : pc'[s] = pc[s] /\ sync'[s] = sync[s]
    BY <2>1 DEF IInv, TypeOK
  <2>3. \/ pc'[e] = "idle" /\ sync'[e] = NoSync /\ toSend'[e] = {}
        \/ pc'[e] = "loop" /\ sync'[e] = sync[e]
    BY <2>1 DEF Solo, IInv, TypeOK
  <2>4. target'[e] = None
    BY <2>1 DEF Solo
  <2> QED
    BY <2>1, <2>2, <2>3, <2>4 DEF Solo, storeVars, restVars
<1>6. CASE \/ SendToClosed(e) \/ EndSend(e) \/ FinishLoop(e)
           \/ \E t \in Sessions : BeginSend(e, t) \/ SkipClosed(e, t) \/ SendCollides(e, t)
  <2>1. /\ UNCHANGED <<storeVars, outbox, restVars>>
        /\ pc[e] \in {"loop", "send"}
        /\ \/ /\ pc' = [pc EXCEPT ![e] = "idle"] /\ sync' = [sync EXCEPT ![e] = NoSync]
              /\ toSend' = [toSend EXCEPT ![e] = {}]
           \/ /\ sync' = sync
              /\ pc' = pc \/ \E l \in {"loop", "send"} : pc' = [pc EXCEPT ![e] = l]
              /\ toSend' = toSend \/ \E T : toSend' = [toSend EXCEPT ![e] = T]
    BY <1>6 DEF SendToClosed, EndSend, FinishLoop, BeginSend, SkipClosed, SendCollides,
                EndLoop, Goto, clientVars, threadVars
  <2>2. \/ pc' = [pc EXCEPT ![e] = "send"]
        \/ pc[e] = "loop" /\ target' = target
        \/ target' = [target EXCEPT ![e] = None]
    BY <1>6 DEF SendToClosed, EndSend, FinishLoop, BeginSend, SkipClosed, SendCollides,
                EndLoop, Goto
  <2>3. \A s \in Sessions \ {e} : pc'[s] = pc[s] /\ sync'[s] = sync[s]
    BY <2>1 DEF IInv, TypeOK
  <2>4. \/ pc'[e] = "idle" /\ sync'[e] = NoSync /\ toSend'[e] = {}
        \/ pc'[e] \in {"loop", "send"} /\ sync'[e] = sync[e]
    BY <2>1 DEF IInv, TypeOK
  <2>5. pc'[e] # "send" => target'[e] = None
    BY <2>2 DEF Solo, IInv, TypeOK
  <2> QED
    BY <2>1, <2>3, <2>4, <2>5 DEF Solo, storeVars, restVars
<1> QED
  BY <1>2, <1>3, <1>4, <1>5, <1>6 DEF Step

LEMMA ShutStep == ASSUME IInv, Shut, NEW s \in Sessions, Step(s) PROVE Shut'
<1> SUFFICES ASSUME NEW q \in Sessions, conn'[q] # "open" PROVE inbox'[q] = <<>>
  BY DEF Shut
<1>1. CASE Connect(s)
  <2>1. conn' = [conn EXCEPT ![s] = "open"] /\ inbox' = inbox
    BY <1>1 DEF Connect
  <2>2. q # s /\ conn'[q] = conn[q]
    BY <2>1 DEF IInv, TypeOK
  <2> QED
    BY <2>1, <2>2 DEF Shut
<1>2. CASE Close(s)
  <2>1. conn' = [conn EXCEPT ![s] = "closed"] /\ inbox' = [inbox EXCEPT ![s] = <<>>]
    BY <1>2 DEF Close
  <2> QED
    BY <2>1 DEF Shut, IInv, TypeOK
<1>3. CASE ApplySync(s)
  <2>1. conn' = conn /\ inbox[s] # <<>> /\ inbox' = [inbox EXCEPT ![s] = Tail(@)]
    BY <1>3 DEF ApplySync
  <2>2. q # s
    BY <2>1 DEF Shut
  <2> QED
    BY <2>1, <2>2 DEF Shut, IInv, TypeOK
<1>4. CASE EndSend(s)
  <2>1. /\ conn' = conn
        /\ \/ inbox' = inbox
           \/ /\ conn[target[s]] = "open"
              /\ inbox' = [inbox EXCEPT ![target[s]] = Append(@, sync[s])]
    BY <1>4 DEF EndSend
  <2>2. inbox'[q] = inbox[q]
    BY <2>1 DEF IInv, TypeOK
  <2> QED
    BY <2>1, <2>2 DEF Shut
<1>5. CASE UNCHANGED <<conn, inbox>>
  BY <1>5 DEF Shut
<1> QED
  BY <1>1, <1>2, <1>3, <1>4, <1>5
     DEF Step, Edit, ReceiveUntyped, ReceiveChange, Save, Broadcast, ReceiveCursor,
         SendToClosed, FinishLoop, BeginSend, SkipClosed, SendCollides, clientVars

\* A client that joins has the latest text.
LEMMA ServedOnConnect ==
    ASSUME IInv, NEW e, NEW s \in Sessions, Numbered, Shut, Connect(s)
    PROVE  Served(e, s)'
<1>1. PICK r \in Latest :
         replica' = [replica EXCEPT ![s] = [version |-> r.version, text |-> r.text]]
  BY DEF Connect
<1>2. r \in rows \cup {NoRow} /\ r.version = stored
  BY LatestIsStored DEF IInv
<1>3. TextIn(rows, stored) = r.text
  BY <1>2, TextIs DEF IInv, TypeOK, Numbered
<1>4. /\ replica'[s].version = stored /\ replica'[s].text = TextIn(rows, stored)
      /\ inbox'[s] = <<>> /\ rows' = rows /\ stored' = stored
  BY <1>1, <1>2, <1>3 DEF Connect, Shut, storeVars, IInv, TypeOK
<1>5. Len(inbox'[s]) = 0
  BY <1>4, EmptySeq
<1>6. Known(replica'[s], inbox'[s], Len(inbox'[s])) = stored
  BY <1>4, <1>5 DEF Known
<1>7. Follows(rows', replica'[s], inbox'[s])
  BY <1>4, <1>5 DEF Follows
<1>8. Leads(rows, stored, stored)
  BY SyncAssumption DEF Leads, IInv, TypeOK
<1> QED
  BY <1>4, <1>6, <1>7, <1>8 DEF Served

\* Until the broadcast has reached s, or will never reach it, it is pending.
LEMMA PendingStep ==
    ASSUME IInv, NEW e \in Sessions, Solo(e), Step(e), ~Save(e), NEW s \in Sessions,
           Pending(e, s), conn[s] = "open", s \notin missed',
           ~(EndSend(e) /\ target[e] = s)
    PROVE  Pending(e, s)'
<1>1. sync[e] # NoSync /\ pc[e] \notin {"idle", "save"}
  BY DEF Pending, Solo
<1>2. CASE Connect(e) \/ Close(e) \/ ApplySync(e) \/ Edit(e)
  BY <1>2 DEF Connect, Close, ApplySync, Edit, threadVars, sendVars, Pending
<1>3. ~ReceiveUntyped(e) /\ ~ReceiveChange(e) /\ ~ReceiveCursor(e)
  BY <1>1 DEF ReceiveUntyped, ReceiveChange, Receive, ReceiveCursor
<1>4. CASE Broadcast(e)
  <2>1. pc[e] = "broadcast" /\ toSend[e] = {} /\ target[e] = None
    BY <1>4 DEF Broadcast, Solo
  <2>2. sync[e].change # NoChange
    BY <2>1, SyncAssumption DEF Pending
  <2>3. sync' = sync /\ toSend' = [toSend EXCEPT ![e] = Open]
    BY <1>4, <2>2 DEF Broadcast
  <2>4. s \in toSend'[e]
    BY <2>3 DEF Open, IInv, TypeOK
  <2> QED
    BY <1>1, <2>3, <2>4 DEF Pending
<1>5. ASSUME pc[e] \in {"loop", "send"} PROVE s \in toSend[e] \/ target[e] = s
  BY <1>5 DEF Pending
<1>6. CASE SendToClosed(e) \/ \E t \in Sessions : SendCollides(e, t)
  <2>1. missed' = missed \cup toSend[e]
    BY <1>1, <1>6 DEF SendToClosed, SendCollides
  <2>2. s \notin toSend[e]
    BY <2>1
  <2>3. target[e] # s
    <3>1. CASE SendToClosed(e)
      BY <3>1 DEF SendToClosed
    <3>2. CASE pc[e] = "loop"
      BY <3>2, SyncAssumption DEF Solo
    <3> QED
      BY <1>6, <3>1, <3>2 DEF SendCollides
  <2> QED
    BY <1>5, <1>6, <2>2, <2>3 DEF SendToClosed, SendCollides
<1>7. CASE EndSend(e)
  <2>1. UNCHANGED <<sync, toSend>> /\ pc[e] = "send"
    BY <1>7 DEF EndSend
  <2> QED
    BY <1>1, <1>5, <1>7, <2>1 DEF Pending
<1>8. CASE FinishLoop(e)
  BY <1>5, <1>8, SyncAssumption DEF FinishLoop, Solo
<1>9. ASSUME NEW t \in Sessions, BeginSend(e, t) \/ SkipClosed(e, t)
      PROVE  Pending(e, s)'
  <2>1. /\ pc[e] = "loop" /\ sync' = sync /\ toSend' = [toSend EXCEPT ![e] = @ \ {t}]
    BY <1>9 DEF BeginSend, SkipClosed, threadVars
  <2>2. s \in toSend[e]
    BY <1>5, <2>1, SyncAssumption DEF Solo
  <2>3. CASE s # t
    BY <1>1, <2>1, <2>2, <2>3 DEF Pending, IInv, TypeOK
  <2>4. CASE s = t
    <3>1. BeginSend(e, t)
      BY <1>9, <2>4 DEF SkipClosed
    <3>2. target'[e] = s
      BY <3>1, <2>4 DEF BeginSend, IInv, TypeOK
    <3> QED
      BY <1>1, <2>1, <3>2 DEF Pending
  <2> QED
    BY <2>3, <2>4
<1> QED
  BY <1>2, <1>3, <1>4, <1>6, <1>7, <1>8, <1>9 DEF Step

LEMMA ServedStep ==
    ASSUME IInv, IInv', NEW e \in Sessions, Lone(e), LInv(e), NEW q \in Sessions, Step(q),
           NEW s \in Sessions, conn'[s] = "open", s \notin missed'
    PROVE  Served(e, s)'
<1> USE DEF LInv
<1>1. CASE Connect(q) /\ q = s
  BY <1>1, ServedOnConnect
<1>2. (conn[s] = "open" /\ s \notin missed) \/ (Connect(q) /\ q = s)
  <2>1. missed \subseteq missed'
    BY DEF Step, Connect, Close, Edit, ApplySync, ReceiveUntyped, ReceiveChange, Save, Broadcast,
           ReceiveCursor, SendToClosed, EndSend, FinishLoop, BeginSend, SkipClosed, SendCollides,
           sendVars
  <2>2. conn' = conn \/ Connect(q) \/ conn' = [conn EXCEPT ![q] = "closed"]
    BY DEF Step, Close, Edit, ApplySync, ReceiveUntyped, ReceiveChange, Save, Broadcast,
           ReceiveCursor, SendToClosed, EndSend, FinishLoop, BeginSend, SkipClosed, SendCollides,
           clientVars
  <2>3. CASE Connect(q) /\ q # s
    <3>1. conn' = [conn EXCEPT ![q] = "open"]
      BY <2>3 DEF Connect
    <3>2. conn'[s] = conn[s]
      BY <2>3, <3>1 DEF IInv, TypeOK
    <3> QED
      BY <2>1, <3>2
  <2>4. CASE conn' = conn \/ conn' = [conn EXCEPT ![q] = "closed"]
    <3>1. conn[s] = "open"
      BY <2>4 DEF IInv, TypeOK
    <3> QED
      BY <2>1, <3>1
  <2> QED
    BY <2>2, <2>3, <2>4
<1>3. ASSUME conn[s] = "open", s \notin missed PROVE Served(e, s)'
  <2>1. Served(e, s)
    BY <1>3 DEF Open
  <2>2. CASE ApplySync(q) /\ q = s
    BY <2>1, <2>2, ServedOnApply
  <2>3. CASE Save(q)
    <3>1. q = e
      BY <2>3 DEF Save, Solo
    <3> QED
      BY <2>1, <2>3, <3>1, FollowsOn
  <2>4. CASE EndSend(q) /\ q = e /\ sync[e] # NoSync /\ target[e] = s
    BY <1>3, <2>1, <2>4, ServedOnEndSend
  <2>5. CASE /\ ~(ApplySync(q) /\ q = s) /\ ~Save(q)
             /\ ~(EndSend(q) /\ q = e /\ sync[e] # NoSync /\ target[e] = s)
    <3>1. UNCHANGED storeVars
      BY <2>5 DEF Step, Connect, Close, Edit, ApplySync, ReceiveUntyped, ReceiveChange, Broadcast,
             ReceiveCursor, SendToClosed, EndSend, FinishLoop, BeginSend, SkipClosed, SendCollides
    <3>2. ~(q = s /\ (Connect(q) \/ Close(q)))
      <4>1. Close(q) => conn' = [conn EXCEPT ![q] = "closed"]
        BY DEF Close
      <4> QED
        BY <1>3, <4>1 DEF Connect, IInv, TypeOK
    <3>3. replica'[s] = replica[s] /\ inbox'[s] = inbox[s]
      <4>1. CASE Connect(q) \/ Close(q) \/ ApplySync(q)
        <5>1. q # s
          BY <2>5, <3>2, <4>1
        <5>2. /\ replica' = replica \/ \E c : replica' = [replica EXCEPT ![q] = c]
              /\ inbox' = inbox \/ \E c : inbox' = [inbox EXCEPT ![q] = c]
          BY <4>1 DEF Connect, Close, ApplySync
        <5> QED
          BY <5>1, <5>2 DEF IInv, TypeOK
      <4>2. CASE EndSend(q)
        <5>1. replica' = replica
          BY <4>2 DEF EndSend
        <5>2. \/ inbox' = inbox
              \/ /\ sync[q] # NoSync /\ target[q] # s
                 /\ inbox' = [inbox EXCEPT ![target[q]] = Append(@, sync[q])]
          BY <2>5, <4>2 DEF EndSend, Solo
        <5> QED
          BY <5>1, <5>2 DEF IInv, TypeOK
      <4>3. CASE UNCHANGED <<replica, inbox>>
        BY <4>3
      <4> QED
        BY <2>5, <4>1, <4>2, <4>3
           DEF Step, Edit, ReceiveUntyped, ReceiveChange, Broadcast,
               ReceiveCursor, SendToClosed, FinishLoop, BeginSend, SkipClosed, SendCollides,
               clientVars
    <3>4. Pending(e, s) => Pending(e, s)'
      <4>1. CASE q = e
        <5>1. Pending(e, s) => sync[e] # NoSync
          BY DEF Pending
        <5> QED
          BY <1>3, <2>5, <4>1, <5>1, PendingStep
      <4>2. CASE q # e
        <5>1. /\ pc'[e] = pc[e] /\ sync'[e] = sync[e]
              /\ target'[e] = target[e] /\ toSend'[e] = toSend[e]
          BY <4>2, OthersMove
        <5> QED
          BY <5>1 DEF Pending
      <4> QED
        BY <4>1, <4>2
    <3> QED
      BY <2>1, <3>1, <3>3, <3>4, ServedKept
  <2> QED
    BY <2>2, <2>3, <2>4, <2>5
<1> QED
  BY <1>1, <1>2, <1>3

LEMMA LoneStep ==
    ASSUME NEW e \in Sessions, Lone(e), IInv, IInv', LInv(e), [Next]_vars PROVE LInv(e)'
<1>1. ASSUME NEW q \in Sessions, Step(q) PROVE LInv(e)'
  <2>1. Solo(e)'
    <3>1. CASE q = e
      BY <1>1, <3>1, SoloEditor DEF LInv
    <3>2. CASE q # e
      BY <1>1, <3>2, SoloOthers DEF LInv
    <3> QED
      BY <3>1, <3>2
  <2>2. Numbered'
    <3>1. CASE Save(q)
      <4>1. q = e
        BY <3>1 DEF Save, LInv, Solo
      <4> QED
        BY <3>1, <4>1, LoneSave DEF LInv
    <3>2. CASE ~Save(q)
      <4>1. UNCHANGED storeVars
        BY <1>1, <3>2 DEF Step, Connect, Close, Edit, ApplySync, ReceiveUntyped, ReceiveChange,
               Broadcast, ReceiveCursor, SendToClosed, EndSend, FinishLoop, BeginSend, SkipClosed,
               SendCollides
      <4> QED
        BY <4>1 DEF LInv, Numbered, Versions, storeVars
    <3> QED
      BY <3>1, <3>2
  <2>3. Shut'
    BY <1>1, ShutStep DEF LInv
  <2>4. \A s \in Sessions : conn'[s] = "open" /\ s \notin missed' => Served(e, s)'
    BY <1>1, ServedStep
  <2> QED
    BY <2>1, <2>2, <2>3, <2>4 DEF LInv, Open
<1>2. ~SaveContent /\ ~CommitContent
  BY DEF SaveContent, CommitContent, Lone, LInv, Solo
<1>3. CASE UNCHANGED vars
  BY <1>3 DEF LInv, Numbered, Versions, Solo, Shut, Open, Served, Pending, vars, storeVars,
              clientVars, threadVars, sendVars, restVars
<1> QED
  BY <1>1, <1>2, <1>3 DEF Next, Step

LEMMA LoneInit == ASSUME NEW e \in Sessions, Init PROVE LInv(e)
<1>1. Numbered
  <2>1. Versions = {} /\ 1 .. 0 = {}
    BY DEF Init, Versions
  <2> QED
    BY <2>1 DEF Init, Numbered, OnePerVersion
<1>2. Solo(e)
  BY DEF Init, Solo
<1>3. Shut
  BY DEF Init, Shut
<1>4. Open = {}
  BY DEF Init, Open
<1> QED
  BY <1>1, <1>2, <1>3, <1>4 DEF LInv

\* However many clients are in the room: what the only one that writes has had
\* stored, all of them come to show, but for those a broadcast never reached.
THEOREM LoneEditorIsFollowed ==
    ASSUME NEW e, Lone(e)
    PROVE  Spec => []TextConverges
<1>0. e \in Sessions
  BY SyncAssumption DEF Lone
<1>1. Init => LInv(e)
  BY <1>0, LoneInit
<1>2. IInv /\ IInv' /\ LInv(e) /\ [Next]_vars => LInv(e)'
  BY <1>0, LoneStep
<1>3. IInv /\ LInv(e) => TextConverges
  <2> SUFFICES ASSUME IInv, LInv(e), Quiet, NEW s \in Open \ missed
               PROVE  \E r \in Latest :
                         /\ replica[s].text = r.text
                         /\ \/ replica[s].version = r.version
                            \/ \E q \in rows \cup {NoRow} :
                                  q.version = r.version - 1 /\ q.text = r.text
    BY DEF TextConverges
  <2> DEFINE k == replica[s].version
  <2>0. stored \in Nat
    BY SyncAssumption DEF IInv, TypeOK
  <2>1. s \in Sessions /\ Served(e, s)
    BY DEF LInv, Open
  <2>2. inbox[s] = <<>> /\ sync[e] = NoSync
    BY <1>0, <2>1 DEF Quiet, LInv, Solo
  <2>3. Known(replica[s], inbox[s], Len(inbox[s])) = k
    BY <2>2, EmptySeq DEF Known
  <2>4. /\ replica[s].text = TextIn(rows, k) /\ TextIn(rows, k) = TextIn(rows, stored)
        /\ Leads(rows, k, stored) /\ k \in 0 .. stored
    BY <1>0, <2>1, <2>2, <2>3, ServedIs DEF Served, Follows, Pending, LInv
  <2>5. PICK r \in Latest : TRUE
    <3>1. stored \in 0 .. stored
      BY <2>0
    <3>2. PICK q \in rows \cup {NoRow} : q.version = stored
      BY <3>1, RowOf DEF IInv, LInv
    <3>3. \A r \in rows : r.version \in 1 .. stored
      BY DEF LInv, Numbered, Versions
    <3>4. CASE rows = {}
      BY <3>4 DEF Latest
    <3>5. CASE rows # {}
      <4>1. stored # 0
        BY <3>3, <3>5
      <4>2. q \in rows
        BY <3>2, <4>1, NoRowIs
      <4> QED
        BY <2>0, <3>2, <3>3, <4>2 DEF Latest
    <3> QED
      BY <3>4, <3>5
  <2>6. r \in rows \cup {NoRow} /\ r.version = stored
    BY LatestIsStored DEF IInv, LInv
  <2>7. r.text = TextIn(rows, stored)
    BY <2>6, TextIs DEF IInv, TypeOK, LInv, Numbered
  <2>8. CASE k = stored
    BY <2>4, <2>6, <2>7, <2>8
  <2>9. CASE k # stored
    <3>1. k < stored /\ stored - 1 \in 0 .. stored
      BY <2>0, <2>4, <2>9
    <3>2. TextIn(rows, stored - 1) = TextIn(rows, k)
      BY <2>4, <3>1 DEF Leads
    <3>3. \E q \in rows \cup {NoRow} : q.version = stored - 1 /\ q.text = TextIn(rows, stored - 1)
      BY <3>1, RowOf DEF IInv, LInv
    <3> QED
      BY <2>4, <2>6, <2>7, <3>2, <3>3
  <2> QED
    BY <2>8, <2>9
<1> QED
  BY <1>1, <1>2, <1>3, Invariance, PTL DEF Spec

-----------------------------------------------------------------------------
(***************************************************************************)
(* The rooms that the handler sends to (module EditorRooms), for any       *)
(* number of connections and files: a broadcast reaches no session of      *)
(* another file, every registered one that no removal raced, and none that *)
(* was removed.                                                            *)
(*                                                                         *)
(* Naming says which file a room is for, and that a session is in no other *)
(* room than the one its addition looked up.  Safe says what a session     *)
(* that met no removal can rely on: no removal runs beside its addition,   *)
(* and one that began later works on the room it is in and cannot find it  *)
(* empty.  Removed follows a removal: fileRooms may forget the room it     *)
(* works on, but a room that was forgotten is never named there again.     *)
(* Kept says why a room is named: somebody is in it, is about to join it,  *)
(* or is about to look whether it can be dropped.                          *)
(***************************************************************************)

\* The stages of addSession from which the room is known, and those from
\* which the session is in it.
HasRoom(s) == adding[s] \in {"join", "putFile", "putUser", "done"}
Joined(s)  == adding[s] \in {"putFile", "putUser", "done"}

Naming ==
    /\ \A s \in Sessions :
          /\ connection[s] = "none" => adding[s] = "none" /\ removing[s] = "none"
          /\ adding[s] = "none" <=> file[s] = None
          /\ removing[s] # "none" <=> connection[s] = "closed"
          /\ HasRoom(s) <=> addRoom[s] # None
          /\ HasRoom(s) => HasRoom(addRoom[s]) /\ file[addRoom[s]] = file[s]
          /\ sessionToFileId[s] # None =>
                adding[s] \in {"putUser", "done"} /\ sessionToFileId[s] = file[s]
    /\ \A f \in Files : fileRooms[f] # None =>
          HasRoom(fileRooms[f]) /\ file[fileRooms[f]] = f
    /\ \A r \in Sessions : \A s \in members[r] : Joined(s) /\ addRoom[s] = r

\* Registered, or on the way to it in the room, without a removal beside it.
Settled(s) == s \notin raced /\ Joined(s) /\ removing[s] = "none"

Safe ==
    /\ \A s \in Sessions \ raced : Adding(s) =>
          \A r \in Sessions : Removing(r) => file[r] # file[s]
    /\ \A s \in Sessions \ raced : adding[s] = "join" => fileRooms[file[s]] = addRoom[s]
    /\ \A s \in Sessions : Settled(s) => s \in SessionsOf(file[s])
    /\ \A r, s \in Sessions : Settled(s) /\ file[s] = file[r] =>
          /\ removing[r] \in {"leave", "check"} => removeRoom[r] = fileRooms[file[r]]
          /\ removing[r] # "drop"

\* A removal takes out the file of its session, and the room of that file.
Removed ==
    \A s \in Sessions :
        /\ removeFile[s] # None =>
              /\ removing[s] \notin {"none", "takeFile"}
              /\ adding[s] \in {"putUser", "done"}
              /\ removeFile[s] = file[s]
        /\ removing[s] \in {"lookup", "leave", "check", "drop"} => removeFile[s] # None
        /\ removeRoom[s] # None =>
              /\ removeFile[s] # None
              /\ HasRoom(removeRoom[s]) /\ file[removeRoom[s]] = file[s]
        /\ removing[s] \in {"leave", "check", "drop"} => removeRoom[s] # None
        /\ /\ removing[s] \in {"leave", "check", "drop", "done"}
           /\ removeFile[s] # None
           /\ fileRooms[file[s]] = addRoom[s]
           => removeRoom[s] = addRoom[s]
        /\ removing[s] \in {"check", "drop", "done"} /\ removeRoom[s] # None =>
              s \notin members[removeRoom[s]]
        /\ removing[s] \in {"none", "takeFile", "takeUser",
                           "lookup"} => removeRoom[s] = None

Kept ==
    \A f \in Files : fileRooms[f] # None =>
        \E s \in Sessions :
            \/ adding[s] = "join" /\ addRoom[s] = fileRooms[f]
            \/ s \in members[fileRooms[f]]
            \/ removing[s] \in {"check", "drop"} /\ removeRoom[s] = fileRooms[f]

RoomsInv == RoomsTypeOK /\ Naming /\ Safe /\ Removed /\ Kept

LEMMA RoomsInvInit == RoomsInit => RoomsInv
<1> SUFFICES ASSUME RoomsInit PROVE RoomsInv
  OBVIOUS
<1> USE NoneAssumption DEF RoomsInit
<1>1. RoomsTypeOK
  BY DEF RoomsTypeOK
<1>2. Naming
  BY DEF Naming, HasRoom, Joined
<1>3. Safe
  BY DEF Safe, Adding, Settled, Joined
<1>4. Removed
  BY DEF Removed
<1>5. Kept
  BY DEF Kept
<1> QED
  BY <1>1, <1>2, <1>3, <1>4, <1>5 DEF RoomsInv

LEMMA OpenConnectionPreserves ==
    ASSUME RoomsInv, NEW s \in Sessions, NEW f \in Files, OpenConnection(s, f)
    PROVE  RoomsInv'
<1> USE NoneAssumption DEF RoomsInv, RoomsTypeOK, OpenConnection, Add, Remove, addVars,
        removeVars, indexVars
<1>1. RoomsTypeOK'
  BY DEF Adding, Removing
<1>2. Naming'
  BY DEF Naming, HasRoom, Joined
<1>3. Safe'
  BY DEF Safe, Adding, Removing, Settled, Joined, SessionsOf, Naming, HasRoom, Removed
<1>4. Removed'
  BY DEF Removed, Naming, HasRoom, Joined
<1>5. Kept'
  BY DEF Kept, Naming, HasRoom, Joined, Removed
<1> QED
  BY <1>1, <1>2, <1>3, <1>4, <1>5

LEMMA RefusePreserves ==
    ASSUME RoomsInv, NEW s \in Sessions, Refuse(s)
    PROVE  RoomsInv'
<1> USE NoneAssumption DEF RoomsInv, RoomsTypeOK, Refuse, Add, Remove, addVars,
        removeVars, indexVars
<1>1. RoomsTypeOK'
  BY DEF Adding, Removing
<1>2. Naming'
  BY DEF Naming, HasRoom, Joined
<1>3. Safe'
  BY DEF Safe, Adding, Removing, Settled, Joined, SessionsOf, Naming, HasRoom, Removed
<1>4. Removed'
  BY DEF Removed, Naming, HasRoom, Joined
<1>5. Kept'
  BY DEF Kept, Naming, HasRoom, Joined, Removed
<1> QED
  BY <1>1, <1>2, <1>3, <1>4, <1>5

LEMMA CloseConnectionPreserves ==
    ASSUME RoomsInv, NEW s \in Sessions, CloseConnection(s)
    PROVE  RoomsInv'
<1> USE NoneAssumption DEF RoomsInv, RoomsTypeOK, CloseConnection, Add, Remove,
        addVars, removeVars, indexVars, Meets
<1>1. RoomsTypeOK'
  BY DEF Adding, Removing
<1>2. Naming'
  BY DEF Naming, HasRoom, Joined
<1>3. Safe'
  BY DEF Safe, Adding, Removing, Settled, Joined, SessionsOf, Naming, HasRoom, Removed
<1>4. Removed'
  BY DEF Removed, Naming, HasRoom, Joined
<1>5. Kept'
  BY DEF Kept, Naming, HasRoom, Joined, Removed
<1> QED
  BY <1>1, <1>2, <1>3, <1>4, <1>5

LEMMA LookupRoomPreserves ==
    ASSUME RoomsInv, NEW s \in Sessions, LookupRoom(s)
    PROVE  RoomsInv'
<1> USE NoneAssumption DEF RoomsInv, RoomsTypeOK, LookupRoom, Add, Remove, addVars,
       removeVars, indexVars
<1>1. RoomsTypeOK'
  BY DEF Naming, HasRoom
<1>2. Naming'
  BY DEF Naming, HasRoom, Joined
<1>3. Safe'
  BY DEF Safe, Adding, Removing, Settled, Joined, SessionsOf, Naming, HasRoom, Removed
<1>4. Removed'
  BY DEF Removed, Naming, HasRoom, Joined
<1>5. Kept'
  BY DEF Kept, Naming, HasRoom, Joined, Removed
<1> QED
  BY <1>1, <1>2, <1>3, <1>4, <1>5

LEMMA JoinRoomPreserves ==
    ASSUME RoomsInv, NEW s \in Sessions, JoinRoom(s)
    PROVE  RoomsInv'
<1> USE NoneAssumption DEF RoomsInv, RoomsTypeOK, JoinRoom, Add, Remove, addVars,
        removeVars, indexVars
<1>1. RoomsTypeOK'
  BY DEF Adding, Removing
<1>2. Naming'
  BY DEF Naming, HasRoom, Joined
<1>3. Safe'
  BY DEF Safe, Adding, Removing, Settled, Joined, SessionsOf, Naming, HasRoom, Removed
<1>4. Removed'
  BY DEF Removed, Naming, HasRoom, Joined
<1>5. Kept'
  BY DEF Kept, Naming, HasRoom, Joined, Removed
<1> QED
  BY <1>1, <1>2, <1>3, <1>4, <1>5

LEMMA PutFilePreserves ==
    ASSUME RoomsInv, NEW s \in Sessions, PutFile(s)
    PROVE  RoomsInv'
<1> USE NoneAssumption DEF RoomsInv, RoomsTypeOK, PutFile, Add, Remove, addVars,
        removeVars, indexVars
<1>1. RoomsTypeOK'
  BY DEF Adding, Removing
<1>2. Naming'
  BY DEF Naming, HasRoom, Joined
<1>3. Safe'
  BY DEF Safe, Adding, Removing, Settled, Joined, SessionsOf, Naming, HasRoom, Removed
<1>4. Removed'
  BY DEF Removed, Naming, HasRoom, Joined
<1>5. Kept'
  BY DEF Kept, Naming, HasRoom, Joined, Removed
<1> QED
  BY <1>1, <1>2, <1>3, <1>4, <1>5

LEMMA PutUserPreserves ==
    ASSUME RoomsInv, NEW s \in Sessions, PutUser(s)
    PROVE  RoomsInv'
<1> USE NoneAssumption DEF RoomsInv, RoomsTypeOK, PutUser, Add, Remove, addVars,
        removeVars, indexVars
<1>1. RoomsTypeOK'
  BY DEF Adding, Removing
<1>2. Naming'
  BY DEF Naming, HasRoom, Joined
<1>3. Safe'
  BY DEF Safe, Adding, Removing, Settled, Joined, SessionsOf, Naming, HasRoom, Removed
<1>4. Removed'
  BY DEF Removed, Naming, HasRoom, Joined
<1>5. Kept'
  BY DEF Kept, Naming, HasRoom, Joined, Removed
<1> QED
  BY <1>1, <1>2, <1>3, <1>4, <1>5

LEMMA TakeFilePreserves ==
    ASSUME RoomsInv, NEW s \in Sessions, TakeFile(s)
    PROVE  RoomsInv'
<1> USE NoneAssumption DEF RoomsInv, RoomsTypeOK, TakeFile, Add, Remove, addVars,
        removeVars, indexVars
<1>1. RoomsTypeOK'
  BY DEF Adding, Removing
<1>2. Naming'
  BY DEF Naming, HasRoom, Joined
<1>3. Safe'
  BY DEF Safe, Adding, Removing, Settled, Joined, SessionsOf, Naming, HasRoom, Removed
<1>4. Removed'
  BY DEF Removed, Naming, HasRoom, Joined
<1>5. Kept'
  BY DEF Kept, Naming, HasRoom, Joined, Removed
<1> QED
  BY <1>1, <1>2, <1>3, <1>4, <1>5

LEMMA TakeUserPreserves ==
    ASSUME RoomsInv, NEW s \in Sessions, TakeUser(s)
    PROVE  RoomsInv'
<1> USE NoneAssumption DEF RoomsInv, RoomsTypeOK, TakeUser, Add, Remove, addVars,
        removeVars, indexVars
<1>1. RoomsTypeOK'
  BY DEF Adding, Removing
<1>2. Naming'
  BY DEF Naming, HasRoom, Joined
<1>3. Safe'
  BY DEF Safe, Adding, Removing, Settled, Joined, SessionsOf, Naming, HasRoom, Removed
<1>4. Removed'
  BY DEF Removed, Naming, HasRoom, Joined
<1>5. Kept'
  BY DEF Kept, Naming, HasRoom, Joined, Removed
<1> QED
  BY <1>1, <1>2, <1>3, <1>4, <1>5

LEMMA FindRoomPreserves ==
    ASSUME RoomsInv, NEW s \in Sessions, FindRoom(s)
    PROVE  RoomsInv'
<1> USE NoneAssumption DEF RoomsInv, RoomsTypeOK, FindRoom, Add, Remove, addVars,
        removeVars, indexVars
<1>1. RoomsTypeOK'
  BY DEF Removed
<1>2. Naming'
  BY DEF Naming, HasRoom, Joined
<1>3. Safe'
  BY DEF Safe, Adding, Removing, Settled, Joined, SessionsOf, Naming, HasRoom, Removed
<1>4. Removed'
  BY DEF Removed, Naming, HasRoom, Joined
<1>5. Kept'
  BY DEF Kept, Naming, HasRoom, Joined, Removed
<1> QED
  BY <1>1, <1>2, <1>3, <1>4, <1>5

LEMMA LeaveRoomPreserves ==
    ASSUME RoomsInv, NEW s \in Sessions, LeaveRoom(s)
    PROVE  RoomsInv'
<1> USE NoneAssumption DEF RoomsInv, RoomsTypeOK, LeaveRoom, Add, Remove, addVars,
        removeVars, indexVars
<1>1. RoomsTypeOK'
  BY DEF Adding, Removing
<1>2. Naming'
  BY DEF Naming, HasRoom, Joined
<1>3. Safe'
  BY DEF Safe, Adding, Removing, Settled, Joined, SessionsOf, Naming, HasRoom, Removed
<1>4. Removed'
  BY DEF Removed, Naming, HasRoom, Joined
<1>5. Kept'
  BY DEF Kept, Naming, HasRoom, Joined, Removed
<1> QED
  BY <1>1, <1>2, <1>3, <1>4, <1>5

LEMMA CheckRoomPreserves ==
    ASSUME RoomsInv, NEW s \in Sessions, CheckRoom(s)
    PROVE  RoomsInv'
<1> USE NoneAssumption DEF RoomsInv, RoomsTypeOK, CheckRoom, Add, Remove, addVars,
        removeVars, indexVars
<1>1. RoomsTypeOK'
  BY DEF Adding, Removing
<1>2. Naming'
  BY DEF Naming, HasRoom, Joined
<1>3. Safe'
  BY DEF Safe, Adding, Removing, Settled, Joined, SessionsOf, Naming, HasRoom, Removed
<1>4. Removed'
  BY DEF Removed, Naming, HasRoom, Joined
<1>5. Kept'
  BY DEF Kept, Naming, HasRoom, Joined, Removed
<1> QED
  BY <1>1, <1>2, <1>3, <1>4, <1>5

LEMMA DropRoomPreserves ==
    ASSUME RoomsInv, NEW s \in Sessions, DropRoom(s)
    PROVE  RoomsInv'
<1> USE NoneAssumption DEF RoomsInv, RoomsTypeOK, DropRoom, Add, Remove, addVars,
        removeVars, indexVars
<1>1. RoomsTypeOK'
  BY DEF Adding, Removing
<1>2. Naming'
  BY DEF Naming, HasRoom, Joined
<1>3. Safe'
  BY DEF Safe, Adding, Removing, Settled, Joined, SessionsOf, Naming, HasRoom, Removed
<1>4. Removed'
  BY DEF Removed, Naming, HasRoom, Joined
<1>5. Kept'
  BY DEF Kept, Naming, HasRoom, Joined, Removed
<1> QED
  BY <1>1, <1>2, <1>3, <1>4, <1>5

LEMMA RoomsInvStep == RoomsInv /\ [RoomsNext]_roomsVars => RoomsInv'
<1> SUFFICES ASSUME RoomsInv, [RoomsNext]_roomsVars PROVE RoomsInv'
  OBVIOUS
<1>1. CASE UNCHANGED roomsVars
  BY <1>1 DEF roomsVars, addVars, removeVars, indexVars, RoomsInv, RoomsTypeOK, Naming,
     HasRoom, Joined, Safe, Adding, Removing, Settled, SessionsOf, Removed, Kept
<1>2. CASE RoomsNext
  BY <1>2, OpenConnectionPreserves, RefusePreserves, CloseConnectionPreserves,
     LookupRoomPreserves, JoinRoomPreserves, PutFilePreserves, PutUserPreserves,
     TakeFilePreserves, TakeUserPreserves, FindRoomPreserves, LeaveRoomPreserves,
     CheckRoomPreserves, DropRoomPreserves DEF RoomsNext
<1> QED
  BY <1>1, <1>2

\* The invariant holds of every behaviour of the rooms.
THEOREM RoomsInvariance == RoomsSpec => []RoomsInv
  BY RoomsInvInit, RoomsInvStep, PTL DEF RoomsSpec

\* The maps of the rooms, and where each operation is, keep their types.
THEOREM RoomsTypeCorrect == RoomsSpec => []RoomsTypeOK
<1>1. RoomsInv => RoomsTypeOK
  BY DEF RoomsInv
<1> QED
  BY <1>1, RoomsInvariance, PTL

LEMMA ApartByInv == RoomsInv => NoCrossRoom
<1> SUFFICES ASSUME RoomsInv, NEW f \in Files, NEW s \in SessionsOf(f)
             PROVE  file[s] = f
  BY DEF NoCrossRoom
<1>1. fileRooms[f] \in Sessions /\ s \in members[fileRooms[f]] /\ s \in Sessions
  BY DEF RoomsInv, RoomsTypeOK, SessionsOf
<1>2. addRoom[s] = fileRooms[f] /\ HasRoom(s) /\ fileRooms[f] # None
  BY <1>1, NoneAssumption DEF RoomsInv, Naming, Joined, HasRoom
<1> QED
  BY <1>1, <1>2 DEF RoomsInv, Naming

LEMMA GoneByInv == RoomsInv => GoneUnlessCutShort
<1> SUFFICES ASSUME RoomsInv, NEW s \in Sessions, removing[s] = "done",
       removeFile[s] # None,
                    file[s] # None, s \in SessionsOf(file[s])
             PROVE  FALSE
  BY DEF GoneUnlessCutShort
<1>1. file[s] \in Files /\ fileRooms[file[s]] \in Sessions
      /\ s \in members[fileRooms[file[s]]]
  BY DEF RoomsInv, RoomsTypeOK, SessionsOf
<1>2. addRoom[s] = fileRooms[file[s]]
  BY <1>1 DEF RoomsInv, Naming
<1>3. removeRoom[s] = addRoom[s]
  BY <1>2 DEF RoomsInv, Removed
<1>4. removeRoom[s] # None
  BY <1>1, <1>2, <1>3, NoneAssumption
<1> QED
  BY <1>1, <1>2, <1>3, <1>4 DEF RoomsInv, Removed

\* A broadcast about a file goes to no session of another file, whatever rooms
\* were made, forgotten and made again.
THEOREM RoomsApart == RoomsSpec => []NoCrossRoom
<1>1. RoomsInv => NoCrossRoom
  BY ApartByInv
<1> QED
  BY <1>1, RoomsInvariance, PTL

\* Broadcasts reach every registered session whose addition met no removal
\* from its file.
THEOREM Reachable == RoomsSpec => []ReachableUnlessRaced
<1>1. RoomsInv => ReachableUnlessRaced
  BY DEF RoomsInv, Safe, Settled, Joined, ReachableUnlessRaced, Registered
<1> QED
  BY <1>1, RoomsInvariance, PTL

\* A session that was removed, and not before its file was recorded, is in no
\* room that a broadcast finds.
THEOREM RemovedIsGone == RoomsSpec => []GoneUnlessCutShort
<1>1. RoomsInv => GoneUnlessCutShort
  BY GoneByInv
<1> QED
  BY <1>1, RoomsInvariance, PTL

\* When all is over, only sessions cut short keep a room.
THEOREM RoomsAreCollected == RoomsSpec => []RoomsCollected
<1>1. RoomsInv => RoomsCollected
  <2> SUFFICES ASSUME RoomsInv, NEW f \in Files, fileRooms[f] # None,
                      \A s \in Sessions :
                          connection[s] = "closed" /\ ~Adding(s) /\ ~Removing(s)
               PROVE  \E s \in SessionsOf(f) : removeFile[s] = None
    BY DEF RoomsCollected
  <2>1. PICK s \in Sessions : s \in members[fileRooms[f]]
    BY DEF RoomsInv, RoomsTypeOK, Kept, Adding, Removing
  <2>2. s \in SessionsOf(f)
    BY <2>1 DEF SessionsOf
  <2>3. file[s] = f /\ file[s] # None
    BY <2>2, ApartByInv, NoneAssumption DEF NoCrossRoom
  <2>4. removing[s] = "done"
    BY <2>1 DEF RoomsInv, RoomsTypeOK, Naming, Removing
  <2> QED
    BY <2>1, <2>2, <2>3, <2>4, GoneByInv DEF GoneUnlessCutShort
<1> QED
  BY <1>1, RoomsInvariance, PTL
=============================================================================
