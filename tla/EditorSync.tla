----------------------------- MODULE EditorSync -----------------------------
(***************************************************************************)
(* The life of one file's text: EditorWebSocketHandler takes the changes   *)
(* of the connected editors, stores each as a new version and broadcasts   *)
(* what changed, and FileContentServiceImpl stores versions over REST.     *)
(*                                                                         *)
(* Each connection has a thread of its own, which handles its messages one *)
(* after the other.  handleTextChange is no transaction: the query for the *)
(* latest version, the insert and every send are steps of their own.  A    *)
(* REST save is a transaction: it reads a snapshot and writes at commit.   *)
(* A send to a connection takes two steps, since the container refuses a   *)
(* second thread that sends to it meanwhile.                               *)
(*                                                                         *)
(* The client is not part of the repository.  It does what the comments of *)
(* the message classes say: its TEXT_CHANGE carries the version it knows   *)
(* and a whole text, and it applies each TEXT_SYNC it has not seen yet to  *)
(* its copy.                                                               *)
(***************************************************************************)
EXTENDS EditorSessions, TextChange, FiniteSets

CONSTANTS
    Editors,       \* those whose clients send TEXT_CHANGE
    Movers,        \* those whose clients send CURSOR_MOVE
    Contents,      \* the texts that each session's client writes
    UsesREST,      \* whether the text is also saved over REST
    MaxRows        \* bound: versions ever stored

Texts == UNION {Contents[s] : s \in Sessions}
Units == UNION {{t[i] : i \in DOMAIN t} : t \in Texts}

ASSUME SyncAssumption ==
    /\ Texts \subseteq Seq(Units)
    /\ Editors \subseteq Sessions
    /\ Movers \subseteq Sessions
    /\ UsesREST \in BOOLEAN
    /\ MaxRows \in Nat
    /\ None \notin Sessions

Row == [id : 1 .. MaxRows, version : 1 .. MaxRows, text : Texts]
NoRow == [id |-> 0, version |-> 0, text |-> <<>>]

\* A TEXT_CHANGE; typeTwice says that its JSON has the member "type" twice.
Change == [version : 0 .. MaxRows, text : Texts, typeTwice : BOOLEAN]
NoMessage == [version |-> 0, text |-> <<>>, typeTwice |-> FALSE]

VARIABLES
    rows,        \* the FileContent rows of the file
    stored,      \* how many were ever inserted
    conn,        \* each connection; the open ones are the room
    outbox,      \* the TEXT_CHANGEs each client has on the way
    inbox,       \* the TEXT_SYNCs on the way to each client
    replica,     \* each client's version and text
    pc,          \* where each connection's thread stands
    message,     \* the TEXT_CHANGE it handles
    current,     \* the row it has read as the latest
    sync,        \* the TEXT_SYNC it broadcasts, or NoSync for a cursor
    toSend,      \* the sessions its loop has yet to reach
    target,      \* the session it is sending to
    sending,     \* the thread that is sending to each session
    missed,      \* history: sessions a broadcast never reached
    saver,       \* the saveFileContent transaction: where it stands
    saveBase     \* ... and the latest row of its snapshot

storeVars  == <<rows, stored>>
clientVars == <<conn, outbox, inbox, replica>>
threadVars == <<pc, message, current, sync>>
sendVars   == <<toSend, target, sending, missed>>
restVars   == <<saver, saveBase>>
vars == <<storeVars, clientVars, threadVars, sendVars, restVars>>

TextEdit == [start : Nat, end : Nat, newText : Seq(Units)]
Sync == [version : 1 .. MaxRows, change : TextEdit]
NoSync == [version |-> 0, change |-> NoChange]
EmptyReplica == [version |-> 0, text |-> <<>>]

TypeOK ==
    /\ rows \subseteq Row /\ stored \in 0 .. MaxRows
    /\ conn \in [Sessions -> {"new", "open", "closed"}]
    /\ outbox \in [Sessions -> Seq(Change)]
    /\ inbox \in [Sessions -> Seq(Sync)]
    /\ replica \in [Sessions -> [version : 0 .. MaxRows, text : Seq(Units)]]
    /\ pc \in [Sessions -> {"idle", "save", "broadcast", "loop", "send"}]
    /\ message \in [Sessions -> Change \cup {NoMessage}]
    /\ current \in [Sessions -> Row \cup {NoRow}]
    /\ sync \in [Sessions -> Sync \cup {NoSync}]
    /\ toSend \in [Sessions -> SUBSET Sessions]
    /\ target \in [Sessions -> Sessions \cup {None}]
    /\ sending \in [Sessions -> Sessions \cup {None}]
    /\ missed \subseteq Sessions
    /\ saver \in {"idle", "insert"} /\ saveBase \in Row \cup {NoRow}

Init ==
    /\ rows = {} /\ stored = 0
    /\ conn = [s \in Sessions |-> "new"]
    /\ outbox = [s \in Sessions |-> <<>>]
    /\ inbox = [s \in Sessions |-> <<>>]
    /\ replica = [s \in Sessions |-> EmptyReplica]
    /\ pc = [s \in Sessions |-> "idle"]
    /\ message = [s \in Sessions |-> NoMessage]
    /\ current = [s \in Sessions |-> NoRow]
    /\ sync = [s \in Sessions |-> NoSync]
    /\ toSend = [s \in Sessions |-> {}]
    /\ target = [s \in Sessions |-> None]
    /\ sending = [s \in Sessions |-> None]
    /\ missed = {}
    /\ saver = "idle" /\ saveBase = NoRow

Goto(s, label) == pc' = [pc EXCEPT ![s] = label]
Open == {s \in Sessions : conn[s] = "open"}

\* What findFirstByFileIdOrderByVersionDesc may return: the database chooses
\* among the rows of the highest version.
Latest ==
    IF rows = {} THEN {NoRow}
    ELSE {r \in rows : \A q \in rows : q.version <= r.version}

\* The insert of a row, by the bound on rows.
Insert(version, text) ==
    /\ stored < MaxRows
    /\ stored' = stored + 1
    /\ rows' = rows \cup {[id |-> stored + 1, version |-> version, text |-> text]}

-----------------------------------------------------------------------------
(* The clients and their connections.                                      *)

\* A client joins the room and loads the latest version over REST; for a file
\* that was never saved there is none, and its text is empty.
Connect(s) ==
    /\ conn[s] = "new"
    /\ conn' = [conn EXCEPT ![s] = "open"]
    /\ \E r \in Latest :
          replica' = [replica EXCEPT ![s] = [version |-> r.version, text |-> r.text]]
    /\ UNCHANGED <<storeVars, outbox, inbox, threadVars, sendVars, restVars>>

\* What the connection has not delivered is lost; a thread that is handling a
\* message of it goes on.
Close(s) ==
    /\ conn[s] = "open"
    /\ conn' = [conn EXCEPT ![s] = "closed"]
    /\ outbox' = [outbox EXCEPT ![s] = <<>>]
    /\ inbox' = [inbox EXCEPT ![s] = <<>>]
    /\ replica' = [replica EXCEPT ![s] = EmptyReplica]
    /\ UNCHANGED <<storeVars, threadVars, sendVars, restVars>>

Edit(s) ==
    /\ s \in Editors
    /\ conn[s] = "open"
    /\ outbox[s] = <<>>
    /\ \E text \in Contents[s], twice \in BOOLEAN :
          outbox' = [outbox EXCEPT ![s] =
              <<[version |-> replica[s].version, text |-> text, typeTwice |-> twice]>>]
    /\ UNCHANGED <<storeVars, conn, inbox, replica, threadVars, sendVars, restVars>>

\* The client applies a TEXT_SYNC newer than its copy, and ignores others.
ApplySync(s) ==
    /\ inbox[s] # <<>>
    /\ inbox' = [inbox EXCEPT ![s] = Tail(@)]
    /\ LET m == Head(inbox[s]) IN
       replica' = [replica EXCEPT ![s] =
           IF m.version > @.version
           THEN [version |-> m.version, text |-> Apply(m.change, @.text)]
           ELSE @]
    /\ UNCHANGED <<storeVars, conn, outbox, threadVars, sendVars, restVars>>

-----------------------------------------------------------------------------
(* handleTextMessage.                                                      *)

Receive(s) ==
    /\ pc[s] = "idle"
    /\ outbox[s] # <<>>
    /\ outbox' = [outbox EXCEPT ![s] = Tail(@)]

\* Jackson takes the first "type" for itself, as the type id; without another
\* one getType() is null, the switch throws, and the message is logged.  What
\* is for another file or has no version is dropped the same way.
ReceiveUntyped(s) ==
    /\ Receive(s)
    /\ ~Head(outbox[s]).typeTwice
    /\ UNCHANGED <<storeVars, conn, inbox, replica, threadVars, sendVars, restVars>>

\* handleTextChange up to the version check: a change made for an older
\* version than the latest stored one is dropped.
ReceiveChange(s) ==
    /\ Receive(s)
    /\ Head(outbox[s]).typeTwice
    /\ \E r \in Latest :
          IF Head(outbox[s]).version < r.version
          THEN UNCHANGED <<pc, message, current>>
          ELSE /\ message' = [message EXCEPT ![s] = Head(outbox[s])]
               /\ current' = [current EXCEPT ![s] = r]
               /\ Goto(s, "save")
    /\ UNCHANGED <<storeVars, conn, inbox, replica, sync, sendVars, restVars>>

\* The difference is taken from the latest row at the time of the insert.
SaveDiffsLatest(s) ==
    /\ pc[s] = "save"
    /\ LET next == current[s].version + 1 IN
       /\ Insert(next, message[s].text)
       /\ \E r \in Latest : sync' = [sync EXCEPT ![s] =
             [version |-> next, change |-> Diff(r.text, message[s].text)]]
    /\ message' = [message EXCEPT ![s] = NoMessage]
    /\ current' = [current EXCEPT ![s] = NoRow]
    /\ Goto(s, "broadcast")
    /\ UNCHANGED <<clientVars, sendVars, restVars>>

\* The row of the next version, and the difference from the row read before.
Save(s) ==
    /\ pc[s] = "save"
    /\ LET next == current[s].version + 1 IN
       /\ Insert(next, message[s].text)
       /\ sync' = [sync EXCEPT ![s] =
             [version |-> next, change |-> Diff(current[s].text, message[s].text)]]
    /\ message' = [message EXCEPT ![s] = NoMessage]
    /\ current' = [current EXCEPT ![s] = NoRow]
    /\ Goto(s, "broadcast")
    /\ UNCHANGED <<clientVars, sendVars, restVars>>

\* The editor is left out, as with cursor moves.
BroadcastToOthers(s) ==
    /\ pc[s] = "broadcast"
    /\ IF sync[s].change = NoChange
       THEN /\ Goto(s, "idle")
            /\ sync' = [sync EXCEPT ![s] = NoSync]
            /\ UNCHANGED toSend
       ELSE /\ Goto(s, "loop")
            /\ toSend' = [toSend EXCEPT ![s] = Open \ {s}]
            /\ UNCHANGED sync
    /\ UNCHANGED <<storeVars, clientVars, message, current, target, sending,
                   missed, restVars>>

\* broadcastTextSync, unless nothing changed: to every session of the room.
Broadcast(s) ==
    /\ pc[s] = "broadcast"
    /\ IF sync[s].change = NoChange
       THEN /\ Goto(s, "idle")
            /\ sync' = [sync EXCEPT ![s] = NoSync]
            /\ UNCHANGED toSend
       ELSE /\ Goto(s, "loop")
            /\ toSend' = [toSend EXCEPT ![s] = Open]
            /\ UNCHANGED sync
    /\ UNCHANGED <<storeVars, clientVars, message, current, target, sending,
                   missed, restVars>>

\* handleCursorMove, of a CURSOR_MOVE with its type twice: to every other
\* session of the room.
ReceiveCursor(s) ==
    /\ s \in Movers
    /\ conn[s] = "open"
    /\ pc[s] = "idle"
    /\ Goto(s, "loop")
    /\ toSend' = [toSend EXCEPT ![s] = Open \ {s}]
    /\ UNCHANGED <<storeVars, clientVars, message, current, sync, target, sending,
                   missed, restVars>>

-----------------------------------------------------------------------------
(* The sending loop of both.                                               *)

BeginSend(s, t) ==
    /\ pc[s] = "loop"
    /\ t \in toSend[s]
    /\ conn[t] = "open"
    /\ sending[t] = None
    /\ sending' = [sending EXCEPT ![t] = s]
    /\ target' = [target EXCEPT ![s] = t]
    /\ toSend' = [toSend EXCEPT ![s] = @ \ {t}]
    /\ Goto(s, "send")
    /\ UNCHANGED <<storeVars, clientVars, message, current, sync, missed, restVars>>

SkipClosed(s, t) ==
    /\ pc[s] = "loop"
    /\ t \in toSend[s]
    /\ conn[t] = "closed"
    /\ toSend' = [toSend EXCEPT ![s] = @ \ {t}]
    /\ UNCHANGED <<storeVars, clientVars, threadVars, target, sending, missed, restVars>>

EndLoop(s) ==
    /\ Goto(s, "idle")
    /\ toSend' = [toSend EXCEPT ![s] = {}]
    /\ sync' = [sync EXCEPT ![s] = NoSync]

\* Another thread is sending to the session: an IllegalStateException, which
\* the loop does not catch and handleTextMessage does.
SendCollides(s, t) ==
    /\ pc[s] = "loop"
    /\ t \in toSend[s]
    /\ conn[t] = "open"
    /\ sending[t] # None
    /\ EndLoop(s)
    /\ missed' = IF sync[s] = NoSync THEN missed ELSE missed \cup toSend[s]
    /\ UNCHANGED <<storeVars, clientVars, message, current, target, sending,
                   restVars>>

\* The session was closed since isOpen(), and the container throws the same
\* exception.
SendToClosed(s) ==
    /\ pc[s] = "send"
    /\ conn[target[s]] = "closed"
    /\ sending' = [sending EXCEPT ![target[s]] = None]
    /\ target' = [target EXCEPT ![s] = None]
    /\ EndLoop(s)
    /\ missed' = IF sync[s] = NoSync THEN missed ELSE missed \cup toSend[s]
    /\ UNCHANGED <<storeVars, clientVars, message, current, restVars>>

\* The send is through; on a connection that broke under it, it failed with an
\* IOException, which the loop survives.
EndSend(s) ==
    /\ pc[s] = "send"
    /\ LET t == target[s] IN
       /\ inbox' = IF conn[t] = "open" /\ sync[s] # NoSync
                   THEN [inbox EXCEPT ![t] = Append(@, sync[s])] ELSE inbox
       /\ sending' = [sending EXCEPT ![t] = None]
    /\ target' = [target EXCEPT ![s] = None]
    /\ Goto(s, "loop")
    /\ UNCHANGED <<storeVars, conn, outbox, replica, message, current, sync, toSend,
                   missed, restVars>>

FinishLoop(s) ==
    /\ pc[s] = "loop"
    /\ toSend[s] = {}
    /\ EndLoop(s)
    /\ UNCHANGED <<storeVars, clientVars, message, current, target, sending,
                   missed, restVars>>

-----------------------------------------------------------------------------
(* saveFileContent.                                                        *)

\* The latest version, in the snapshot of the transaction ...
SaveContent ==
    /\ UsesREST
    /\ saver = "idle"
    /\ saveBase' \in Latest
    /\ saver' = "insert"
    /\ UNCHANGED <<storeVars, clientVars, threadVars, sendVars>>

\* The first version is the one after 1: the default before the increment.
CommitContentFromTwo ==
    /\ saver = "insert"
    /\ \E text \in Texts :
          Insert(IF saveBase = NoRow THEN 2 ELSE saveBase.version + 1, text)
    /\ saver' = "idle"
    /\ saveBase' = NoRow
    /\ UNCHANGED <<clientVars, threadVars, sendVars>>

\* ... and the insert, which is not broadcast.
CommitContent ==
    /\ saver = "insert"
    /\ \E text \in Texts : Insert(saveBase.version + 1, text)
    /\ saver' = "idle"
    /\ saveBase' = NoRow
    /\ UNCHANGED <<clientVars, threadVars, sendVars>>

-----------------------------------------------------------------------------
Next ==
    \/ \E s \in Sessions :
          \/ Connect(s) \/ Close(s) \/ Edit(s) \/ ApplySync(s)
          \/ ReceiveUntyped(s) \/ ReceiveChange(s) \/ Save(s) \/ Broadcast(s)
          \/ ReceiveCursor(s) \/ SendToClosed(s) \/ EndSend(s) \/ FinishLoop(s)
          \/ \E t \in Sessions : BeginSend(s, t) \/ SkipClosed(s, t) \/ SendCollides(s, t)
    \/ SaveContent \/ CommitContent

Spec == Init /\ [][Next]_vars

-----------------------------------------------------------------------------
(* What holds.                                                             *)

Versions == {r.version : r \in rows}

\* The versions of a file are 1, 2, ... without a gap, however the saves of
\* editors and of REST interleave (two rows may have the same version).
NoVersionGap == \A v \in Versions : 1 .. v \subseteq Versions

\* The TEXT_SYNCs that are on their way or being sent.
SyncsAround ==
    {sync[s] : s \in {q \in Sessions : sync[q] # NoSync}}
        \cup UNION {{inbox[s][i] : i \in DOMAIN inbox[s]} : s \in Sessions}

\* Every TEXT_SYNC tells what became of a stored version in the next one: a
\* client that has the former gets the latter by applying it.
SyncLinksVersions ==
    \A m \in SyncsAround :
        \E r \in rows, q \in rows \cup {NoRow} :
            /\ r.version = m.version
            /\ q.version = m.version - 1
            /\ Apply(m.change, q.text) = r.text

\* No message is being handled or on its way to a client.
Quiet ==
    /\ \A s \in Sessions : pc[s] = "idle" /\ inbox[s] = <<>>
    /\ saver = "idle"

\* When a lone editor's changes have been handled, every client in the room
\* has the text that is stored, but for those that a broadcast never reached
\* because it ended at a session where another thread was sending or that had
\* just been closed.  A client falls behind the stored version, from when on
\* the server drops its changes as stale, only by a change that changed
\* nothing: that one is stored and not broadcast.
TextConverges ==
    Quiet =>
        \A s \in Open \ missed : \E r \in Latest :
            /\ replica[s].text = r.text
            /\ \/ replica[s].version = r.version
               \/ \E q \in rows \cup {NoRow} : q.version = r.version - 1 /\ q.text = r.text
=============================================================================
