---------------------------- MODULE EditorRooms ----------------------------
(***************************************************************************)
(* EditorSessionManager, as EditorWebSocketHandler drives it: a session is *)
(* added to the room of its file when its connection is established and    *)
(* removed when the connection is over.                                    *)
(*                                                                         *)
(* Every map and every room is a concurrent collection, so each call on    *)
(* one of them is atomic; addSession and removeSession are several such    *)
(* calls and nothing makes them atomic together.  They run on one thread   *)
(* per connection, and the end of a connection is also reported on the     *)
(* thread whose send to it failed, so that a session's removal may begin   *)
(* before its addition is through.                                         *)
(*                                                                         *)
(* A room is an object: it is named after the session whose addition made  *)
(* it, and it may live on after fileRooms has forgotten it.                *)
(***************************************************************************)
EXTENDS EditorSessions

CONSTANT Files    \* the files that the sessions are made for

ASSUME NoneAssumption == None \notin Sessions \cup Files

VARIABLES
    fileRooms,        \* file -> room
    members,          \* what each room contains
    sessionToFileId,  \* session -> file
    sessionToUserId,  \* the sessions with a user
    connection,       \* each connection, as the container sees it
    file,             \* the file in the connection's path
    adding,           \* where addSession stands, for each session
    addRoom,          \* the room it looked up
    removing,         \* where removeSession stands, for each session
    removeFile,       \* the file it took out of sessionToFileId
    removeRoom,       \* the room it looked up
    raced             \* history: sessions whose addition met a removal from
                      \* the same file on its way

addVars    == <<adding, addRoom>>
removeVars == <<removing, removeFile, removeRoom>>
indexVars  == <<sessionToFileId, sessionToUserId>>
roomsVars == <<fileRooms, members, indexVars, connection, file, addVars, removeVars, raced>>

RoomsTypeOK ==
    /\ fileRooms \in [Files -> Sessions \cup {None}]
    /\ members \in [Sessions -> SUBSET Sessions]
    /\ sessionToFileId \in [Sessions -> Files \cup {None}]
    /\ sessionToUserId \subseteq Sessions
    /\ connection \in [Sessions -> {"none", "open", "closed"}]
    /\ file \in [Sessions -> Files \cup {None}]
    /\ adding \in [Sessions -> {"none", "lookup", "join", "putFile", "putUser", "done"}]
    /\ addRoom \in [Sessions -> Sessions \cup {None}]
    /\ removing \in [Sessions -> {"none", "takeFile", "takeUser", "lookup", "leave",
                                  "check", "drop", "done"}]
    /\ removeFile \in [Sessions -> Files \cup {None}]
    /\ removeRoom \in [Sessions -> Sessions \cup {None}]
    /\ raced \subseteq Sessions

RoomsInit ==
    /\ fileRooms = [f \in Files |-> None]
    /\ members = [r \in Sessions |-> {}]
    /\ sessionToFileId = [s \in Sessions |-> None]
    /\ sessionToUserId = {}
    /\ connection = [s \in Sessions |-> "none"]
    /\ file = [s \in Sessions |-> None]
    /\ adding = [s \in Sessions |-> "none"]
    /\ addRoom = [s \in Sessions |-> None]
    /\ removing = [s \in Sessions |-> "none"]
    /\ removeFile = [s \in Sessions |-> None]
    /\ removeRoom = [s \in Sessions |-> None]
    /\ raced = {}

Add(s, from, to) ==
    /\ adding[s] = from
    /\ adding' = [adding EXCEPT ![s] = to]

Remove(s, from, to) ==
    /\ removing[s] = from
    /\ removing' = [removing EXCEPT ![s] = to]

Adding(s)   == adding[s] \in {"lookup", "join", "putFile", "putUser"}
Removing(s) == removing[s] \in {"takeFile", "takeUser", "lookup", "leave", "check", "drop"}

\* The additions that a removal from file f meets from now on.
Meets(f) == raced' = raced \cup {s \in Sessions : file[s] = f /\ Adding(s)}

-----------------------------------------------------------------------------
(* The connections.                                                        *)

\* afterConnectionEstablished, with the file in the path and the user among
\* the session's attributes.
OpenConnection(s, f) ==
    /\ connection[s] = "none"
    /\ connection' = [connection EXCEPT ![s] = "open"]
    /\ file' = [file EXCEPT ![s] = f]
    /\ Add(s, "none", "lookup")
    /\ raced' = IF \E r \in Sessions : file[r] = f /\ Removing(r)
                THEN raced \cup {s} ELSE raced
    /\ UNCHANGED <<fileRooms, members, indexVars, addRoom, removeVars>>

\* ... and with one of them missing: BAD_DATA, without an addition.
Refuse(s) ==
    /\ connection[s] = "none"
    /\ connection' = [connection EXCEPT ![s] = "closed"]
    /\ Remove(s, "none", "takeFile")
    /\ UNCHANGED <<fileRooms, members, indexVars, file, addVars, removeFile,
                   removeRoom, raced>>

\* The end of a connection, by the client or by a failed send.
CloseConnection(s) ==
    /\ connection[s] = "open"
    /\ connection' = [connection EXCEPT ![s] = "closed"]
    /\ Remove(s, "none", "takeFile")
    /\ Meets(file[s])
    /\ UNCHANGED <<fileRooms, members, indexVars, file, addVars, removeFile, removeRoom>>

-----------------------------------------------------------------------------
(* addSession.                                                             *)

\* computeIfAbsent replaced by a look at the map: every addition makes a room.
LookupRoomAlwaysNew(s) ==
    /\ Add(s, "lookup", "join")
    /\ addRoom' = [addRoom EXCEPT ![s] = s]
    /\ fileRooms' = [fileRooms EXCEPT ![file[s]] = s]
    /\ UNCHANGED <<members, indexVars, connection, file, removeVars, raced>>

\* fileRooms.computeIfAbsent
LookupRoom(s) ==
    /\ Add(s, "lookup", "join")
    /\ LET room == IF fileRooms[file[s]] = None THEN s ELSE fileRooms[file[s]] IN
       /\ addRoom' = [addRoom EXCEPT ![s] = room]
       /\ fileRooms' = [fileRooms EXCEPT ![file[s]] = room]
    /\ UNCHANGED <<members, indexVars, connection, file, removeVars, raced>>

JoinRoom(s) ==
    /\ Add(s, "join", "putFile")
    /\ members' = [members EXCEPT ![addRoom[s]] = @ \cup {s}]
    /\ UNCHANGED <<fileRooms, indexVars, connection, file, addRoom, removeVars, raced>>

PutFile(s) ==
    /\ Add(s, "putFile", "putUser")
    /\ sessionToFileId' = [sessionToFileId EXCEPT ![s] = file[s]]
    /\ UNCHANGED <<fileRooms, members, sessionToUserId, connection, file, addRoom,
                   removeVars, raced>>

PutUser(s) ==
    /\ Add(s, "putUser", "done")
    /\ sessionToUserId' = sessionToUserId \cup {s}
    /\ UNCHANGED <<fileRooms, members, sessionToFileId, connection, file, addRoom,
                   removeVars, raced>>

-----------------------------------------------------------------------------
(* removeSession.                                                          *)

TakeFile(s) ==
    /\ Remove(s, "takeFile", "takeUser")
    /\ removeFile' = [removeFile EXCEPT ![s] = sessionToFileId[s]]
    /\ sessionToFileId' = [sessionToFileId EXCEPT ![s] = None]
    /\ UNCHANGED <<fileRooms, members, sessionToUserId, connection, file, addVars,
                   removeRoom, raced>>

TakeUser(s) ==
    /\ Remove(s, "takeUser", IF removeFile[s] = None THEN "done" ELSE "lookup")
    /\ sessionToUserId' = sessionToUserId \ {s}
    /\ UNCHANGED <<fileRooms, members, sessionToFileId, connection, file, addVars,
                   removeFile, removeRoom, raced>>

FindRoom(s) ==
    /\ Remove(s, "lookup", IF fileRooms[removeFile[s]] = None THEN "done" ELSE "leave")
    /\ removeRoom' = [removeRoom EXCEPT ![s] = fileRooms[removeFile[s]]]
    /\ UNCHANGED <<fileRooms, members, indexVars, connection, file, addVars,
                   removeFile, raced>>

\* The session stays in its room.
LeaveRoomKeeps(s) ==
    /\ Remove(s, "leave", "check")
    /\ UNCHANGED <<fileRooms, members, indexVars, connection, file, addVars,
                   removeFile, removeRoom, raced>>

LeaveRoom(s) ==
    /\ Remove(s, "leave", "check")
    /\ members' = [members EXCEPT ![removeRoom[s]] = @ \ {s}]
    /\ UNCHANGED <<fileRooms, indexVars, connection, file, addVars, removeFile,
                   removeRoom, raced>>

\* The room is kept whatever is left in it.
CheckRoomNever(s) ==
    /\ Remove(s, "check", "done")
    /\ UNCHANGED <<fileRooms, members, indexVars, connection, file, addVars,
                   removeFile, removeRoom, raced>>

CheckRoom(s) ==
    /\ Remove(s, "check", IF members[removeRoom[s]] = {} THEN "drop" ELSE "done")
    /\ UNCHANGED <<fileRooms, members, indexVars, connection, file, addVars,
                   removeFile, removeRoom, raced>>

DropRoom(s) ==
    /\ Remove(s, "drop", "done")
    /\ fileRooms' = [fileRooms EXCEPT ![removeFile[s]] = None]
    /\ UNCHANGED <<members, indexVars, connection, file, addVars, removeFile,
                   removeRoom, raced>>

-----------------------------------------------------------------------------
RoomsNext ==
    \E s \in Sessions :
        \/ \E f \in Files : OpenConnection(s, f)
        \/ Refuse(s) \/ CloseConnection(s)
        \/ LookupRoom(s) \/ JoinRoom(s) \/ PutFile(s) \/ PutUser(s)
        \/ TakeFile(s) \/ TakeUser(s) \/ FindRoom(s) \/ LeaveRoom(s)
        \/ CheckRoom(s) \/ DropRoom(s)

RoomsSpec == RoomsInit /\ [][RoomsNext]_roomsVars

-----------------------------------------------------------------------------
(* What holds.                                                             *)

\* getSessionsByFileId
SessionsOf(f) == IF fileRooms[f] = None THEN {} ELSE members[fileRooms[f]]

\* A session that is through with addSession and whose connection is not over.
Registered(s) == adding[s] = "done" /\ removing[s] = "none"

\* A broadcast about a file goes to no session of another file.
NoCrossRoom == \A f \in Files : \A s \in SessionsOf(f) : file[s] = f

\* A registered session is in the room that a broadcast about its file looks
\* up, unless a removal from the same file was under way during its addition,
\* whether or not that removal found the room empty.
ReachableUnlessRaced ==
    \A s \in Sessions \ raced : Registered(s) => s \in SessionsOf(file[s])

\* A session whose removal is through is not in the room that its file has,
\* which is the one a broadcast looks up, unless its connection ended before
\* addSession had recorded its file.
GoneUnlessCutShort ==
    \A s \in Sessions : removing[s] = "done" /\ file[s] # None /\ removeFile[s] # None
        => s \notin SessionsOf(file[s])

\* When every connection is over and every operation through, no room is left
\* in fileRooms, except around a session whose connection ended before
\* addSession had recorded its file.
RoomsCollected ==
    (\A s \in Sessions : connection[s] = "closed" /\ ~Adding(s) /\ ~Removing(s))
        => \A f \in Files : fileRooms[f] # None =>
               \E s \in SessionsOf(f) : removeFile[s] = None
=============================================================================
