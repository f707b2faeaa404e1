------------------------------ MODULE Workspace -----------------------------
(***************************************************************************)
(* Projects, members, files and folders, and the rows of content, changed  *)
(* by requests that run side by side.  A request is one transaction: at    *)
(* its first query it gets a snapshot that all its checks look at          *)
(* (Prepare), and later its writes are applied to what is stored by then   *)
(* (Commit).  No row has a version and no column but the id and the invite *)
(* code is unique.  An update writes every column of its row, as it was in *)
(* the snapshot but for the change; an update or a deletion of a row that  *)
(* is gone rolls the request back.                                         *)
(***************************************************************************)
EXTENDS Integers, FiniteSets

CONSTANTS
    Requests,      \* requests that may run at a time
    Users, Names, Codes,
    MaxProjects, MaxFiles, MaxMembers, MaxContents,   \* bounds: rows
    MaxRaces       \* bound: no request begins after so many unsafe overlaps

None == 0

ASSUME CodesAssumption == None \notin Codes

ASSUME BoundsAssumption ==
    /\ MaxProjects \in Nat /\ MaxFiles \in Nat
    /\ MaxMembers \in Nat /\ MaxContents \in Nat /\ MaxRaces \in Nat
Projects == 1 .. MaxProjects
Files == 1 .. MaxFiles
Members == 1 .. MaxMembers
Contents == 1 .. MaxContents

\* A row is there or not; the row of a file that was deleted stays, marked so,
\* and nothing reads its name, folder and type again.  A file whose row is gone
\* still has the project it was of, which the history asks for.
\* The ids of projects and files are never used again.  That of a membership
\* or a content may be, once no request knows it, which nothing can tell from
\* a new one.
Unused == [row |-> "unused"]
Gone == [row |-> "gone"]
GoneFrom(p) == [row |-> "gone", project |-> p]

VARIABLES
    projects,      \* [row, code] by id
    members,       \* [row, project, user]
    files,         \* [row, project, parent, name, type, deleted]
    contents,      \* [row, file]
    request,       \* what each request is about to write, or Idle
    races          \* history: <<what, p>>: requests that wrote to project p
                   \* overlapped in a way that what does not survive

tables == <<projects, members, files, contents>>
vars == <<tables, request, races>>

There(table) == {i \in DOMAIN table : table[i].row = "there"}
Free(table, known) == {i \in DOMAIN table : table[i].row = "unused"} \ known
First(ids) == {i \in ids : \A j \in ids : i <= j}

Idle == [kind |-> "idle"]
Busy == {r \in Requests : request[r] # Idle}
Live == {f \in There(files) : ~files[f].deleted}
IsMember(p, u) == \E m \in There(members) : members[m].project = p /\ members[m].user = u
ContentOf(f) == {k \in There(contents) : contents[k].file = f}

Kinds == {"create", "rename", "delete", "save", "type",
          "found", "destroy", "enrol", "remove"}

\* <<k1, k2>> for what: a request of kind k1 wrote while one of kind k2 had
\* begun, which wrote in its turn.  Such a request is not safe from the other.
Both(kinds1, kinds2) == (kinds1 \X kinds2) \cup (kinds2 \X kinds1)
Unsafe ==
    [tree |-> Both({"create", "rename"}, {"delete", "destroy"}),
     names |-> Both({"create", "rename"}, {"create", "rename"}),
     members |-> Both({"enrol"}, {"enrol", "destroy"}),
     contents |-> Both({"save", "type"}, {"delete", "destroy"}),
     deleted |-> {<<"delete", "rename">>}]

\* What a request writes: at most one new row of a kind, new versions of rows
\* of files, and rows that go.
NoWrites == [code |-> None, enrols |-> {}, file |-> Unused, content |-> None,
             puts |-> <<>>, dropFiles |-> {}, dropContents |-> {},
             dropMembers |-> {}, dropProjects |-> {}]

FileRows ==
    [row : {"there"}, project : Projects, parent : 0 .. MaxFiles, name : Names,
     type : {"FILE", "FOLDER"}, deleted : {FALSE}]
    \cup [row : {"there"}, project : Projects, deleted : {TRUE}]

GoneFiles == [row : {"gone"}, project : Projects]

Deleted(f) == [row |-> "there", project |-> files[f].project, deleted |-> TRUE]

TypeOK ==
    /\ \A p \in Projects : projects[p] \in {Unused, Gone} \cup [row : {"there"}, code : Codes]
    /\ \A m \in Members : members[m] \in
          {Unused} \cup [row : {"there"}, project : Projects, user : Users]
    /\ \A f \in Files : files[f] \in {Unused} \cup GoneFiles \cup FileRows
    /\ \A k \in Contents : contents[k] \in {Unused} \cup [row : {"there"}, file : Files]
    /\ \A r \in Requests : request[r].kind \in Kinds \cup {"idle"}
    /\ races \subseteq (DOMAIN Unsafe) \X Projects

Init ==
    /\ projects = [p \in Projects |-> Unused]
    /\ members = [m \in Members |-> Unused]
    /\ files = [f \in Files |-> Unused]
    /\ contents = [k \in Contents |-> Unused]
    /\ request = [r \in Requests |-> Idle]
    /\ races = {}

-----------------------------------------------------------------------------
(* The services, up to their writes: what they check and plan.             *)

\* The ids that requests know of a row they are about to delete.
KnownMembers == UNION {request[r].writes.dropMembers : r \in Busy}
KnownContents == UNION {request[r].writes.dropContents : r \in Busy}

\* The bounds leave room for the rows that w inserts.
RoomFor(w) ==
    /\ w.file # Unused => Free(files, {}) # {}
    /\ w.enrols # {} => Free(members, KnownMembers) # {}
    /\ w.content # None => Free(contents, KnownContents) # {}

MayBegin(r) == request[r] = Idle /\ Cardinality(races) < MaxRaces

\* Request r has a snapshot in which its checks hold.
Prepare(r, kind, p, writes) ==
    /\ MayBegin(r) /\ RoomFor(writes)
    /\ request' = [request EXCEPT ![r] =
            [kind |-> kind, project |-> p, writes |-> writes, met |-> {}]]
    /\ UNCHANGED <<tables, races>>

\* A query that compares the parent with null and finds nothing at the top.
NameTakenBelow(p, parent, name, except) ==
    \E g \in Live \ except : /\ files[g].project = p /\ files[g].parent = parent
                             /\ files[g].name = name /\ parent # None

\* Another live file with that name in the folder.
NameTaken(p, parent, name, except) ==
    \E g \in Live \ except : /\ files[g].project = p /\ files[g].parent = parent
                             /\ files[g].name = name

CreateFile(r, u, p, parent, name, type) ==
    /\ IsMember(p, u) /\ p \in There(projects)
    /\ parent # None => /\ parent \in Live
                        /\ files[parent].project = p
                        /\ files[parent].type = "FOLDER"
    /\ ~NameTaken(p, parent, name, {})
    /\ Prepare(r, "create", p, [NoWrites EXCEPT !.file =
          [row |-> "there", project |-> p, parent |-> parent, name |-> name,
           type |-> type, deleted |-> FALSE]])

\* A renaming that does not ask whether the file was deleted.
UpdateAnyFileName(r, u, f, name) ==
    /\ f \in There(files)
    /\ IsMember(files[f].project, u)
    /\ Prepare(r, "rename", files[f].project,
          [NoWrites EXCEPT !.puts = [g \in {f} |->
              [row |-> "there", project |-> files[f].project, parent |-> None,
               name |-> name, type |-> "FILE", deleted |-> FALSE]]])

UpdateFileName(r, u, f, name) ==
    /\ f \in Live
    /\ IsMember(files[f].project, u)
    /\ ~NameTaken(files[f].project, files[f].parent, name, {f})
    /\ Prepare(r, "rename", files[f].project,
          [NoWrites EXCEPT !.puts = [g \in {f} |-> [files[f] EXCEPT !.name = name]]])

\* A deletion of a folder that goes one level down only.
SubtreeOneLevel(f) == {f} \cup {g \in Live : files[g].parent = f}

\* The file and all that is below it: the children of each file that is found
\* are found as well, and nothing else is.
Subtree(f) ==
    LET HasChildren(S) == \A g \in Live : files[g].parent \in S => g \in S
    IN  {g \in Live : \A S \in SUBSET Live : f \in S /\ HasChildren(S) => g \in S}

\* A deletion that leaves the contents of the files in a folder.
DeleteFileOnly(r, u, f) ==
    /\ f \in Live
    /\ IsMember(files[f].project, u)
    /\ Prepare(r, "delete", files[f].project,
          [NoWrites EXCEPT
              !.puts = [g \in Subtree(f) |-> Deleted(g)],
              !.dropContents = ContentOf(f)])

DeleteFile(r, u, f) ==
    /\ f \in Live
    /\ IsMember(files[f].project, u)
    /\ Prepare(r, "delete", files[f].project,
          [NoWrites EXCEPT
              !.puts = [g \in Subtree(f) |-> Deleted(g)],
              !.dropContents = UNION {ContentOf(g) : g \in Subtree(f)}])

SaveFileContent(r, u, f) ==
    /\ f \in Live /\ files[f].type = "FILE"
    /\ IsMember(files[f].project, u)
    /\ Prepare(r, "save", files[f].project, [NoWrites EXCEPT !.content = f])

\* The invite code is one the snapshot does not have; the project, its first
\* member and its root folder get their ids when they are inserted.
CreateProject(r, u, code, name) ==
    /\ \A p \in There(projects) : projects[p].code # code
    /\ \E p \in First(Free(projects, {})) :
          Prepare(r, "found", p,
             [NoWrites EXCEPT !.code = code, !.enrols = {u},
                 !.file = [row |-> "there", project |-> p, parent |-> None, name |-> name,
                           type |-> "FOLDER", deleted |-> FALSE]])

\* The rows of files that were deleted before stay.
DeleteProject(r, u, p) ==
    /\ IsMember(p, u) /\ p \in There(projects)
    /\ LET own == {f \in Live : files[f].project = p}
       IN  Prepare(r, "destroy", p,
              [NoWrites EXCEPT
                  !.dropContents = UNION {ContentOf(f) : f \in own},
                  !.dropFiles = own,
                  !.dropMembers = {m \in There(members) : members[m].project = p},
                  !.dropProjects = {p}])

\* An addMember that adds a member again.
AddAnyMember(r, p, u) ==
    /\ p \in There(projects)
    /\ Prepare(r, "enrol", p, [NoWrites EXCEPT !.enrols = {u}])

AddMember(r, p, u) ==
    /\ p \in There(projects)
    /\ ~IsMember(p, u)
    /\ Prepare(r, "enrol", p, [NoWrites EXCEPT !.enrols = {u}])

JoinByInviteCode(r, code, u) ==
    \E p \in There(projects) :
        /\ projects[p].code = code
        /\ ~IsMember(p, u)
        /\ Prepare(r, "enrol", p, [NoWrites EXCEPT !.enrols = {u}])

\* The query for the membership fails if there are two.
RemoveMember(r, p, u) ==
    LET rows == {m \in There(members) : members[m].project = p /\ members[m].user = u}
    IN  /\ Cardinality(rows) = 1
        /\ Prepare(r, "remove", p, [NoWrites EXCEPT !.dropMembers = rows])

-----------------------------------------------------------------------------
(* The database.                                                           *)

\* All rows to be written over or deleted are there, and the code is new.
Applies(w) ==
    /\ DOMAIN w.puts \cup w.dropFiles \subseteq There(files)
    /\ w.dropContents \subseteq There(contents)
    /\ w.dropMembers \subseteq There(members)
    /\ w.dropProjects \subseteq There(projects)
    /\ \A p \in There(projects) : projects[p].code # w.code

\* A table in which the rows of put are replaced.
Put(table, put) == [i \in DOMAIN table |-> IF i \in DOMAIN put THEN put[i] ELSE table[i]]

\* One of ids is put to new, if wanted; none if not.
New(wanted, ids, new) == IF wanted THEN [i \in First(ids) |-> new] ELSE <<>>

\* The request has written; the others that have begun have met it.
Written(kind, p, met, others) ==
    /\ races' = races \cup {<<what, p>> : what \in
                  {x \in DOMAIN Unsafe : \E k \in met : <<k, kind>> \in Unsafe[x]}}
    /\ request' = [r \in Requests |->
            IF request[r] = Idle \/ r \notin others THEN Idle
            ELSE IF request[r].project = p
                    /\ \E x \in DOMAIN Unsafe : <<kind, request[r].kind>> \in Unsafe[x]
                 THEN [request[r] EXCEPT !.met = @ \cup {kind}]
                 ELSE request[r]]

Commit(r) ==
    /\ r \in Busy
    /\ LET q == request[r]
           w == q.writes
           freeProjects == Free(projects, {})
           freeFiles == Free(files, {})
           freeMembers == Free(members, KnownMembers)
           freeContents == Free(contents, KnownContents)
       IN  /\ Applies(w)
           /\ w.code # None => q.project \in First(freeProjects)
           /\ RoomFor(w)
           /\ projects' = Put(Put(projects, [p \in w.dropProjects |-> Gone]),
                 New(w.code # None, freeProjects, [row |-> "there", code |-> w.code]))
           /\ members' = Put(Put(members, [m \in w.dropMembers |-> Unused]),
                 New(w.enrols # {}, freeMembers,
                     [row |-> "there", project |-> q.project,
                      user |-> CHOOSE u \in w.enrols : TRUE]))
           /\ files' = Put(Put(Put(files, [f \in w.dropFiles |-> GoneFrom(q.project)]), w.puts),
                 New(w.file # Unused, freeFiles, w.file))
           /\ contents' = Put(Put(contents, [k \in w.dropContents |-> Unused]),
                 New(w.content # None, freeContents, [row |-> "there", file |-> w.content]))
           /\ Written(q.kind, q.project, q.met, Requests \ {r})

\* A write that cannot be applied, a deadlock, or a lost connection.
RollBack(r) ==
    /\ r \in Busy
    /\ request' = [request EXCEPT ![r] = Idle]
    /\ UNCHANGED <<tables, races>>

\* A TEXT_CHANGE of an editor that opened f: a row of content.  Nothing asks
\* whether f is a file, was deleted, is gone, or was ever there.
TextChange(f) ==
    /\ Free(contents, KnownContents) # {} /\ Cardinality(races) < MaxRaces
    /\ contents' = Put(contents, New(TRUE, Free(contents, KnownContents),
                                     [row |-> "there", file |-> f]))
    /\ \/ files[f] = Unused /\ UNCHANGED <<request, races>>
       \/ /\ files[f] # Unused
          /\ Written("type", files[f].project, IF f \in Live THEN {} ELSE {"delete"},
                     Requests)
    /\ UNCHANGED <<projects, members, files>>

\* MayBegin, which Prepare has as well, is asked before any check of a service.
Begin(r) ==
    /\ MayBegin(r)
    /\ \E u \in Users :
          \/ \E p \in Projects, parent \in 0 .. MaxFiles, name \in Names,
                type \in {"FILE", "FOLDER"} : CreateFile(r, u, p, parent, name, type)
          \/ \E f \in Files, name \in Names : UpdateFileName(r, u, f, name)
          \/ \E f \in Files : DeleteFile(r, u, f) \/ SaveFileContent(r, u, f)
          \/ \E code \in Codes, name \in Names : CreateProject(r, u, code, name)
          \/ \E code \in Codes : JoinByInviteCode(r, code, u)
          \/ \E p \in Projects :
                DeleteProject(r, u, p) \/ AddMember(r, p, u) \/ RemoveMember(r, p, u)

Next ==
    \/ \E r \in Requests : Begin(r) \/ Commit(r) \/ RollBack(r)
    \/ \E f \in Files : TextChange(f)

Spec == Init /\ [][Next]_vars

-----------------------------------------------------------------------------
(* What holds, and which requests must not have overlapped for it to hold. *)

\* A live file is in a live folder of its project, and its project is there:
\* the tree that is shown has it.  A deletion keeps that, however deep the
\* folder is, unless files were created, or renamed back to life, meanwhile.
TreeIsWhole ==
    \A f \in Live :
        \/ /\ files[f].project \in There(projects)
           /\ files[f].parent # None =>
                 /\ files[f].parent \in Live
                 /\ files[files[f].parent].type = "FOLDER"
                 /\ files[files[f].parent].project = files[f].project
        \/ <<"tree", files[f].project>> \in races

\* No two live files of a folder have one name, unless they were created or
\* renamed side by side.
NamesDiffer ==
    \A f, g \in Live :
        \/ f = g
        \/ <<files[f].project, files[f].parent, files[f].name>>
              # <<files[g].project, files[g].parent, files[g].name>>
        \/ <<"names", files[f].project>> \in races

\* A user is a member of a project once, so that the query that wants one
\* row works, and of projects that are there; unless he was added twice, or
\* to a project on its way out.
MemberOnce ==
    \A m \in There(members) :
        \/ /\ members[m].project \in There(projects)
           /\ \A n \in There(members) : members[n] = members[m] => n = m
        \/ <<"members", members[m].project>> \in races

\* Of the files that ever were, only live ones have content, unless a save or
\* a change of an editor met the deletion of a file of that project, or a
\* change came after it.
ContentIsOfLive ==
    \A k \in There(contents) :
        LET f == contents[k].file
        IN  \/ f \in Live
            \/ files[f] = Unused
            \/ <<"contents", files[f].project>> \in races

\* A file that was deleted does not come back, unless it was being renamed.
DeletedStays ==
    [][\A f \in Files :
          f \in There(files) /\ files[f].deleted /\ f \in There(files)' =>
              \/ files'[f].deleted
              \/ <<"deleted", files[f].project>> \in races']_vars
=============================================================================
