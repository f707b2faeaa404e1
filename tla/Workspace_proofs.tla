-------------------------- MODULE Workspace_proofs --------------------------
(***************************************************************************)
(* The tables of the workspace, for any number of requests, users, rows:   *)
(* the tree stays whole, names differ, members are in once, contents are   *)
(* of live files and deleted files stay deleted, unless requests that are  *)
(* not safe from each other overlapped.                                    *)
(*                                                                         *)
(* None of it is inductive: a commit writes what a request planned from    *)
(* the snapshot it began with.  The invariant says of every pending        *)
(* request that what its checks found (PlanOf) holds of what is stored     *)
(* now, unless the request has met one it is not safe from; a commit of    *)
(* such a request writes the overlap to the history.  It needs that rows   *)
(* and plans refer to ids that were given out (Refs, PlanRefs), so that a  *)
(* new row never comes to be below an old one.                             *)
(*                                                                         *)
(* A commit of each kind is one of four changes: a live row is put         *)
(* (PutsLive), rows of files go (TakesAway), a content is stored           *)
(* (StoresContent), members change (ChangesMembers).  Each has a lemma on  *)
(* what it does to the plans of the others; then come the kinds, and last  *)
(* the requests that begin.                                                *)
(***************************************************************************)
EXTENDS Workspace, FiniteSetTheorems, TLAPS

\* An id of a project, of a file, that was given out: its row may be gone.
Used(p) == p \in Projects /\ projects[p] # Unused
UsedFile(f) == f \in Files /\ files[f] # Unused

\* The rows of files that are not marked as deleted.
LiveRows == {row \in FileRows : ~row.deleted}

\* What a request writes besides what its kind is for is nothing.
OnlyWrites(w, what) ==
    /\ "code" \notin what => w.code = None
    /\ "enrols" \notin what => w.enrols = {}
    /\ "file" \notin what => w.file = Unused
    /\ "content" \notin what => w.content = None
    /\ "puts" \notin what => DOMAIN w.puts = {}
    /\ "dropFiles" \notin what => w.dropFiles = {}
    /\ "dropContents" \notin what => w.dropContents = {}
    /\ "dropMembers" \notin what => w.dropMembers = {}
    /\ "dropProjects" \notin what => w.dropProjects = {}

\* What a pending request plans, by its kind: which writes it has and of what.
Shaped(q) ==
    LET w == q.writes
        p == q.project
    IN  /\ q.kind \in Kinds \ {"type"} /\ p \in Projects /\ q.met \subseteq Kinds
        /\ q = [kind |-> q.kind, project |-> p, writes |-> w, met |-> q.met]
        /\ q.kind = "create" => OnlyWrites(w, {"file"}) /\ w.file \in LiveRows /\ w.file.project = p
        /\ q.kind = "rename" =>
              /\ OnlyWrites(w, {"puts"})
              /\ \E f \in Files : DOMAIN w.puts = {f} /\ w.puts[f] \in LiveRows
                                  /\ w.puts[f].project = p
        /\ q.kind = "delete" =>
              /\ OnlyWrites(w, {"puts", "dropContents"})
              /\ DOMAIN w.puts \subseteq Files
              /\ \A f \in DOMAIN w.puts :
                    w.puts[f] = [row |-> "there", project |-> p, deleted |-> TRUE]
        /\ q.kind = "save" => OnlyWrites(w, {"content"}) /\ w.content \in Files
        /\ q.kind = "found" =>
              /\ OnlyWrites(w, {"code", "enrols", "file"})
              /\ w.code \in Codes /\ (\E u \in Users : w.enrols = {u})
              /\ w.file \in LiveRows /\ w.file.project = p /\ w.file.parent = None
        /\ q.kind = "destroy" =>
              /\ OnlyWrites(w, {"dropFiles", "dropContents", "dropMembers", "dropProjects"})
              /\ w.dropProjects = {p} /\ w.dropFiles \subseteq Files
        /\ q.kind = "enrol" => OnlyWrites(w, {"enrols"}) /\ (\E u \in Users : w.enrols = {u})
        /\ q.kind = "remove" => OnlyWrites(w, {"dropMembers"})

\* The rows of the other tables.
MemberRows == [row : {"there"}, project : Projects, user : Users]
ContentRows == [row : {"there"}, file : Files]
ProjectRows == [row : {"there"}, code : Codes]

\* The requests that have begun, as values.
Pending == {request[r] : r \in Busy}

\* The types, with the plans that requests hold.
Shape ==
    /\ projects \in [Projects -> {Unused, Gone} \cup ProjectRows]
    /\ members \in [Members -> {Unused} \cup MemberRows]
    /\ files \in [Files -> {Unused} \cup GoneFiles \cup FileRows]
    /\ contents \in [Contents -> {Unused} \cup ContentRows]
    /\ request = [r \in Requests |-> request[r]]
    /\ \A q \in Pending : Shaped(q)
    /\ races \subseteq (DOMAIN Unsafe) \X Projects

\* Rows refer to projects and files that were given out, a live file to a
\* folder that is of its project, if it is there at all.
Refs ==
    /\ \A f \in There(files) : Used(files[f].project)
    /\ \A m \in There(members) : Used(members[m].project)
    /\ \A f \in Live : files[f].parent # None =>
          /\ UsedFile(files[f].parent)
          /\ files[f].parent \in There(files) => files[files[f].parent].project = files[f].project

\* Files that a row, a plan name.
Points(parent, p) ==
    parent # None => /\ UsedFile(parent)
                     /\ parent \in There(files) => files[parent].project = p

\* A file of p, which may be gone.
Own(f, p) == UsedFile(f) /\ files[f].project = p

\* A plan, too, names only what was given out.
RefsOf(q) ==
    LET w == q.writes
        p == q.project
    IN  /\ q.kind # "found" => Used(p)
        /\ q.kind = "create" => Points(w.file.parent, p)
        /\ q.kind = "rename" => \A f \in DOMAIN w.puts : Own(f, p) /\ Points(w.puts[f].parent, p)
        /\ q.kind = "delete" => \A f \in DOMAIN w.puts : Own(f, p)
        /\ q.kind = "save" => Own(w.content, p)
        /\ q.kind = "destroy" => \A f \in w.dropFiles : Own(f, p)
PlanRefs == \A q \in Pending : RefsOf(q)

\* File f is where the row will be, under the same name.
Same(f, row) == /\ files[f].project = row.project /\ files[f].parent = row.parent
                /\ files[f].name = row.name

\* Another request of one of these kinds has written since q began.
Met(q, kinds) == q.met \cap kinds # {}

\* The row's project and folder are there, and the folder is one.
Fits(row) == /\ row.project \in There(projects)
             /\ row.parent # None =>
                 /\ row.parent \in Live
                 /\ files[row.parent].type = "FOLDER"
                 /\ files[row.parent].project = row.project

\* What the checks of a creation found holds still: its folder is there, and
\* its name free; unless a request it is not safe from has written since.
CreateHolds(q) ==
    LET row == q.writes.file
    IN  /\ Met(q, {"delete", "destroy"}) \/ <<"tree", q.project>> \in races \/ Fits(row)
        /\ Met(q, {"create", "rename"}) \/ \A g \in Live : ~Same(g, row)

\* A renaming plans the row it found, under another name that is free.
RenameHolds(q) ==
    \A f \in DOMAIN q.writes.puts :
        LET row == q.writes.puts[f]
        IN  /\ \/ Met(q, {"delete", "destroy"}) \/ <<"tree", q.project>> \in races
               \/ f \in Live /\ row = [files[f] EXCEPT !.name = row.name]
            /\ Met(q, {"delete"}) \/ f \notin There(files) \/ f \in Live
            /\ Met(q, {"create", "rename"}) \/ \A g \in Live \ {f} : ~Same(g, row)

\* A deletion has every child of what it marks and every content of it.
DeleteHolds(q) ==
    LET doomed == DOMAIN q.writes.puts
    IN  doomed \subseteq There(files) =>
            /\ Met(q, {"create", "rename"}) \/ \A g \in Live : files[g].parent \in doomed => g \in doomed
            /\ \/ Met(q, {"save", "type"})
               \/ \A k \in There(contents) :
                     contents[k].file \in doomed => k \in q.writes.dropContents

\* The deletion of a project has every live file, member and content of it.
DestroyHolds(q) ==
    LET w == q.writes
    IN  /\ Met(q, {"create", "rename"}) \/ \A g \in Live : files[g].project = q.project => g \in w.dropFiles
        /\ \/ Met(q, {"enrol"})
           \/ \A m \in There(members) : members[m].project = q.project => m \in w.dropMembers
        /\ w.dropFiles \subseteq There(files) =>
              \/ Met(q, {"save", "type"})
              \/ \A k \in There(contents) :
                    contents[k].file \in w.dropFiles => k \in w.dropContents

\* The file of a save is live.
SaveHolds(q) == Met(q, {"delete", "destroy"}) \/ q.writes.content \in Live

\* The project of a new member is there, and he is not in it.
EnrolHolds(q) == Met(q, {"enrol", "destroy"}) \/ /\ q.project \in There(projects)
                                                  /\ \A u \in q.writes.enrols : ~IsMember(q.project, u)

\* What a plan relies on holds until a request it is not safe from writes.
PlanOf(q) ==
    /\ q.kind = "create" => CreateHolds(q)
    /\ q.kind = "rename" => RenameHolds(q)
    /\ q.kind = "delete" => DeleteHolds(q)
    /\ q.kind = "destroy" => DestroyHolds(q)
    /\ q.kind = "save" => SaveHolds(q)
    /\ q.kind = "enrol" => EnrolHolds(q)
Plans == \A q \in Pending : PlanOf(q)

\* The inductive invariant.
IInv == Shape /\ Refs /\ PlanRefs /\ Plans /\ TreeIsWhole /\ NamesDiffer /\ MemberOnce /\ ContentIsOfLive

\* The pairs of kinds that are not safe from each other, listed.
LEMMA UnsafeIs ==
    /\ DOMAIN Unsafe = {"tree", "names", "members", "contents", "deleted"}
    /\ \A k1 \in {"create", "rename"}, k2 \in {"delete", "destroy"} :
          <<k1, k2>> \in Unsafe["tree"] /\ <<k2, k1>> \in Unsafe["tree"]
    /\ \A k1, k2 \in {"create", "rename"} : <<k1, k2>> \in Unsafe["names"]
    /\ \A k \in {"enrol", "destroy"} :
          <<k, "enrol">> \in Unsafe["members"] /\ <<"enrol", k>> \in Unsafe["members"]
    /\ \A k1 \in {"save", "type"}, k2 \in {"delete", "destroy"} :
          <<k1, k2>> \in Unsafe["contents"] /\ <<k2, k1>> \in Unsafe["contents"]
    /\ <<"delete", "rename">> \in Unsafe["deleted"]
  BY DEF Unsafe, Both

\* A request of kind other takes note when one of this kind writes.
Meets(kind, other) == \E x \in DOMAIN Unsafe : <<kind, other>> \in Unsafe[x]

\* The pairs of which the one takes note of the other.
LEMMA MeetsIs ==
    /\ \A k1 \in {"create", "rename"}, k2 \in {"create", "rename", "delete", "destroy"} : Meets(k1, k2)
    /\ \A k1 \in {"delete", "destroy"}, k2 \in {"create", "rename", "save"} : Meets(k1, k2)
    /\ \A k1 \in {"save", "type"}, k2 \in {"delete", "destroy"} : Meets(k1, k2)
    /\ \A k \in {"enrol", "destroy"} : Meets("enrol", k) /\ Meets(k, "enrol")
  BY UnsafeIs DEF Meets

\* A busy request has one of the kinds.
LEMMA BusyIs == ASSUME Shape, NEW r \in Busy
                PROVE  r \in Requests /\ request[r].kind \in Kinds
  BY DEF Shape, Busy, Shaped, Pending

\* A plan keeps its shape when the request takes note of another.
LEMMA ShapedOn ==
    ASSUME NEW q, Shaped(q), NEW kind \in Kinds
    PROVE  Shaped([q EXCEPT !.met = @ \cup {kind}])
  <1>1. q.met \cup {kind} \subseteq Kinds
    BY DEF Shaped
  <1>2. [q EXCEPT !.met = @ \cup {kind}]
           = [kind |-> q.kind, project |-> q.project, writes |-> q.writes,
              met |-> q.met \cup {kind}]
    BY DEF Shaped
  <1> QED
    BY <1>1, <1>2 DEF Shaped

\* What becomes of the other requests, when one has written.
LEMMA WrittenIs ==
    ASSUME Shape, NEW kind \in Kinds, NEW p \in Projects, NEW met \in SUBSET Kinds,
           NEW others \in SUBSET Requests, Written(kind, p, met, others)
    PROVE  /\ races \subseteq races'
           /\ races' \subseteq (DOMAIN Unsafe) \X Projects
           /\ \A x \in DOMAIN Unsafe, k \in met : <<k, kind>> \in Unsafe[x] => <<x, p>> \in races'
           /\ request' = [s \in Requests |-> request'[s]]
           /\ Busy' \subseteq Busy \cap others
           /\ \A s \in Busy' :
                 /\ Shaped(request'[s])
                 /\ request'[s].kind = request[s].kind
                 /\ request'[s].project = request[s].project
                 /\ request'[s].writes = request[s].writes
                 /\ request[s].met \subseteq request'[s].met
                 /\ request[s].project = p /\ Meets(kind, request[s].kind)
                       => kind \in request'[s].met
  <1>1. races \subseteq races' /\ races' \subseteq (DOMAIN Unsafe) \X Projects
    BY DEF Written, Shape
  <1>2. \A x \in DOMAIN Unsafe, k \in met : <<k, kind>> \in Unsafe[x] => <<x, p>> \in races'
    BY DEF Written
  <1>3. request' = [s \in Requests |-> request'[s]]
    BY DEF Written
  <1>4. ASSUME NEW s \in Busy'
        PROVE  /\ s \in Busy \cap others
               /\ request'[s] = IF request[s].project = p /\ Meets(kind, request[s].kind)
                                THEN [request[s] EXCEPT !.met = @ \cup {kind}]
                                ELSE request[s]
    BY DEF Written, Meets, Busy
  <1>5. ASSUME NEW s \in Busy'
        PROVE  /\ Shaped(request'[s])
               /\ request'[s].kind = request[s].kind
               /\ request'[s].project = request[s].project
               /\ request'[s].writes = request[s].writes
               /\ request[s].met \subseteq request'[s].met
               /\ request[s].project = p /\ Meets(kind, request[s].kind)
                     => kind \in request'[s].met
    <2>1. Shaped(request[s])
      BY <1>4 DEF Shape, Pending
    <2>2. Shaped([request[s] EXCEPT !.met = @ \cup {kind}])
      BY <2>1, ShapedOn
    <2>3. request[s] = [kind |-> request[s].kind, project |-> request[s].project,
                        writes |-> request[s].writes, met |-> request[s].met]
      BY <2>1 DEF Shaped
    <2>4. [request[s] EXCEPT !.met = @ \cup {kind}]
             = [kind |-> request[s].kind, project |-> request[s].project,
                writes |-> request[s].writes, met |-> request[s].met \cup {kind}]
      BY <2>3
    <2>5. CASE request[s].project = p /\ Meets(kind, request[s].kind)
      BY <1>4, <2>2, <2>4, <2>5
    <2>6. CASE ~(request[s].project = p /\ Meets(kind, request[s].kind))
      BY <1>4, <2>1, <2>6
    <2> QED BY <2>5, <2>6
  <1> QED
    BY <1>1, <1>2, <1>3, <1>4, <1>5

\* The other requests when one of the kind has written to project p, having
\* met those of the kinds met.
Follows(n, q, kind, p) ==
    /\ n.kind = q.kind /\ n.project = q.project /\ n.writes = q.writes /\ q.met \subseteq n.met
    /\ q.project = p /\ Meets(kind, q.kind) => kind \in n.met

\* What a write of this kind to p does to the requests and to the history.
Overlap(kind, p, met) ==
    /\ races \subseteq races' /\ races' \subseteq (DOMAIN Unsafe) \X Projects
    /\ \A x \in DOMAIN Unsafe, k \in met : <<k, kind>> \in Unsafe[x] => <<x, p>> \in races'
    /\ request' = [s \in Requests |-> request'[s]]
    /\ \A n \in Pending' : Shaped(n) /\ \E q \in Pending : Follows(n, q, kind, p)

\* Written does that.
LEMMA WrittenOverlaps ==
    ASSUME Shape, NEW kind \in Kinds, NEW p \in Projects, NEW met \in SUBSET Kinds,
           NEW others \in SUBSET Requests, Written(kind, p, met, others)
    PROVE  Overlap(kind, p, met)
  <1>1. ASSUME NEW n \in Pending' PROVE Shaped(n) /\ \E q \in Pending : Follows(n, q, kind, p)
    <2>1. PICK s \in Busy' : n = request'[s]
      BY DEF Pending
    <2>2. s \in Busy /\ request[s] \in Pending
      BY <2>1, WrittenIs DEF Pending
    <2>3. Shaped(n) /\ Follows(n, request[s], kind, p)
      BY <2>1, WrittenIs DEF Follows
    <2> QED
      BY <2>2, <2>3
  <1> QED
    BY <1>1, WrittenIs DEF Overlap

\* The domain and the value of a new row.
LEMMA NewIs ==
    ASSUME NEW wanted, NEW ids, NEW new
    PROVE  /\ wanted => DOMAIN New(wanted, ids, new) = First(ids)
           /\ ~wanted => DOMAIN New(wanted, ids, new) = {}
           /\ \A i \in DOMAIN New(wanted, ids, new) : New(wanted, ids, new)[i] = new
  <1>1. CASE wanted
    BY <1>1 DEF New
  <1>2. CASE ~wanted
    BY <1>2 DEF New
  <1> QED
    BY <1>1, <1>2

\* There is at most one first id.
LEMMA FirstIsOne ==
    ASSUME NEW ids, ids \subseteq Int
    PROVE  First(ids) \subseteq ids /\ \A i, j \in First(ids) : i = j
  BY DEF First

\* Free ids are unused.
LEMMA FreeIs ==
    ASSUME Shape, NEW known
    PROVE  /\ Free(files, known) \subseteq {f \in Files : files[f] = Unused}
           /\ Free(members, known) \subseteq {m \in Members : members[m] = Unused}
           /\ Free(contents, known) \subseteq {k \in Contents : contents[k] = Unused}
           /\ Free(projects, known) \subseteq {p \in Projects : projects[p] = Unused}
  <1>1. DOMAIN files = Files /\ DOMAIN members = Members /\ DOMAIN contents = Contents
        /\ DOMAIN projects = Projects
    BY DEF Shape
  <1>2. \A f \in Files : files[f].row = "unused" => files[f] = Unused
    <2>1. \A row \in FileRows : row.row = "there"
      BY DEF FileRows
    <2>2. \A row \in GoneFiles : row.row # "unused"
      BY DEF GoneFiles
    <2> QED
      BY <2>1, <2>2 DEF Shape
  <1>3. \A f \in Members : members[f].row = "unused" => members[f] = Unused
    BY DEF Shape, Unused, Gone, MemberRows, ContentRows, ProjectRows
  <1>4. \A f \in Contents : contents[f].row = "unused" => contents[f] = Unused
    BY DEF Shape, Unused, Gone, MemberRows, ContentRows, ProjectRows
  <1>5. \A f \in Projects : projects[f].row = "unused" => projects[f] = Unused
    BY DEF Shape, Unused, Gone, MemberRows, ContentRows, ProjectRows
  <1> QED
    BY <1>1, <1>2, <1>3, <1>4, <1>5 DEF Free

\* The row that is new, if any, takes the place of at most one row that is not used.
Single(S) == \A i, j \in S : i = j

\* The ids that new rows get are unused, and there is at most one.
LEMMA NewIdsAre ==
    ASSUME Shape, NEW known
    PROVE  /\ First(Free(files, known)) \subseteq {f \in Files : files[f] = Unused}
           /\ First(Free(members, known)) \subseteq {m \in Members : members[m] = Unused}
           /\ First(Free(contents, known)) \subseteq {k \in Contents : contents[k] = Unused}
           /\ First(Free(projects, known)) \subseteq {p \in Projects : projects[p] = Unused}
           /\ Single(First(Free(files, known))) /\ Single(First(Free(members, known)))
           /\ Single(First(Free(contents, known))) /\ Single(First(Free(projects, known)))
  BY FreeIs, FirstIsOne DEF Files, Members, Contents, Projects, Single

\* What a commit needs and what it does to the requests.
LEMMA CommitIs ==
    ASSUME Shape, NEW r \in Requests, Commit(r)
    PROVE  LET q == request[r]
           IN  /\ r \in Busy /\ Shaped(q) /\ Applies(q.writes)
               /\ q.writes.code # None => q.project \in First(Free(projects, {}))
               /\ Written(q.kind, q.project, q.met, Requests \ {r})
  BY DEF Commit, Shape, Pending

\* What a commit does to the files, if it inserts, puts or deletes only.
LEMMA CommitFiles ==
    ASSUME Shape, NEW r \in Requests, Commit(r)
    PROVE  LET w == request[r].writes IN
           \E new :
          /\ new \subseteq {f \in Files : files[f] = Unused} /\ Single(new)
          /\ w.file = Unused => new = {}
          /\ files' = [f \in Files |->
                IF f \in new THEN w.file
                ELSE IF f \in DOMAIN w.puts THEN w.puts[f]
                ELSE IF f \in w.dropFiles THEN GoneFrom(request[r].project) ELSE files[f]]
  <1> DEFINE q == request[r]
             w == q.writes
             ids == First(Free(files, {}))
             put == New(w.file # Unused, Free(files, {}), w.file)
  <1>0. DOMAIN files = Files
    BY DEF Shape
  <1>1. files' = Put(Put(Put(files, [f \in w.dropFiles |-> GoneFrom(q.project)]), w.puts), put)
    BY DEF Commit
  <1>2. (w.file # Unused => DOMAIN put = ids) /\ (~(w.file # Unused) => DOMAIN put = {})
        /\ \A i \in DOMAIN put : put[i] = w.file
    BY NewIs
  <1>3. ids \subseteq {f \in Files : files[f] = Unused} /\ Single(ids)
    BY NewIdsAre
  <1> HIDE DEF put, ids
  <1>4. DOMAIN put \subseteq {f \in Files : files[f] = Unused} /\ Single(DOMAIN put)
        /\ (w.file = Unused => DOMAIN put = {})
    BY <1>2, <1>3 DEF Single
  <1>5. files' = [f \in Files |->
              IF f \in DOMAIN put THEN w.file
              ELSE IF f \in DOMAIN w.puts THEN w.puts[f]
              ELSE IF f \in w.dropFiles THEN GoneFrom(q.project) ELSE files[f]]
    BY <1>0, <1>1, <1>2 DEF Put
  <1> QED
    BY <1>4, <1>5

\* What a commit does to the contents.
LEMMA CommitContents ==
    ASSUME Shape, NEW r \in Requests, Commit(r)
    PROVE  LET w == request[r].writes IN
           \E new :
          /\ new \subseteq {k \in Contents : contents[k] = Unused} /\ Single(new)
          /\ w.content = None => new = {}
          /\ contents' = [k \in Contents |->
                IF k \in new THEN [row |-> "there", file |-> w.content]
                ELSE IF k \in w.dropContents THEN Unused ELSE contents[k]]
  <1> DEFINE q == request[r]
             w == q.writes
             ids == First(Free(contents, KnownContents))
             put == New(w.content # None, Free(contents, KnownContents),
                        [row |-> "there", file |-> w.content])
  <1>0. DOMAIN contents = Contents
    BY DEF Shape
  <1>1. contents' = Put(Put(contents, [k \in w.dropContents |-> Unused]), put)
    BY DEF Commit
  <1>2. (w.content # None => DOMAIN put = ids) /\ (~(w.content # None) => DOMAIN put = {})
        /\ \A i \in DOMAIN put : put[i] = [row |-> "there", file |-> w.content]
    BY NewIs
  <1>3. ids \subseteq {k \in Contents : contents[k] = Unused} /\ Single(ids)
    BY NewIdsAre
  <1> HIDE DEF put, ids
  <1>4. DOMAIN put \subseteq {k \in Contents : contents[k] = Unused} /\ Single(DOMAIN put)
        /\ (w.content = None => DOMAIN put = {})
    BY <1>2, <1>3 DEF Single
  <1>5. contents' = [k \in Contents |->
              IF k \in DOMAIN put THEN [row |-> "there", file |-> w.content]
              ELSE IF k \in w.dropContents THEN Unused ELSE contents[k]]
    BY <1>0, <1>1, <1>2 DEF Put
  <1> QED
    BY <1>4, <1>5

\* What a commit does to the members.
LEMMA CommitMembers ==
    ASSUME Shape, NEW r \in Requests, Commit(r)
    PROVE  LET w == request[r].writes IN
           \E new :
          /\ new \subseteq {m \in Members : members[m] = Unused} /\ Single(new)
          /\ w.enrols = {} => new = {}
          /\ members' = [m \in Members |->
                IF m \in new
                THEN [row |-> "there", project |-> request[r].project,
                      user |-> CHOOSE u \in w.enrols : TRUE]
                ELSE IF m \in w.dropMembers THEN Unused ELSE members[m]]
  <1> DEFINE q == request[r]
             w == q.writes
             ids == First(Free(members, KnownMembers))
             row == [row |-> "there", project |-> q.project,
                     user |-> CHOOSE u \in w.enrols : TRUE]
             put == New(w.enrols # {}, Free(members, KnownMembers), row)
  <1>0. DOMAIN members = Members
    BY DEF Shape
  <1>1. members' = Put(Put(members, [m \in w.dropMembers |-> Unused]), put)
    BY DEF Commit
  <1> HIDE DEF row
  <1>2. (w.enrols # {} => DOMAIN put = ids) /\ (~(w.enrols # {}) => DOMAIN put = {})
        /\ \A i \in DOMAIN put : put[i] = row
    BY NewIs
  <1>3. ids \subseteq {m \in Members : members[m] = Unused} /\ Single(ids)
    BY NewIdsAre
  <1> HIDE DEF put, ids
  <1>4. DOMAIN put \subseteq {m \in Members : members[m] = Unused} /\ Single(DOMAIN put)
        /\ (w.enrols = {} => DOMAIN put = {})
    BY <1>2, <1>3 DEF Single
  <1>5. members' = [m \in Members |->
              IF m \in DOMAIN put THEN row
              ELSE IF m \in w.dropMembers THEN Unused ELSE members[m]]
    BY <1>0, <1>1, <1>2 DEF Put
  <1> QED
    BY <1>4, <1>5 DEF row

\* What a commit does to the projects.
LEMMA CommitProjects ==
    ASSUME Shape, NEW r \in Requests, Commit(r)
    PROVE  LET w == request[r].writes IN
           projects' = [p \in Projects |->
                IF w.code # None /\ p = request[r].project THEN [row |-> "there", code |-> w.code]
                ELSE IF p \in w.dropProjects THEN Gone ELSE projects[p]]
  <1> DEFINE q == request[r]
             w == q.writes
             ids == First(Free(projects, {}))
             row == [row |-> "there", code |-> w.code]
             put == New(w.code # None, Free(projects, {}), row)
  <1>0. DOMAIN projects = Projects
    BY DEF Shape
  <1>1. projects' = Put(Put(projects, [p \in w.dropProjects |-> Gone]), put)
    BY DEF Commit
  <1> HIDE DEF row
  <1>a. w.code # None => q.project \in ids
    BY CommitIs
  <1>2. (w.code # None => DOMAIN put = ids) /\ (~(w.code # None) => DOMAIN put = {})
        /\ \A i \in DOMAIN put : put[i] = row
    BY NewIs
  <1>3. w.code # None => \A p : p \in ids <=> p = q.project
    BY <1>a, NewIdsAre DEF Single
  <1> HIDE DEF put, ids
  <1>4. \A p : p \in DOMAIN put <=> w.code # None /\ p = q.project
    BY <1>2, <1>3
  <1>5. projects' = [p \in Projects |->
              IF p \in DOMAIN put THEN row
              ELSE IF p \in w.dropProjects THEN Gone ELSE projects[p]]
    BY <1>0, <1>1, <1>2 DEF Put
  <1> QED
    BY <1>4, <1>5 DEF row

\* The rows of files tell live, deleted, unused and gone apart, and keep the
\* project.
LEMMA RowsAre ==
    /\ \A row \in FileRows : row.row = "there" /\ row.deleted \in BOOLEAN /\ row.project \in Projects
    /\ \A row \in FileRows : row \in LiveRows <=> ~row.deleted
    /\ Unused.row = "unused" /\ Gone.row = "gone"
    /\ Unused \notin FileRows /\ Gone \notin FileRows
    /\ Gone # Unused
    /\ \A row \in GoneFiles : /\ row.row = "gone" /\ row.project \in Projects
                             /\ row \notin FileRows /\ row # Unused
    /\ \A p \in Projects : GoneFrom(p) \in GoneFiles /\ GoneFrom(p).project = p
  <1>1. /\ \A row \in FileRows : row.row = "there" /\ row.deleted \in BOOLEAN /\ row.project \in Projects
        /\ \A row \in FileRows : row \in LiveRows <=> ~row.deleted
    BY DEF FileRows, LiveRows
  <1>2. Unused.row = "unused" /\ Gone.row = "gone"
    BY DEF Unused, Gone
  <1>3. \A row \in GoneFiles : row.row = "gone" /\ row.project \in Projects
    BY DEF GoneFiles
  <1>4. \A p \in Projects : GoneFrom(p) \in GoneFiles /\ GoneFrom(p).project = p
    BY DEF GoneFiles, GoneFrom
  <1> QED
    BY <1>1, <1>2, <1>3, <1>4

\* A live row, column by column.
LEMMA LiveRowsAre ==
    ASSUME NEW row \in LiveRows
    PROVE  /\ row \in FileRows /\ ~row.deleted
           /\ row.project \in Projects /\ row.parent \in 0 .. MaxFiles
           /\ row.name \in Names /\ row.type \in {"FILE", "FOLDER"}
           /\ row = [row |-> "there", project |-> row.project, parent |-> row.parent,
                     name |-> row.name, type |-> row.type, deleted |-> FALSE]
  <1>1. row \in FileRows /\ ~row.deleted
    BY DEF LiveRows
  <1>2. row \in [row : {"there"}, project : Projects, parent : 0 .. MaxFiles, name : Names,
                 type : {"FILE", "FOLDER"}, deleted : {FALSE}]
    BY <1>1 DEF FileRows
  <1> QED
    BY <1>1, <1>2

\* The rows of the other tables tell what is stored from what is not.
LEMMA OtherRowsAre ==
    /\ \A row \in MemberRows : row.row = "there" /\ row.project \in Projects
    /\ \A row \in ContentRows : row.row = "there" /\ row.file \in Files
    /\ \A row \in ProjectRows : row.row = "there"
    /\ Unused \notin MemberRows \cup ContentRows \cup ProjectRows
    /\ Gone \notin ProjectRows
  BY DEF MemberRows, ContentRows, ProjectRows, Unused, Gone

\* What is stored, by the kind of its rows.
LEMMA StoredFiles ==
    ASSUME NEW table \in [Files -> {Unused} \cup GoneFiles \cup FileRows]
    PROVE  There(table) = {f \in Files : table[f] \in FileRows}
  BY RowsAre DEF There

\* The same of the members.
LEMMA StoredMembers ==
    ASSUME NEW table \in [Members -> {Unused} \cup MemberRows]
    PROVE  There(table) = {f \in Members : table[f] \in MemberRows}
  BY RowsAre, OtherRowsAre DEF There

\* The same of the contents.
LEMMA StoredContents ==
    ASSUME NEW table \in [Contents -> {Unused} \cup ContentRows]
    PROVE  There(table) = {f \in Contents : table[f] \in ContentRows}
  BY RowsAre, OtherRowsAre DEF There

\* The same of the projects.
LEMMA StoredProjects ==
    ASSUME NEW table \in [Projects -> {Unused, Gone} \cup ProjectRows]
    PROVE  There(table) = {f \in Projects : table[f] \in ProjectRows}
  BY RowsAre, OtherRowsAre DEF There

\* What is stored in all four tables.
LEMMA StoredIs ==
    ASSUME Shape
    PROVE  /\ There(files) = {f \in Files : files[f] \in FileRows}
           /\ Live = {f \in Files : files[f] \in LiveRows}
           /\ There(members) = {m \in Members : members[m] \in MemberRows}
           /\ There(contents) = {k \in Contents : contents[k] \in ContentRows}
           /\ There(projects) = {p \in Projects : projects[p] \in ProjectRows}
  <1>1. There(files) = {f \in Files : files[f] \in FileRows}
    BY StoredFiles DEF Shape
  <1>2. Live = {f \in Files : files[f] \in LiveRows}
    BY <1>1, RowsAre, LiveRowsAre DEF Live
  <1>3. There(members) = {m \in Members : members[m] \in MemberRows}
    BY StoredMembers DEF Shape
  <1>4. There(contents) = {k \in Contents : contents[k] \in ContentRows}
    BY StoredContents DEF Shape
  <1>5. There(projects) = {p \in Projects : projects[p] \in ProjectRows}
    BY StoredProjects DEF Shape
  <1> QED
    BY <1>1, <1>2, <1>3, <1>4, <1>5

\* A row of a live file is put in the place of rows.
LEMMA FilesSet ==
    ASSUME Shape, NEW S \in SUBSET Files, NEW row \in LiveRows,
           files' = [f \in Files |-> IF f \in S THEN row ELSE files[f]]
    PROVE  /\ files' \in [Files -> {Unused} \cup GoneFiles \cup FileRows]
           /\ There(files') = There(files) \cup S
           /\ Live' = Live \cup S
           /\ \A f \in Files : files'[f] # Unused <=> files[f] # Unused \/ f \in S
  <1>1. files' \in [Files -> {Unused} \cup GoneFiles \cup FileRows]
    BY LiveRowsAre DEF Shape
  <1>2. There(files') = {f \in Files : files'[f] \in FileRows}
    BY <1>1, StoredFiles
  <1>3. There(files') = There(files) \cup S
    BY <1>2, StoredIs, LiveRowsAre
  <1>4. Live' = Live \cup S
    BY <1>3, LiveRowsAre DEF Live, There
  <1> QED
    BY <1>1, <1>3, <1>4, RowsAre, LiveRowsAre

\* The tables after a request has written, if it does not write to them.
LEMMA OtherTables ==
    ASSUME Shape, NEW r \in Requests, Commit(r), NEW w, w = request[r].writes
    PROVE  /\ w.code = None /\ w.dropProjects = {} => projects' = projects
           /\ w.enrols = {} /\ w.dropMembers = {} => members' = members
           /\ w.file = Unused /\ DOMAIN w.puts = {} /\ w.dropFiles = {} => files' = files
           /\ w.content = None /\ w.dropContents = {} => contents' = contents
  <1>1. ASSUME w.code = None, w.dropProjects = {} PROVE projects' = projects
    <2>1. projects' = [p \in Projects |-> projects[p]]
      BY <1>1, CommitProjects
    <2> QED BY <2>1 DEF Shape
  <1>2. ASSUME w.enrols = {}, w.dropMembers = {} PROVE members' = members
    <2>1. members' = [p \in Members |-> members[p]]
      BY <1>2, CommitMembers
    <2> QED BY <2>1 DEF Shape
  <1>3. ASSUME w.file = Unused, DOMAIN w.puts = {}, w.dropFiles = {} PROVE files' = files
    <2>1. files' = [p \in Files |-> files[p]]
      BY <1>3, CommitFiles
    <2> QED BY <2>1 DEF Shape
  <1>4. ASSUME w.content = None, w.dropContents = {} PROVE contents' = contents
    <2>1. contents' = [p \in Contents |-> contents[p]]
      BY <1>4, CommitContents
    <2> QED BY <2>1 DEF Shape
  <1> QED
    BY <1>1, <1>2, <1>3, <1>4

\* The tables after a request of each kind has written.
LEMMA CreateCommit ==
    ASSUME Shape, NEW r \in Requests, Commit(r), request[r].kind = "create",
           NEW w, w = request[r].writes
    PROVE  /\ w.file \in LiveRows /\ w.file.project = request[r].project
           /\ UNCHANGED <<projects, members, contents>>
           /\ \E new : /\ new \subseteq {f \in Files : files[f] = Unused} /\ Single(new)
                       /\ files' = [f \in Files |-> IF f \in new THEN w.file ELSE files[f]]
  <1>1. OnlyWrites(w, {"file"}) /\ w.file \in LiveRows /\ w.file.project = request[r].project
    BY CommitIs DEF Shaped
  <1>2. UNCHANGED <<projects, members, contents>>
    BY <1>1, OtherTables DEF OnlyWrites
  <1>3. DOMAIN w.puts = {} /\ w.dropFiles = {}
    BY <1>1 DEF OnlyWrites
  <1>4. \E new : /\ new \subseteq {f \in Files : files[f] = Unused} /\ Single(new)
                 /\ files' = [f \in Files |-> IF f \in new THEN w.file ELSE files[f]]
    BY <1>3, CommitFiles
  <1> QED
    BY <1>1, <1>2, <1>4

\* A renaming puts one row.
LEMMA RenameCommit ==
    ASSUME Shape, NEW r \in Requests, Commit(r), request[r].kind = "rename",
           NEW w, w = request[r].writes
    PROVE  /\ UNCHANGED <<projects, members, contents>>
           /\ \E f \in There(files) :
                 /\ DOMAIN w.puts = {f} /\ w.puts[f] \in LiveRows
                 /\ w.puts[f].project = request[r].project
                 /\ files' = [g \in Files |-> IF g \in {f} THEN w.puts[f] ELSE files[g]]
  <1>1. OnlyWrites(w, {"puts"}) /\ Applies(w)
    BY CommitIs DEF Shaped
  <1>2. UNCHANGED <<projects, members, contents>>
    BY <1>1, OtherTables DEF OnlyWrites
  <1>3. w.file = Unused /\ w.dropFiles = {}
    BY <1>1 DEF OnlyWrites
  <1>4. PICK f \in Files : DOMAIN w.puts = {f} /\ w.puts[f] \in LiveRows
                           /\ w.puts[f].project = request[r].project
    BY CommitIs DEF Shaped
  <1>5. files' = [g \in Files |-> IF g \in {f} THEN w.puts[f] ELSE files[g]]
    BY <1>3, <1>4, CommitFiles
  <1>6. f \in There(files)
    BY <1>1, <1>4 DEF Applies
  <1> QED
    BY <1>2, <1>4, <1>5, <1>6

\* A deletion marks rows and deletes contents.
LEMMA DeleteCommit ==
    ASSUME Shape, NEW r \in Requests, Commit(r), request[r].kind = "delete",
           NEW w, w = request[r].writes
    PROVE  /\ UNCHANGED <<projects, members>>
           /\ DOMAIN w.puts \subseteq There(files)
           /\ \A f \in DOMAIN w.puts : w.puts[f] = [row |-> "there",
                                         project |-> request[r].project, deleted |-> TRUE]
           /\ files' = [f \in Files |-> IF f \in DOMAIN w.puts THEN w.puts[f] ELSE files[f]]
           /\ contents' = [k \in Contents |-> IF k \in w.dropContents THEN Unused
                                              ELSE contents[k]]
  <1>1. OnlyWrites(w, {"puts", "dropContents"}) /\ Applies(w)
    BY CommitIs DEF Shaped
  <1>2. UNCHANGED <<projects, members>>
    BY <1>1, OtherTables DEF OnlyWrites
  <1>3. w.file = Unused /\ w.dropFiles = {} /\ w.content = None
    BY <1>1 DEF OnlyWrites
  <1>4. \A f \in DOMAIN w.puts : w.puts[f] = [row |-> "there",
                                         project |-> request[r].project, deleted |-> TRUE]
    BY CommitIs DEF Shaped
  <1>5. files' = [f \in Files |-> IF f \in DOMAIN w.puts THEN w.puts[f] ELSE files[f]]
    BY <1>3, CommitFiles
  <1>6. contents' = [k \in Contents |-> IF k \in w.dropContents THEN Unused ELSE contents[k]]
    BY <1>3, CommitContents
  <1>7. DOMAIN w.puts \subseteq There(files)
    BY <1>1 DEF Applies
  <1> QED
    BY <1>2, <1>4, <1>5, <1>6, <1>7

\* A save inserts a row of content.
LEMMA SaveCommit ==
    ASSUME Shape, NEW r \in Requests, Commit(r), request[r].kind = "save",
           NEW w, w = request[r].writes
    PROVE  /\ w.content \in Files
           /\ UNCHANGED <<projects, members, files>>
           /\ \E new : /\ new \subseteq Contents
                       /\ contents' = [k \in Contents |->
                             IF k \in new THEN [row |-> "there", file |-> w.content]
                             ELSE contents[k]]
  <1>1. OnlyWrites(w, {"content"}) /\ w.content \in Files
    BY CommitIs DEF Shaped
  <1>2. UNCHANGED <<projects, members, files>>
    BY <1>1, OtherTables DEF OnlyWrites
  <1>3. w.dropContents = {}
    BY <1>1 DEF OnlyWrites
  <1>4. \E new : /\ new \subseteq Contents
                 /\ contents' = [k \in Contents |->
                       IF k \in new THEN [row |-> "there", file |-> w.content]
                       ELSE contents[k]]
    BY <1>3, CommitContents
  <1> QED
    BY <1>1, <1>2, <1>4

\* A new project gets its row, its root folder and its first member.
LEMMA FoundCommit ==
    ASSUME Shape, NEW r \in Requests, Commit(r), request[r].kind = "found",
           NEW w, w = request[r].writes, NEW p, p = request[r].project
    PROVE  /\ w.file \in LiveRows /\ w.file.project = p /\ w.file.parent = None
           /\ w.code \in Codes /\ p \in Projects /\ projects[p] = Unused
           /\ UNCHANGED contents
           /\ projects' = [x \in Projects |-> IF x = p THEN [row |-> "there", code |-> w.code]
                                              ELSE projects[x]]
           /\ \E new : /\ new \subseteq {f \in Files : files[f] = Unused} /\ Single(new)
                       /\ files' = [f \in Files |-> IF f \in new THEN w.file ELSE files[f]]
           /\ \E u \in Users : \E new :
                 /\ new \subseteq {m \in Members : members[m] = Unused} /\ Single(new)
                 /\ members' = [m \in Members |->
                       IF m \in new THEN [row |-> "there", project |-> p, user |-> u]
                       ELSE members[m]]
  <1>1. OnlyWrites(w, {"code", "enrols", "file"}) /\ p \in Projects /\ w.code \in Codes
        /\ w.file \in LiveRows /\ w.file.project = p /\ w.file.parent = None
    BY CommitIs DEF Shaped
  <1>2. UNCHANGED contents
    BY <1>1, OtherTables DEF OnlyWrites
  <1>3. DOMAIN w.puts = {} /\ w.dropFiles = {} /\ w.dropMembers = {} /\ w.dropProjects = {}
    BY <1>1 DEF OnlyWrites
  <1>4. w.code # None
    BY <1>1, CodesAssumption
  <1>5. p \in First(Free(projects, {}))
    BY <1>4, CommitIs
  <1>6. projects[p] = Unused
    BY <1>5, NewIdsAre
  <1>7. projects' = [x \in Projects |-> IF x = p THEN [row |-> "there", code |-> w.code]
                                        ELSE projects[x]]
    BY <1>3, <1>4, CommitProjects
  <1>8. \E new : /\ new \subseteq {f \in Files : files[f] = Unused} /\ Single(new)
                 /\ files' = [f \in Files |-> IF f \in new THEN w.file ELSE files[f]]
    BY <1>3, CommitFiles
  <1>9. \E u \in Users : \E new :
           /\ new \subseteq {m \in Members : members[m] = Unused} /\ Single(new)
           /\ members' = [m \in Members |->
                 IF m \in new THEN [row |-> "there", project |-> p, user |-> u]
                 ELSE members[m]]
    <2>1. PICK u \in Users : w.enrols = {u}
      BY CommitIs DEF Shaped
    <2>2. (CHOOSE v \in w.enrols : TRUE) = u
      BY <2>1
    <2>3. PICK new :
            /\ new \subseteq {m \in Members : members[m] = Unused} /\ Single(new)
            /\ members' = [m \in Members |->
                  IF m \in new THEN [row |-> "there", project |-> p,
                                     user |-> CHOOSE v \in w.enrols : TRUE]
                  ELSE members[m]]
      BY <1>3, CommitMembers
    <2> QED
      BY <2>2, <2>3
  <1> QED
    BY <1>1, <1>2, <1>6, <1>7, <1>8, <1>9

\* The deletion of a project deletes from every table.
LEMMA DestroyCommit ==
    ASSUME Shape, NEW r \in Requests, Commit(r), request[r].kind = "destroy",
           NEW w, w = request[r].writes, NEW p, p = request[r].project
    PROVE  /\ p \in Projects /\ w.dropFiles \subseteq There(files)
           /\ projects' = [x \in Projects |-> IF x = p THEN Gone ELSE projects[x]]
           /\ members' = [m \in Members |-> IF m \in w.dropMembers THEN Unused ELSE members[m]]
           /\ files' = [f \in Files |-> IF f \in w.dropFiles THEN GoneFrom(p) ELSE files[f]]
           /\ contents' = [k \in Contents |-> IF k \in w.dropContents THEN Unused
                                              ELSE contents[k]]
  <1>1. OnlyWrites(w, {"dropFiles", "dropContents", "dropMembers", "dropProjects"})
        /\ p \in Projects /\ w.dropProjects = {p} /\ Applies(w)
    BY CommitIs DEF Shaped
  <1>2. w.code = None /\ w.enrols = {} /\ w.file = Unused /\ w.content = None /\ DOMAIN w.puts = {}
    BY <1>1 DEF OnlyWrites
  <1>3. projects' = [x \in Projects |-> IF x = p THEN Gone ELSE projects[x]]
    BY <1>1, <1>2, CommitProjects
  <1>4. members' = [m \in Members |-> IF m \in w.dropMembers THEN Unused ELSE members[m]]
    BY <1>2, CommitMembers
  <1>5. files' = [f \in Files |-> IF f \in w.dropFiles THEN GoneFrom(p) ELSE files[f]]
    BY <1>2, CommitFiles
  <1>6. contents' = [k \in Contents |-> IF k \in w.dropContents THEN Unused ELSE contents[k]]
    BY <1>2, CommitContents
  <1> QED
    BY <1>1, <1>3, <1>4, <1>5, <1>6 DEF Applies

\* An enrolment inserts a membership.
LEMMA EnrolCommit ==
    ASSUME Shape, NEW r \in Requests, Commit(r), request[r].kind = "enrol",
           NEW w, w = request[r].writes, NEW p, p = request[r].project
    PROVE  /\ p \in Projects
           /\ UNCHANGED <<projects, files, contents>>
           /\ \E u \in Users : \E new :
                 /\ w.enrols = {u}
                 /\ new \subseteq {m \in Members : members[m] = Unused} /\ Single(new)
                 /\ members' = [m \in Members |->
                       IF m \in new THEN [row |-> "there", project |-> p, user |-> u]
                       ELSE members[m]]
  <1>1. OnlyWrites(w, {"enrols"}) /\ p \in Projects
    BY CommitIs DEF Shaped
  <1>2. UNCHANGED <<projects, files, contents>>
    BY <1>1, OtherTables DEF OnlyWrites
  <1>3. w.dropMembers = {}
    BY <1>1 DEF OnlyWrites
  <1>4. PICK u \in Users : w.enrols = {u}
    BY CommitIs DEF Shaped
  <1>5. (CHOOSE v \in w.enrols : TRUE) = u
    BY <1>4
  <1>6. \E new :
           /\ new \subseteq {m \in Members : members[m] = Unused} /\ Single(new)
           /\ members' = [m \in Members |->
                 IF m \in new THEN [row |-> "there", project |-> p, user |-> u]
                 ELSE members[m]]
    <2>1. PICK new :
            /\ new \subseteq {m \in Members : members[m] = Unused} /\ Single(new)
            /\ members' = [m \in Members |->
                  IF m \in new THEN [row |-> "there", project |-> p,
                                     user |-> CHOOSE v \in w.enrols : TRUE]
                  ELSE members[m]]
      BY <1>3, CommitMembers
    <2> QED
      BY <1>5, <2>1
  <1> QED
    BY <1>1, <1>2, <1>4, <1>6

\* A removal deletes memberships.
LEMMA RemoveCommit ==
    ASSUME Shape, NEW r \in Requests, Commit(r), request[r].kind = "remove",
           NEW w, w = request[r].writes
    PROVE  /\ UNCHANGED <<projects, files, contents>>
           /\ members' = [m \in Members |-> IF m \in w.dropMembers THEN Unused ELSE members[m]]
  <1>1. OnlyWrites(w, {"dropMembers"})
    BY CommitIs DEF Shaped
  <1>2. UNCHANGED <<projects, files, contents>>
    BY <1>1, OtherTables DEF OnlyWrites
  <1>3. w.enrols = {}
    BY <1>1 DEF OnlyWrites
  <1>4. members' = [m \in Members |-> IF m \in w.dropMembers THEN Unused ELSE members[m]]
    BY <1>3, CommitMembers
  <1> QED
    BY <1>2, <1>4

\* Every commit is a write that overlaps the pending requests.
LEMMA CommitOverlaps ==
    ASSUME Shape, NEW r \in Requests, Commit(r), NEW q, q = request[r]
    PROVE  q \in Pending /\ Overlap(q.kind, q.project, q.met)
  <1>1. q \in Pending
    BY CommitIs DEF Pending
  <1>2. Shaped(q) /\ Written(q.kind, q.project, q.met, Requests \ {r})
    BY CommitIs
  <1>3. q.kind \in Kinds /\ q.project \in Projects /\ q.met \in SUBSET Kinds
    BY <1>2 DEF Shaped
  <1> QED
    BY <1>1, <1>2, <1>3, WrittenOverlaps

\* A request of the kind puts the row of a live file of project p at S: at a
\* row that is not used, or at the row of a file.
PutsLive(kind, p, S, row) ==
    /\ S \subseteq Files /\ row \in LiveRows /\ row.project = p /\ Points(row.parent, p)
    /\ files' = [f \in Files |-> IF f \in S THEN row ELSE files[f]]
    /\ \A f \in S : files[f] = Unused \/ (f \in There(files) /\ files[f].project = p)
    /\ \A f \in S \cap Live : \/ row = [files[f] EXCEPT !.name = row.name]
                              \/ <<"tree", p>> \in races'
    /\ UNCHANGED contents
    /\ There(projects) \subseteq There(projects')
    /\ \A x : Used(x) \/ x = p => Used(x)'
    /\ \/ kind \in {"create", "rename"} /\ UNCHANGED members
       \/ /\ kind = "found" /\ \A q \in Pending : q.kind # "found" => q.project # p
          /\ \A m \in There(members') :
                members'[m].project # p => m \in There(members) /\ members'[m] = members[m]

\* The files after such a put.
LEMMA PutsLiveIs ==
    ASSUME Shape, NEW kind, NEW p, NEW S, NEW row, PutsLive(kind, p, S, row)
    PROVE  /\ There(files') = There(files) \cup S
           /\ Live' = Live \cup S
           /\ \A f \in Files : files'[f] = IF f \in S THEN row ELSE files[f]
           /\ Live \subseteq There(files) /\ There(files) \subseteq Files
           /\ \A f \in There(files) : files[f] # Unused
           /\ \A f \in Live : files[f] \in LiveRows
  <1>1. S \in SUBSET Files /\ row \in LiveRows
        /\ files' = [f \in Files |-> IF f \in S THEN row ELSE files[f]]
    BY DEF PutsLive
  <1>2. There(files') = There(files) \cup S /\ Live' = Live \cup S
    BY <1>1, FilesSet
  <1>3. \A f \in Files : files'[f] = IF f \in S THEN row ELSE files[f]
    BY <1>1
  <1> QED
    BY <1>2, <1>3, StoredIs, RowsAre, LiveRowsAre

\* The plans of the other requests survive a put, or have met it.
LEMMA PlansUnderPut ==
    ASSUME IInv, NEW kind, NEW p, NEW met, Overlap(kind, p, met),
           NEW S, NEW row, PutsLive(kind, p, S, row), NEW n \in Pending'
    PROVE  PlanOf(n)'
  <1>1. PICK q \in Pending : Follows(n, q, kind, p)
    BY DEF Overlap
  <1>2. /\ Shaped(q) /\ RefsOf(q) /\ PlanOf(q)
        /\ n.kind = q.kind /\ n.project = q.project /\ n.writes = q.writes /\ q.met \subseteq n.met
        /\ races \subseteq races'
    BY <1>1 DEF Overlap, Follows, IInv, Shape, PlanRefs, Plans
  <1>3. q.project = p /\ q.kind \in {"create", "rename", "delete", "destroy"} =>
           kind \in n.met /\ kind \in {"create", "rename"}
    BY <1>1, MeetsIs DEF Follows, PutsLive
  <1>4. /\ There(files') = There(files) \cup S
        /\ Live' = Live \cup S
        /\ \A f \in Files : files'[f] = IF f \in S THEN row ELSE files[f]
        /\ Live \subseteq There(files) /\ There(files) \subseteq Files
        /\ \A f \in There(files) : files[f] # Unused
        /\ \A f \in Live : files[f] \in LiveRows
    BY PutsLiveIs DEF IInv
  <1>5. CASE q.kind = "create"
    <2>1. CreateHolds(q) /\ q.writes.file.project = q.project /\ q.writes.file \in LiveRows
          /\ Points(q.writes.file.parent, q.project)
      BY <1>2, <1>5 DEF PlanOf, Shaped, RefsOf
    <2>2. ASSUME Fits(q.writes.file), <<"tree", q.project>> \notin races'
          PROVE  Fits(q.writes.file)'
      <3> QED
        BY <1>4, <2>1, <2>2, LiveRowsAre DEF Fits, PutsLive
    <2>3. ASSUME ~Met(n, {"create", "rename"}), NEW g \in Live', Same(g, q.writes.file)'
          PROVE  FALSE
      BY <1>2, <1>3, <1>4, <1>5, <2>1, <2>3 DEF CreateHolds, Met, Same, PutsLive
    <2> QED
      BY <1>2, <1>5, <2>1, <2>2, <2>3 DEF PlanOf, CreateHolds, Met
  <1>6. CASE q.kind = "rename"
    <2>1. RenameHolds(q)
      BY <1>2, <1>6 DEF PlanOf
    <2>2. ASSUME NEW f \in DOMAIN q.writes.puts, <<"tree", q.project>> \notin races',
                 f \in Live,
                 q.writes.puts[f] = [files[f] EXCEPT !.name = q.writes.puts[f].name]
          PROVE  /\ f \in Live'
                 /\ q.writes.puts[f] = [files'[f] EXCEPT !.name = q.writes.puts[f].name]
      <3>1. CASE f \notin S
        BY <1>4, <2>2, <3>1
      <3>2. CASE f \in S
        <4> DEFINE put == q.writes.puts[f]
        <4>1. put.project = q.project
          BY <1>2, <1>6 DEF Shaped
        <4>2. files[f] \in LiveRows /\ f \in There(files) /\ files[f] # Unused
          BY <1>4, <2>2
        <4>3. files[f] = [row |-> "there", project |-> files[f].project, parent |-> files[f].parent,
                          name |-> files[f].name, type |-> files[f].type, deleted |-> FALSE]
          BY <4>2, LiveRowsAre
        <4>4. files[f].project = put.project
          BY <2>2, <4>3
        <4>5. files[f].project = p
          BY <3>2, <4>2 DEF PutsLive
        <4>6. row = [files[f] EXCEPT !.name = row.name]
          BY <2>2, <3>2, <4>1, <4>4, <4>5 DEF PutsLive
        <4>7. put = [row EXCEPT !.name = put.name]
          BY <2>2, <4>3, <4>6
        <4>8. files'[f] = row /\ f \in Live'
          BY <1>4, <2>2, <3>2
        <4> QED
          BY <4>7, <4>8
      <3> QED
        BY <3>1, <3>2
    <2>3. ASSUME NEW f \in DOMAIN q.writes.puts, f \notin There(files) \/ f \in Live
          PROVE  f \notin There(files') \/ f \in Live'
      BY <1>4, <2>3
    <2>4. ASSUME ~Met(n, {"create", "rename"}), NEW f \in DOMAIN q.writes.puts,
                 NEW g \in Live' \ {f}, Same(g, q.writes.puts[f])'
          PROVE  FALSE
      <3>1. q.writes.puts[f].project = q.project
        BY <1>2, <1>6 DEF Shaped
      <3> QED
        BY <1>2, <1>3, <1>4, <1>6, <2>1, <2>4, <3>1 DEF RenameHolds, Met, Same, PutsLive
    <2> QED
      BY <1>2, <1>6, <2>1, <2>2, <2>3, <2>4 DEF PlanOf, RenameHolds, Met
  <1>7. CASE q.kind = "delete"
    <2>1. DeleteHolds(q) /\ \A f \in DOMAIN q.writes.puts : Own(f, q.project)
      BY <1>2, <1>7 DEF PlanOf, RefsOf
    <2>2. ASSUME DOMAIN q.writes.puts \subseteq There(files')
          PROVE  DOMAIN q.writes.puts \subseteq There(files)
      BY <1>4, <2>1, <2>2 DEF Own, UsedFile, PutsLive
    <2>3. ASSUME ~Met(n, {"create", "rename"}), DOMAIN q.writes.puts \subseteq There(files),
                 NEW g \in Live', files'[g].parent \in DOMAIN q.writes.puts
          PROVE  g \in DOMAIN q.writes.puts
      BY <1>2, <1>3, <1>4, <1>7, <2>1, <2>3 DEF DeleteHolds, Met, PutsLive, Points, Own, None, Files
    <2> QED
      BY <1>2, <1>7, <2>1, <2>2, <2>3 DEF PlanOf, DeleteHolds, Met, PutsLive
  <1>8. CASE q.kind = "destroy"
    <2>1. DestroyHolds(q) /\ \A f \in q.writes.dropFiles : Own(f, q.project)
      BY <1>2, <1>8 DEF PlanOf, RefsOf
    <2>2. ASSUME q.writes.dropFiles \subseteq There(files')
          PROVE  q.writes.dropFiles \subseteq There(files)
      BY <1>4, <2>1, <2>2 DEF Own, UsedFile, PutsLive
    <2>3. ASSUME ~Met(n, {"create", "rename"}), NEW g \in Live', files'[g].project = q.project
          PROVE  g \in q.writes.dropFiles
      BY <1>2, <1>3, <1>4, <1>8, <2>1, <2>3 DEF DestroyHolds, Met, PutsLive
    <2>4. ASSUME NEW m \in There(members'), members'[m].project = q.project
          PROVE  m \in There(members) /\ members[m].project = q.project
      BY <1>8, <2>4 DEF PutsLive
    <2> QED
      BY <1>2, <1>8, <2>1, <2>2, <2>3, <2>4 DEF PlanOf, DestroyHolds, Met, PutsLive
  <1>9. CASE q.kind = "save"
    BY <1>2, <1>4, <1>9 DEF PlanOf, SaveHolds, Met
  <1>10. CASE q.kind = "enrol"
    <2>1. EnrolHolds(q)
      BY <1>2, <1>10 DEF PlanOf
    <2>2. ASSUME NEW u, IsMember(q.project, u)' PROVE IsMember(q.project, u)
      BY <1>10, <2>2 DEF PutsLive, IsMember
    <2> QED
      BY <1>2, <1>10, <2>1, <2>2 DEF PlanOf, EnrolHolds, Met, PutsLive
  <1>11. CASE q.kind \notin {"create", "rename", "delete", "destroy", "save", "enrol"}
    BY <1>2, <1>11 DEF PlanOf
  <1> QED
    BY <1>5, <1>6, <1>7, <1>8, <1>9, <1>10, <1>11

\* References survive a put.
LEMMA RefsUnderPut ==
    ASSUME IInv, NEW kind, NEW p, NEW met, Overlap(kind, p, met),
           NEW S, NEW row, PutsLive(kind, p, S, row)
    PROVE  Refs' /\ PlanRefs'
  <1>1. /\ There(files') = There(files) \cup S
        /\ Live' = Live \cup S
        /\ \A f \in Files : files'[f] = IF f \in S THEN row ELSE files[f]
        /\ Live \subseteq There(files) /\ There(files) \subseteq Files
        /\ \A f \in There(files) : files[f] # Unused
        /\ \A f \in Live : files[f] \in LiveRows
    BY PutsLiveIs DEF IInv
  <1>2. \A f : UsedFile(f) => UsedFile(f)'
    BY <1>1, RowsAre, LiveRowsAre DEF UsedFile, PutsLive
  <1>3. ASSUME NEW f, NEW x, UsedFile(f), f \in There(files) => files[f].project = x
        PROVE  UsedFile(f)' /\ (f \in There(files') => files'[f].project = x)
    BY <1>1, <1>2, <1>3 DEF PutsLive, UsedFile
  <1>a. ASSUME NEW f, NEW x, Own(f, x) PROVE Own(f, x)'
    <2>1. UsedFile(f)' /\ f \in Files /\ files[f] # Unused /\ files[f].project = x
      BY <1>2, <1>a DEF Own, UsedFile
    <2>2. files'[f].project = x
      BY <1>1, <2>1 DEF PutsLive
    <2> QED
      BY <2>1, <2>2 DEF Own
  <1>4. ASSUME NEW f \in There(files'), NEW x, x = files'[f].project PROVE Used(x)'
    <2>1. CASE f \in S
      <3>1. x = p
        BY <1>1, <1>4, <2>1 DEF PutsLive
      <3> QED
        BY <3>1 DEF PutsLive
    <2>2. CASE f \notin S
      <3>1. f \in There(files) /\ x = files[f].project
        BY <1>1, <1>4, <2>2
      <3>2. Used(x)
        BY <3>1 DEF IInv, Refs
      <3> QED
        BY <3>2 DEF PutsLive
    <2> QED
      BY <2>1, <2>2
  <1>5. ASSUME NEW m \in There(members'), NEW x, x = members'[m].project PROVE Used(x)'
    <2>1. CASE x = p
      BY <2>1 DEF PutsLive
    <2>2. CASE x # p
      <3>1. m \in There(members) /\ x = members[m].project
        BY <1>5, <2>2 DEF PutsLive
      <3>2. Used(x)
        BY <3>1 DEF IInv, Refs
      <3> QED
        BY <3>2 DEF PutsLive
    <2> QED
      BY <2>1, <2>2
  <1>6. ASSUME NEW f \in Live', files'[f].parent # None, NEW h, h = files'[f].parent
        PROVE  UsedFile(h)' /\ (h \in There(files') => files'[h].project = files'[f].project)
    <2>1. CASE f \in S
      <3>1. Points(row.parent, p) /\ row.project = p /\ f \in Files
        BY <2>1 DEF PutsLive
      <3> QED
        BY <1>1, <1>3, <1>6, <2>1, <3>1 DEF Points
    <2>2. CASE f \notin S
      <3>1. f \in Live /\ files'[f] = files[f]
        BY <1>1, <2>2
      <3> QED
        BY <1>3, <1>6, <3>1 DEF IInv, Refs
    <2> QED
      BY <2>1, <2>2
  <1>7. ASSUME NEW n \in Pending' PROVE RefsOf(n)'
    <2>1. PICK q \in Pending : Follows(n, q, kind, p)
      BY DEF Overlap
    <2>2. RefsOf(q) /\ n.kind = q.kind /\ n.project = q.project /\ n.writes = q.writes
      BY <2>1 DEF Follows, IInv, PlanRefs
    <2>3. \A f, x : Own(f, x) => Own(f, x)'
      BY <1>a
    <2>4. \A f, x : Points(f, x) => Points(f, x)'
      BY <1>3 DEF Points
    <2>5. \A x : Used(x) => Used(x)'
      BY DEF PutsLive
    <2> HIDE DEF Own, Points, Used
    <2> QED
      BY <2>2, <2>3, <2>4, <2>5 DEF RefsOf
  <1> QED
    BY <1>4, <1>5, <1>6, <1>7 DEF Refs, PlanRefs

\* The tree survives a put of a row that fits.
LEMMA TreeUnderPut ==
    ASSUME IInv, NEW kind, NEW p, NEW met, Overlap(kind, p, met),
           NEW S, NEW row, PutsLive(kind, p, S, row),
           \/ Fits(row)
           \/ p \in There(projects') /\ row.parent = None
           \/ <<"tree", p>> \in races'
    PROVE  TreeIsWhole'
  <1>1. /\ There(files') = There(files) \cup S
        /\ Live' = Live \cup S
        /\ \A f \in Files : files'[f] = IF f \in S THEN row ELSE files[f]
        /\ Live \subseteq There(files) /\ There(files) \subseteq Files
        /\ \A f \in There(files) : files[f] # Unused
        /\ \A f \in Live : files[f] \in LiveRows
    BY PutsLiveIs DEF IInv
  <1>2. races \subseteq races' /\ There(projects) \subseteq There(projects') /\ row.project = p
        /\ S \subseteq Files
    BY DEF Overlap, PutsLive
  <1>3. ASSUME <<"tree", p>> \notin races', NEW h \in Live
        PROVE  /\ h \in Live' /\ files'[h].type = files[h].type
               /\ files'[h].project = files[h].project
    BY <1>1, <1>3, LiveRowsAre DEF PutsLive
  <1>4. ASSUME NEW h \in Live, files[h].project # p
        PROVE  h \in Live' /\ files'[h] = files[h]
    BY <1>1, <1>4 DEF PutsLive
  <1>5. ASSUME NEW f \in Live', <<"tree", files'[f].project>> \notin races'
        PROVE  /\ files'[f].project \in There(projects')
               /\ files'[f].parent # None =>
                     /\ files'[f].parent \in Live'
                     /\ files'[files'[f].parent].type = "FOLDER"
                     /\ files'[files'[f].parent].project = files'[f].project
    <2>1. CASE f \in S
      <3>1. files'[f] = row
        BY <1>1, <1>2, <2>1
      <3> QED
        BY <1>2, <1>3, <1>5, <3>1 DEF Fits
    <2>2. CASE f \notin S
      <3>1. f \in Live /\ files'[f] = files[f]
        BY <1>1, <2>2
      <3> QED
        BY <1>2, <1>3, <1>4, <1>5, <3>1 DEF IInv, TreeIsWhole
    <2> QED
      BY <2>1, <2>2
  <1> QED
    BY <1>5 DEF TreeIsWhole

\* Names stay different under a put of a row whose name is free.
LEMMA NamesUnderPut ==
    ASSUME IInv, NEW kind, NEW p, NEW met, Overlap(kind, p, met),
           NEW S, NEW row, PutsLive(kind, p, S, row), Single(S),
           (\A g \in Live \ S : ~Same(g, row)) \/ <<"names", p>> \in races'
    PROVE  NamesDiffer'
  <1>1. /\ Live' = Live \cup S
        /\ \A f \in Files : files'[f] = IF f \in S THEN row ELSE files[f]
        /\ Live \subseteq Files /\ S \subseteq Files /\ row.project = p
        /\ races \subseteq races'
    <2>1. /\ Live' = Live \cup S
          /\ \A f \in Files : files'[f] = IF f \in S THEN row ELSE files[f]
          /\ Live \subseteq Files
      BY PutsLiveIs DEF IInv
    <2> QED
      BY <2>1 DEF PutsLive, Overlap
  <1>2. ASSUME NEW f \in Live', NEW g \in Live', f # g, <<"names", files'[f].project>> \notin races'
        PROVE  <<files'[f].project, files'[f].parent, files'[f].name>>
                  # <<files'[g].project, files'[g].parent, files'[g].name>>
    <2>1. CASE f \in S
      BY <1>1, <1>2, <2>1 DEF Single, Same
    <2>2. CASE f \notin S /\ g \in S
      <3> SUFFICES ASSUME files'[f].project = files'[g].project, files'[f].parent = files'[g].parent,
                          files'[f].name = files'[g].name
                   PROVE  FALSE
        OBVIOUS
      <3>1. files'[g] = row /\ files'[f] = files[f] /\ f \in Live \ S
        BY <1>1, <1>2, <2>2
      <3> QED
        BY <1>1, <1>2, <3>1 DEF Same
    <2>3. CASE f \notin S /\ g \notin S
      BY <1>1, <1>2, <2>3 DEF IInv, NamesDiffer
    <2> QED
      BY <2>1, <2>2, <2>3
  <1> QED
    BY <1>2 DEF NamesDiffer

\* Contents stay those of live files under a put.
LEMMA ContentsUnderPut ==
    ASSUME IInv, NEW kind, NEW p, NEW met, Overlap(kind, p, met),
           NEW S, NEW row, PutsLive(kind, p, S, row)
    PROVE  ContentIsOfLive'
  <1>1. /\ Live' = Live \cup S /\ races \subseteq races' /\ contents' = contents
        /\ \A f \in Files \ S : files'[f] = files[f]
    <2>1. Live' = Live \cup S /\ \A f \in Files \ S : files'[f] = files[f]
      BY PutsLiveIs DEF IInv
    <2> QED
      BY <2>1 DEF Overlap, PutsLive
  <1>2. \A k \in There(contents) : contents[k].file \in Files
    BY StoredIs, OtherRowsAre DEF IInv
  <1> QED
    BY <1>1, <1>2 DEF IInv, ContentIsOfLive

\* The part of Shape that every write keeps.
LEMMA ShapeOn ==
    ASSUME NEW kind, NEW p, NEW met, Overlap(kind, p, met),
           projects' \in [Projects -> {Unused, Gone} \cup ProjectRows],
           members' \in [Members -> {Unused} \cup MemberRows],
           files' \in [Files -> {Unused} \cup GoneFiles \cup FileRows],
           contents' \in [Contents -> {Unused} \cup ContentRows]
    PROVE  Shape'
  BY DEF Shape, Overlap

\* A creation keeps the invariant.
LEMMA CreateStep ==
    ASSUME IInv, NEW r \in Requests, Commit(r), request[r].kind = "create"
    PROVE  IInv'
  <1> DEFINE q == request[r]
             w == q.writes
             p == q.project
             row == w.file
  <1>1. q \in Pending /\ Overlap("create", p, q.met)
    BY CommitOverlaps DEF IInv
  <1>2. row \in LiveRows /\ row.project = p /\ UNCHANGED <<projects, members, contents>>
    BY CreateCommit DEF IInv
  <1>3. PICK new : /\ new \subseteq {f \in Files : files[f] = Unused} /\ Single(new)
                   /\ files' = [f \in Files |-> IF f \in new THEN row ELSE files[f]]
    BY CreateCommit DEF IInv
  <1>4. CreateHolds(q) /\ Points(row.parent, p) /\ Used(p)
    BY <1>1 DEF IInv, Plans, PlanOf, PlanRefs, RefsOf
  <1> HIDE DEF row, p, w, q
  <1>5. new \cap Live = {}
    BY <1>3, StoredIs, RowsAre, LiveRowsAre DEF IInv
  <1>6. \A x : Used(x) => Used(x)'
    BY <1>2 DEF Used
  <1>7. PutsLive("create", p, new, row)
    BY <1>2, <1>3, <1>4, <1>5, <1>6 DEF PutsLive
  <1>8. Fits(row) \/ <<"tree", p>> \in races'
    BY <1>1, <1>4, UnsafeIs DEF CreateHolds, Met, Overlap, row, w, p
  <1>9. (\A g \in Live \ new : ~Same(g, row)) \/ <<"names", p>> \in races'
    BY <1>1, <1>4, UnsafeIs DEF CreateHolds, Met, Overlap, row, w
  <1>10. TreeIsWhole'
    BY <1>1, <1>7, <1>8, TreeUnderPut
  <1>11. NamesDiffer'
    BY <1>1, <1>3, <1>7, <1>9, NamesUnderPut
  <1>12. ContentIsOfLive'
    BY <1>1, <1>7, ContentsUnderPut
  <1>13. MemberOnce'
    BY <1>1, <1>2 DEF IInv, MemberOnce, Overlap
  <1>14. Refs' /\ PlanRefs'
    BY <1>1, <1>7, RefsUnderPut
  <1>15. Plans'
    BY <1>1, <1>7, PlansUnderPut DEF Plans
  <1>16. files' \in [Files -> {Unused} \cup GoneFiles \cup FileRows]
    BY <1>2, <1>3, FilesSet DEF IInv
  <1>17. Shape'
    BY <1>1, <1>2, <1>16, ShapeOn DEF IInv, Shape
  <1> QED
    BY <1>10, <1>11, <1>12, <1>13, <1>14, <1>15, <1>17 DEF IInv

\* A renaming keeps the invariant.
LEMMA RenameStep ==
    ASSUME IInv, NEW r \in Requests, Commit(r), request[r].kind = "rename"
    PROVE  IInv'
  <1> DEFINE q == request[r]
             w == q.writes
             p == q.project
  <1>1. q \in Pending /\ Overlap("rename", p, q.met)
    BY CommitOverlaps DEF IInv
  <1>2. UNCHANGED <<projects, members, contents>>
    BY RenameCommit DEF IInv
  <1>3. PICK f \in There(files) :
           /\ DOMAIN w.puts = {f} /\ w.puts[f] \in LiveRows /\ w.puts[f].project = p
           /\ files' = [g \in Files |-> IF g \in {f} THEN w.puts[f] ELSE files[g]]
    BY RenameCommit DEF IInv
  <1> DEFINE row == w.puts[f]
  <1>4. RenameHolds(q) /\ Own(f, p) /\ Points(row.parent, p) /\ Used(p)
    BY <1>1, <1>3 DEF IInv, Plans, PlanOf, PlanRefs, RefsOf
  <1>5. /\ \/ Met(q, {"delete", "destroy"}) \/ <<"tree", p>> \in races
           \/ f \in Live /\ row = [files[f] EXCEPT !.name = row.name]
        /\ Met(q, {"create", "rename"}) \/ \A g \in Live \ {f} : ~Same(g, row)
    BY <1>3, <1>4 DEF RenameHolds
  <1> HIDE DEF row, p, w, q
  <1>6. \A x : Used(x) => Used(x)'
    BY <1>2 DEF Used
  <1>7. races \subseteq races' /\ (Met(q, {"delete", "destroy"}) => <<"tree", p>> \in races')
        /\ (Met(q, {"create", "rename"}) => <<"names", p>> \in races')
    BY <1>1, UnsafeIs DEF Met, Overlap
  <1>8. PutsLive("rename", p, {f}, row)
    <2>1. f \in Files /\ files[f].project = p
      BY <1>4 DEF Own, UsedFile
    <2>2. f \in Live => row = [files[f] EXCEPT !.name = row.name] \/ <<"tree", p>> \in races'
      BY <1>5, <1>7
    <2> QED
      BY <1>2, <1>3, <1>4, <1>6, <2>1, <2>2 DEF PutsLive, row
  <1>9. Fits(row) \/ <<"tree", p>> \in races'
    <2> SUFFICES ASSUME <<"tree", p>> \notin races' PROVE Fits(row)
      OBVIOUS
    <2>1. f \in Live /\ row = [files[f] EXCEPT !.name = row.name]
      BY <1>5, <1>7
    <2>2. files[f] \in LiveRows
      BY <2>1, StoredIs DEF IInv
    <2>3. row.project = files[f].project /\ row.parent = files[f].parent
      BY <2>1, <2>2, LiveRowsAre
    <2>4. row.project = p
      BY <1>3 DEF row
    <2> QED
      BY <1>7, <2>1, <2>3, <2>4 DEF Fits, IInv, TreeIsWhole
  <1>10. TreeIsWhole'
    BY <1>1, <1>8, <1>9, TreeUnderPut
  <1>11. NamesDiffer'
    BY <1>1, <1>5, <1>7, <1>8, NamesUnderPut DEF Single
  <1>12. ContentIsOfLive'
    BY <1>1, <1>8, ContentsUnderPut
  <1>13. MemberOnce'
    BY <1>1, <1>2 DEF IInv, MemberOnce, Overlap
  <1>14. Refs' /\ PlanRefs'
    BY <1>1, <1>8, RefsUnderPut
  <1>15. Plans'
    BY <1>1, <1>8, PlansUnderPut DEF Plans
  <1>16. files' \in [Files -> {Unused} \cup GoneFiles \cup FileRows]
    <2>1. {f} \in SUBSET Files
      BY StoredIs DEF IInv
    <2> QED
      BY <1>3, <2>1, FilesSet DEF IInv
  <1>17. Shape'
    BY <1>1, <1>2, <1>16, ShapeOn DEF IInv, Shape
  <1> QED
    BY <1>10, <1>11, <1>12, <1>13, <1>14, <1>15, <1>17 DEF IInv

\* The creation of a project keeps the invariant.
LEMMA FoundStep ==
    ASSUME IInv, NEW r \in Requests, Commit(r), request[r].kind = "found"
    PROVE  IInv'
  <1> DEFINE q == request[r]
             w == q.writes
             p == q.project
             row == w.file
  <1>1. q \in Pending /\ Overlap("found", p, q.met)
    BY CommitOverlaps DEF IInv
  <1>2. /\ row \in LiveRows /\ row.project = p /\ row.parent = None
        /\ w.code \in Codes /\ p \in Projects /\ projects[p] = Unused
        /\ UNCHANGED contents
        /\ projects' = [x \in Projects |-> IF x = p THEN [row |-> "there", code |-> w.code]
                                           ELSE projects[x]]
    BY FoundCommit DEF IInv
  <1>3. PICK new : /\ new \subseteq {f \in Files : files[f] = Unused} /\ Single(new)
                   /\ files' = [f \in Files |-> IF f \in new THEN row ELSE files[f]]
    BY FoundCommit DEF IInv
  <1>4. PICK u \in Users : \E ids :
           /\ ids \subseteq {m \in Members : members[m] = Unused} /\ Single(ids)
           /\ members' = [m \in Members |->
                 IF m \in ids THEN [row |-> "there", project |-> p, user |-> u] ELSE members[m]]
    BY FoundCommit DEF IInv
  <1>5. PICK ids :
           /\ ids \subseteq {m \in Members : members[m] = Unused} /\ Single(ids)
           /\ members' = [m \in Members |->
                 IF m \in ids THEN [row |-> "there", project |-> p, user |-> u] ELSE members[m]]
    BY <1>4
  <1> HIDE DEF row, p, w, q
  <1>6. [row |-> "there", code |-> w.code] \in ProjectRows
        /\ [row |-> "there", project |-> p, user |-> u] \in MemberRows
    BY <1>2 DEF ProjectRows, MemberRows
  <1>7. /\ projects' \in [Projects -> {Unused, Gone} \cup ProjectRows]
        /\ members' \in [Members -> {Unused} \cup MemberRows]
    BY <1>2, <1>5, <1>6 DEF IInv, Shape
  <1>8. There(projects') = {x \in Projects : projects'[x] \in ProjectRows}
        /\ There(members') = {m \in Members : members'[m] \in MemberRows}
    BY <1>7, StoredProjects, StoredMembers
  <1>9. There(projects') = There(projects) \cup {p}
    BY <1>2, <1>6, <1>8, StoredIs DEF IInv
  <1>10. There(members') = There(members) \cup ids
    BY <1>5, <1>6, <1>8, StoredIs DEF IInv
  <1>11. /\ \A m \in ids : members'[m] = [row |-> "there", project |-> p, user |-> u]
         /\ \A m \in There(members) : m \notin ids /\ members'[m] = members[m]
    BY <1>5, StoredIs, OtherRowsAre DEF IInv
  <1>12. ~Used(p)
    BY <1>2 DEF Used
  <1>13. \A x : Used(x) \/ x = p => Used(x)'
    <2>1. projects'[p] # Unused
      BY <1>2 DEF Unused
    <2>2. \A x \in Projects : projects[x] # Unused => projects'[x] # Unused
      BY <1>2, <2>1
    <2> QED
      BY <1>2, <2>1, <2>2 DEF Used
  <1>14. new \cap Live = {}
    BY <1>3, StoredIs, RowsAre, LiveRowsAre DEF IInv
  <1>15. Points(row.parent, p)
    BY <1>2 DEF Points
  <1>16. \A x \in Pending : x.kind # "found" => x.project # p
    BY <1>12 DEF IInv, PlanRefs, RefsOf
  <1>17. PutsLive("found", p, new, row)
    <2>1. \A m \in There(members') :
             members'[m].project # p => m \in There(members) /\ members'[m] = members[m]
      BY <1>10, <1>11
    <2> QED
      BY <1>2, <1>3, <1>9, <1>13, <1>14, <1>15, <1>16, <2>1 DEF PutsLive
  <1>18. TreeIsWhole'
    BY <1>1, <1>2, <1>9, <1>17, TreeUnderPut
  <1>19. NamesDiffer'
    <2>1. \A g \in Live : files[g].project # p
      BY <1>12 DEF IInv, Refs, Live
    <2>2. \A g \in Live \ new : ~Same(g, row)
      BY <1>2, <2>1 DEF Same
    <2> QED
      BY <1>1, <1>3, <1>17, <2>2, NamesUnderPut
  <1>20. ContentIsOfLive'
    BY <1>1, <1>17, ContentsUnderPut
  <1>21. MemberOnce'
    <2>1. \A m \in There(members) : members[m].project # p
      BY <1>12 DEF IInv, Refs
    <2>2. races \subseteq races'
      BY <1>1 DEF Overlap
    <2> QED
      BY <1>9, <1>10, <1>11, <1>5, <2>1, <2>2 DEF IInv, MemberOnce, Single
  <1>22. Refs' /\ PlanRefs'
    BY <1>1, <1>17, RefsUnderPut
  <1>23. Plans'
    BY <1>1, <1>17, PlansUnderPut DEF Plans
  <1>24. files' \in [Files -> {Unused} \cup GoneFiles \cup FileRows]
    BY <1>2, <1>3, FilesSet DEF IInv
  <1>25. Shape'
    BY <1>1, <1>2, <1>7, <1>24, ShapeOn DEF IInv, Shape
  <1> QED
    BY <1>18, <1>19, <1>20, <1>21, <1>22, <1>23, <1>25 DEF IInv

\* A request of the kind takes away files D of project p, so that they are
\* rows of deleted files or gone, and rows of content and of members.
TakesAway(kind, p, D, C, M) ==
    /\ D \subseteq There(files)
    /\ \A f \in D : Own(f, p)
    /\ \A f \in Files \ D : files'[f] = files[f]
    /\ \/ /\ kind = "delete" /\ UNCHANGED <<projects, members>>
          /\ \A f \in D : files'[f] = [row |-> "there", project |-> p, deleted |-> TRUE]
       \/ /\ kind = "destroy"
          /\ projects' = [x \in Projects |-> IF x = p THEN Gone ELSE projects[x]]
          /\ members' = [m \in Members |-> IF m \in M THEN Unused ELSE members[m]]
          /\ \A f \in D : files'[f] = GoneFrom(p)
    /\ contents' = [k \in Contents |-> IF k \in C THEN Unused ELSE contents[k]]
    /\ files' = [f \in Files |-> files'[f]]
    /\ p \in Projects

\* The row of a deleted file.
LEMMA DeadRow ==
    ASSUME NEW p \in Projects, NEW row, row = [row |-> "there", project |-> p, deleted |-> TRUE]
    PROVE  row \in FileRows /\ row \notin LiveRows /\ row # Unused
  BY DEF FileRows, LiveRows, Unused

\* The files after a deletion.
LEMMA TakesAwayIs ==
    ASSUME Shape, NEW kind, NEW p, NEW D, NEW C, NEW M, TakesAway(kind, p, D, C, M)
    PROVE  /\ files' \in [Files -> {Unused} \cup GoneFiles \cup FileRows]
           /\ contents' \in [Contents -> {Unused} \cup ContentRows]
           /\ members' \in [Members -> {Unused} \cup MemberRows]
           /\ projects' \in [Projects -> {Unused, Gone} \cup ProjectRows]
           /\ There(files') \subseteq There(files)
           /\ kind = "destroy" => D \cap There(files') = {}
           /\ Live' = Live \ D
           /\ \A f \in Live' : files'[f] = files[f]
           /\ \A f \in There(files') : files'[f].project = files[f].project
           /\ \A f \in D : files[f].project = p /\ files'[f].project = p
           /\ \A f \in Files \ D : files'[f] = files[f]
           /\ \A f \in Files : files'[f] # Unused <=> files[f] # Unused
           /\ \A x \in Projects : projects[x] # Unused => projects'[x] # Unused
           /\ \A x \in There(projects) : x \in There(projects') \/ (x = p /\ kind = "destroy")
           /\ There(contents') = There(contents) \ C
           /\ \A k \in There(contents') : contents'[k] = contents[k]
           /\ There(members') = There(members) \ (IF kind = "destroy" THEN M ELSE {})
           /\ \A m \in There(members') : members'[m] = members[m]
  <1>0. /\ D \subseteq There(files) /\ There(files) = {f \in Files : files[f] \in FileRows}
        /\ Live = {f \in Files : files[f] \in LiveRows} /\ kind \in {"delete", "destroy"}
    BY StoredIs DEF TakesAway
  <1>1. \A f \in D : files[f].project = p
    BY <1>0 DEF TakesAway, Own
  <1>2. \A f \in D : /\ files'[f] \in GoneFiles \cup FileRows /\ files'[f] \notin LiveRows
                     /\ files'[f] # Unused /\ files'[f].project = p
                     /\ kind = "destroy" => files'[f] \notin FileRows
    <2>1. CASE kind = "delete"
      <3>1. p \in Projects /\ \A f \in D : files'[f] = [row |-> "there", project |-> p, deleted |-> TRUE]
        BY <2>1 DEF TakesAway
      <3> QED
        BY <2>1, <3>1, DeadRow
    <2>2. CASE kind = "destroy"
      <3>1. p \in Projects /\ \A f \in D : files'[f] = GoneFrom(p)
        BY <2>2 DEF TakesAway
      <3>2. /\ GoneFrom(p) \in GoneFiles /\ GoneFrom(p).project = p
            /\ GoneFrom(p) \notin LiveRows /\ GoneFrom(p) \notin FileRows
            /\ GoneFrom(p) # Unused
        BY <3>1, RowsAre, LiveRowsAre
      <3> QED
        BY <3>1, <3>2
    <2> QED
      BY <1>0, <2>1, <2>2
  <1>3. \A f \in Files \ D : files'[f] = files[f]
    BY DEF TakesAway
  <1>4. files' = [f \in Files |-> files'[f]]
    BY DEF TakesAway
  <1>5. files' \in [Files -> {Unused} \cup GoneFiles \cup FileRows]
    <2>1. \A f \in Files : files'[f] \in {Unused} \cup GoneFiles \cup FileRows
      BY <1>2, <1>3 DEF Shape
    <2> QED
      BY <1>4, <2>1
  <1>6. There(files') = {f \in Files : files'[f] \in FileRows}
    BY <1>5, StoredFiles
  <1>7. There(files') \subseteq There(files) /\ (kind = "destroy" => D \cap There(files') = {})
    BY <1>0, <1>2, <1>3, <1>6
  <1>8. Live' = {f \in Files : files'[f] \in LiveRows}
    <2>1. Live' = {f \in There(files') : ~files'[f].deleted}
      BY DEF Live
    <2> QED
      BY <1>6, <2>1, RowsAre, LiveRowsAre
  <1>9. Live' = Live \ D
    BY <1>0, <1>2, <1>3, <1>8
  <1>10. \A f \in There(files') : files'[f].project = files[f].project
    BY <1>0, <1>1, <1>2, <1>3, <1>6
  <1>11. \A f \in Files : files'[f] # Unused <=> files[f] # Unused
    BY <1>0, <1>2, <1>3, RowsAre
  <1>12. contents' = [k \in Contents |-> IF k \in C THEN Unused ELSE contents[k]]
    BY DEF TakesAway
  <1>13. contents' \in [Contents -> {Unused} \cup ContentRows]
    BY <1>12 DEF Shape
  <1>14. There(contents') = {k \in Contents : contents'[k] \in ContentRows}
    BY <1>13, StoredContents
  <1>15. There(contents') = There(contents) \ C /\ \A k \in There(contents') : contents'[k] = contents[k]
    BY <1>12, <1>14, StoredIs, OtherRowsAre
  <1>16. /\ members' \in [Members -> {Unused} \cup MemberRows]
         /\ There(members') = There(members) \ (IF kind = "destroy" THEN M ELSE {})
         /\ \A m \in There(members') : members'[m] = members[m]
    <2>1. CASE kind = "delete"
      BY <2>1 DEF TakesAway, Shape
    <2>2. CASE kind = "destroy"
      <3>1. members' = [m \in Members |-> IF m \in M THEN Unused ELSE members[m]]
        BY <2>2 DEF TakesAway
      <3>2. members' \in [Members -> {Unused} \cup MemberRows]
        BY <3>1 DEF Shape
      <3>3. There(members') = {m \in Members : members'[m] \in MemberRows}
        BY <3>2, StoredMembers
      <3> QED
        BY <2>2, <3>1, <3>2, <3>3, StoredIs, OtherRowsAre
    <2> QED
      BY <1>0, <2>1, <2>2
  <1>17. /\ projects' \in [Projects -> {Unused, Gone} \cup ProjectRows]
         /\ \A x \in Projects : projects[x] # Unused => projects'[x] # Unused
         /\ \A x \in There(projects) : x \in There(projects') \/ (x = p /\ kind = "destroy")
    <2>1. CASE kind = "delete"
      BY <2>1 DEF TakesAway, Shape
    <2>2. CASE kind = "destroy"
      <3>1. projects' = [x \in Projects |-> IF x = p THEN Gone ELSE projects[x]]
        BY <2>2 DEF TakesAway
      <3>2. projects' \in [Projects -> {Unused, Gone} \cup ProjectRows]
        BY <3>1 DEF Shape
      <3>3. There(projects') = {m \in Projects : projects'[m] \in ProjectRows}
        BY <3>2, StoredProjects
      <3> QED
        BY <2>2, <3>1, <3>2, <3>3, StoredIs, RowsAre
    <2> QED
      BY <1>0, <2>1, <2>2
  <1> QED
    BY <1>0, <1>1, <1>2, <1>3, <1>5, <1>7, <1>9, <1>10, <1>11, <1>13, <1>15, <1>16, <1>17

\* References survive a deletion.
LEMMA RefsUnderTake ==
    ASSUME IInv, NEW kind, NEW p, NEW met, Overlap(kind, p, met),
           NEW D, NEW C, NEW M, TakesAway(kind, p, D, C, M)
    PROVE  Refs' /\ PlanRefs'
  <1>1. /\ There(files') \subseteq There(files) /\ Live' \subseteq Live
        /\ \A f \in Live' : files'[f] = files[f]
        /\ \A f \in There(files') : files'[f].project = files[f].project
        /\ \A f \in Files : files'[f] # Unused <=> files[f] # Unused
        /\ \A f \in D : files[f].project = p /\ files'[f].project = p
        /\ \A f \in Files \ D : files'[f] = files[f]
        /\ \A x \in Projects : projects[x] # Unused => projects'[x] # Unused
        /\ There(members') \subseteq There(members)
        /\ \A m \in There(members') : members'[m] = members[m]
    BY TakesAwayIs DEF IInv
  <1>2. \A x : Used(x) => Used(x)'
    BY <1>1 DEF Used
  <1>3. \A f, x : Own(f, x) => Own(f, x)'
    BY <1>1 DEF Own, UsedFile
  <1>4. \A f, x : Points(f, x) => Points(f, x)'
    BY <1>1 DEF Points, UsedFile
  <1>5. \A f \in There(files') : Used(files[f].project)
    BY <1>1 DEF IInv, Refs
  <1>6. \A m \in There(members') : Used(members[m].project)
    BY <1>1 DEF IInv, Refs
  <1>7. ASSUME NEW f \in Live', files'[f].parent # None, NEW h, h = files'[f].parent
        PROVE  UsedFile(h)' /\ (h \in There(files') => files'[h].project = files'[f].project)
    BY <1>1, <1>7 DEF UsedFile, IInv, Refs
  <1>8. Refs'
    <2>1. ASSUME NEW f \in There(files'), NEW x, x = files'[f].project PROVE Used(x)'
      BY <1>1, <1>2, <1>5, <2>1
    <2>2. ASSUME NEW m \in There(members'), NEW x, x = members'[m].project PROVE Used(x)'
      BY <1>1, <1>2, <1>6, <2>2
    <2> QED
      BY <1>7, <2>1, <2>2 DEF Refs
  <1>9. ASSUME NEW n \in Pending' PROVE RefsOf(n)'
    <2>1. PICK q \in Pending : Follows(n, q, kind, p)
      BY DEF Overlap
    <2>2. RefsOf(q) /\ n.kind = q.kind /\ n.project = q.project /\ n.writes = q.writes
      BY <2>1 DEF Follows, IInv, PlanRefs
    <2> HIDE DEF Own, Points, Used
    <2> QED
      BY <1>2, <1>3, <1>4, <2>2 DEF RefsOf
  <1> QED
    BY <1>8, <1>9 DEF PlanRefs

\* The plans of the other requests survive a deletion, or have met it.
LEMMA PlansUnderTake ==
    ASSUME IInv, NEW kind, NEW p, NEW met, Overlap(kind, p, met),
           NEW D, NEW C, NEW M, TakesAway(kind, p, D, C, M), NEW n \in Pending'
    PROVE  PlanOf(n)'
  <1>1. PICK q \in Pending : Follows(n, q, kind, p)
    BY DEF Overlap
  <1>2. /\ Shaped(q) /\ RefsOf(q) /\ PlanOf(q)
        /\ n.kind = q.kind /\ n.project = q.project /\ n.writes = q.writes /\ q.met \subseteq n.met
        /\ races \subseteq races'
    BY <1>1 DEF Overlap, Follows, IInv, Shape, PlanRefs, Plans
  <1>3. /\ kind \in {"delete", "destroy"}
        /\ \A f \in D : f \in There(files) /\ files[f].project = p
        /\ \A f \in Files \ D : files'[f] = files[f]
    BY DEF TakesAway, Own
  <1>4. /\ q.project = p /\ q.kind \in {"create", "rename", "save"} => kind \in n.met
        /\ q.project = p /\ q.kind = "enrol" /\ kind = "destroy" => kind \in n.met
    BY <1>1, <1>3, MeetsIs DEF Follows
  <1>5. /\ There(files') \subseteq There(files)
        /\ kind = "destroy" => D \cap There(files') = {}
        /\ Live' = Live \ D /\ Live \subseteq There(files) /\ There(files) \subseteq Files
        /\ \A f \in Live' : files'[f] = files[f]
        /\ \A x \in There(projects) : x \in There(projects') \/ (x = p /\ kind = "destroy")
        /\ There(contents') \subseteq There(contents)
        /\ \A k \in There(contents') : contents'[k] = contents[k]
        /\ There(members') \subseteq There(members)
        /\ \A m \in There(members') : members'[m] = members[m]
    BY TakesAwayIs, StoredIs, LiveRowsAre DEF IInv
  <1>6. CASE q.kind = "create"
    <2>1. CreateHolds(q) /\ q.writes.file.project = q.project
      BY <1>2, <1>6 DEF PlanOf, Shaped
    <2>2. ASSUME Fits(q.writes.file), q.project # p PROVE Fits(q.writes.file)'
      BY <1>3, <1>5, <2>1, <2>2 DEF Fits
    <2>3. ASSUME NEW g \in Live', Same(g, q.writes.file)' PROVE g \in Live /\ Same(g, q.writes.file)
      BY <1>5, <2>3 DEF Same
    <2> QED
      BY <1>2, <1>3, <1>4, <1>6, <2>1, <2>2, <2>3 DEF PlanOf, CreateHolds, Met
  <1>7. CASE q.kind = "rename"
    <2>1. RenameHolds(q) /\ \A f \in DOMAIN q.writes.puts : Own(f, q.project)
      BY <1>2, <1>7 DEF PlanOf, RefsOf
    <2>2. ASSUME NEW f \in DOMAIN q.writes.puts, q.project # p, f \in There(files) PROVE f \notin D
      BY <1>3, <2>1, <2>2 DEF Own
    <2>3. ASSUME NEW f \in DOMAIN q.writes.puts, ~Met(n, {"delete", "destroy"}), f \in Live
          PROVE  f \in Live' /\ files'[f] = files[f]
      BY <1>2, <1>3, <1>4, <1>5, <1>7, <2>2, <2>3 DEF Met
    <2>4. ASSUME NEW f \in DOMAIN q.writes.puts, ~Met(n, {"delete"}),
                 f \notin There(files) \/ f \in Live
          PROVE  f \notin There(files') \/ f \in Live'
      BY <1>2, <1>3, <1>4, <1>5, <1>7, <2>2, <2>4 DEF Met
    <2>5. ASSUME ~Met(n, {"create", "rename"}), NEW f \in DOMAIN q.writes.puts,
                 NEW g \in Live' \ {f}, Same(g, q.writes.puts[f])'
          PROVE  FALSE
      <3>1. g \in Live \ {f} /\ Same(g, q.writes.puts[f])
        BY <1>5, <2>5 DEF Same
      <3> QED
        BY <1>2, <2>1, <2>5, <3>1 DEF RenameHolds, Met
    <2>6. ASSUME NEW f \in DOMAIN q.writes.puts
          PROVE  /\ \/ Met(n, {"delete", "destroy"}) \/ <<"tree", q.project>> \in races'
                    \/ f \in Live' /\ q.writes.puts[f] = [files'[f] EXCEPT !.name = q.writes.puts[f].name]
                 /\ Met(n, {"delete"}) \/ f \notin There(files') \/ f \in Live'
      <3>1. /\ \/ Met(q, {"delete", "destroy"}) \/ <<"tree", q.project>> \in races
               \/ f \in Live /\ q.writes.puts[f] = [files[f] EXCEPT !.name = q.writes.puts[f].name]
            /\ Met(q, {"delete"}) \/ f \notin There(files) \/ f \in Live
        BY <2>1 DEF RenameHolds
      <3> QED
        BY <1>2, <2>3, <2>4, <3>1 DEF Met
    <2> QED
      BY <1>2, <1>7, <2>1, <2>5, <2>6 DEF PlanOf, RenameHolds, Met
  <1>8. CASE q.kind = "delete"
    <2>1. DeleteHolds(q)
      BY <1>2, <1>8 DEF PlanOf
    <2> QED
      BY <1>2, <1>5, <1>8, <2>1 DEF PlanOf, DeleteHolds, Met
  <1>9. CASE q.kind = "destroy"
    <2>1. DestroyHolds(q)
      BY <1>2, <1>9 DEF PlanOf
    <2> QED
      BY <1>2, <1>5, <1>9, <2>1 DEF PlanOf, DestroyHolds, Met
  <1>10. CASE q.kind = "save"
    <2>1. SaveHolds(q) /\ Own(q.writes.content, q.project)
      BY <1>2, <1>10 DEF PlanOf, RefsOf
    <2> QED
      BY <1>2, <1>3, <1>4, <1>5, <1>10, <2>1 DEF PlanOf, SaveHolds, Met, Own
  <1>11. CASE q.kind = "enrol"
    <2>1. EnrolHolds(q)
      BY <1>2, <1>11 DEF PlanOf
    <2>2. ASSUME NEW u, IsMember(q.project, u)' PROVE IsMember(q.project, u)
      BY <1>5, <2>2 DEF IsMember
    <2> QED
      BY <1>2, <1>4, <1>5, <1>11, <2>1, <2>2 DEF PlanOf, EnrolHolds, Met
  <1>12. CASE q.kind \notin {"create", "rename", "delete", "destroy", "save", "enrol"}
    BY <1>2, <1>12 DEF PlanOf
  <1> QED
    BY <1>6, <1>7, <1>8, <1>9, <1>10, <1>11, <1>12

\* Names stay different under a deletion.
LEMMA NamesUnderTake ==
    ASSUME IInv, NEW kind, NEW p, NEW met, Overlap(kind, p, met),
           NEW D, NEW C, NEW M, TakesAway(kind, p, D, C, M)
    PROVE  NamesDiffer'
  <1>1. Live' \subseteq Live /\ (\A f \in Live' : files'[f] = files[f]) /\ races \subseteq races'
    BY TakesAwayIs DEF IInv, Overlap
  <1> QED
    BY <1>1 DEF IInv, NamesDiffer

\* The tree survives a deletion that has every child of what it deletes.
LEMMA TreeUnderTake ==
    ASSUME IInv, NEW kind, NEW p, NEW met, Overlap(kind, p, met),
           NEW D, NEW C, NEW M, TakesAway(kind, p, D, C, M),
           <<"tree", p>> \notin races' =>
               /\ \A g \in Live : files[g].parent \in D => g \in D
               /\ kind = "destroy" => \A g \in Live : files[g].project = p => g \in D
    PROVE  TreeIsWhole'
  <1>1. /\ Live' = Live \ D /\ (\A f \in Live' : files'[f] = files[f]) /\ races \subseteq races'
        /\ \A x \in There(projects) : x \in There(projects') \/ (x = p /\ kind = "destroy")
        /\ Live \subseteq There(files)
    BY TakesAwayIs, StoredIs, LiveRowsAre DEF IInv, Overlap
  <1>2. \A f \in D : files[f].project = p
    BY DEF TakesAway, Own
  <1>3. ASSUME NEW f \in Live', <<"tree", files[f].project>> \notin races'
        PROVE  /\ files[f].project \in There(projects')
               /\ files[f].parent # None =>
                     /\ files[f].parent \in Live'
                     /\ files[files[f].parent].type = "FOLDER"
                     /\ files[files[f].parent].project = files[f].project
    <2>1. /\ files[f].project \in There(projects)
          /\ files[f].parent # None =>
                /\ files[f].parent \in Live
                /\ files[files[f].parent].type = "FOLDER"
                /\ files[files[f].parent].project = files[f].project
      BY <1>1, <1>3 DEF IInv, TreeIsWhole
    <2>2. files[f].project = p /\ kind = "destroy" => FALSE
      BY <1>1, <1>3
    <2>3. files[f].parent \in D => FALSE
      <3>1. \A h \in D : h # None
        BY StoredIs DEF TakesAway, IInv, None, Files
      <3> QED
        BY <1>1, <1>2, <1>3, <2>1, <3>1
    <2> QED
      BY <1>1, <2>1, <2>2, <2>3
  <1> QED
    BY <1>1, <1>3 DEF TreeIsWhole

\* Contents are of live files after a deletion that has all of them.
LEMMA ContentsUnderTake ==
    ASSUME IInv, NEW kind, NEW p, NEW met, Overlap(kind, p, met),
           NEW D, NEW C, NEW M, TakesAway(kind, p, D, C, M), p \in Projects,
           <<"contents", p>> \notin races' =>
               \A k \in There(contents) : contents[k].file \in D => k \in C
    PROVE  ContentIsOfLive'
  <1>1. /\ Live' = Live \ D /\ races \subseteq races'
        /\ There(contents') = There(contents) \ C
        /\ \A k \in There(contents') : contents'[k] = contents[k]
        /\ \A f \in D : files'[f].project = p
        /\ \A f \in Files \ D : files'[f] = files[f]
    BY TakesAwayIs DEF IInv, Overlap
  <1>2. \A k \in There(contents) : contents[k].file \in Files
    BY StoredIs, OtherRowsAre DEF IInv
  <1>3. ASSUME NEW k \in There(contents'), NEW f, f = contents'[k].file
        PROVE  f \in Live' \/ files'[f] = Unused \/ <<"contents", files'[f].project>> \in races'
    <2>1. k \in There(contents) /\ k \notin C /\ f = contents[k].file /\ f \in Files
      BY <1>1, <1>2, <1>3
    <2>2. CASE f \in D
      BY <1>1, <2>1, <2>2
    <2>3. CASE f \notin D
      BY <1>1, <2>1, <2>3 DEF IInv, ContentIsOfLive
    <2> QED
      BY <2>2, <2>3
  <1> QED
    BY <1>3 DEF ContentIsOfLive

\* A deletion of files keeps the invariant.
LEMMA DeleteStep ==
    ASSUME IInv, NEW r \in Requests, Commit(r), request[r].kind = "delete"
    PROVE  IInv'
  <1> DEFINE q == request[r]
             w == q.writes
             p == q.project
             D == DOMAIN w.puts
             C == w.dropContents
  <1>1. q \in Pending /\ Overlap("delete", p, q.met)
    BY CommitOverlaps DEF IInv
  <1>2. /\ UNCHANGED <<projects, members>> /\ D \subseteq There(files)
        /\ \A f \in D : w.puts[f] = [row |-> "there", project |-> p, deleted |-> TRUE]
        /\ files' = [f \in Files |-> IF f \in D THEN w.puts[f] ELSE files[f]]
        /\ contents' = [k \in Contents |-> IF k \in C THEN Unused ELSE contents[k]]
    BY DeleteCommit DEF IInv
  <1>3. DeleteHolds(q) /\ (\A f \in D : Own(f, p)) /\ p \in Projects
    BY <1>1 DEF IInv, Plans, PlanOf, PlanRefs, RefsOf, Shape, Shaped
  <1>4. /\ Met(q, {"create", "rename"}) \/ \A g \in Live : files[g].parent \in D => g \in D
        /\ Met(q, {"save", "type"}) \/ \A k \in There(contents) : contents[k].file \in D => k \in C
    BY <1>2, <1>3 DEF DeleteHolds
  <1> HIDE DEF q, w, p, D, C
  <1>5. TakesAway("delete", p, D, C, {})
    <2>1. D \subseteq Files
      BY <1>2, StoredIs DEF IInv
    <2> QED
      BY <1>2, <1>3, <2>1 DEF TakesAway
  <1>6. (Met(q, {"create", "rename"}) => <<"tree", p>> \in races')
        /\ (Met(q, {"save", "type"}) => <<"contents", p>> \in races') /\ races \subseteq races'
    BY <1>1, UnsafeIs DEF Met, Overlap
  <1>7. TreeIsWhole'
    BY <1>1, <1>4, <1>5, <1>6, TreeUnderTake
  <1>8. NamesDiffer'
    BY <1>1, <1>5, NamesUnderTake
  <1>9. ContentIsOfLive'
    BY <1>1, <1>3, <1>4, <1>5, <1>6, ContentsUnderTake
  <1>10. MemberOnce'
    BY <1>2, <1>6 DEF IInv, MemberOnce
  <1>11. Refs' /\ PlanRefs'
    BY <1>1, <1>5, RefsUnderTake
  <1>12. Plans'
    BY <1>1, <1>5, PlansUnderTake DEF Plans
  <1>13. /\ files' \in [Files -> {Unused} \cup GoneFiles \cup FileRows]
         /\ contents' \in [Contents -> {Unused} \cup ContentRows]
         /\ members' \in [Members -> {Unused} \cup MemberRows]
         /\ projects' \in [Projects -> {Unused, Gone} \cup ProjectRows]
    BY <1>5, TakesAwayIs DEF IInv
  <1>14. Shape'
    BY <1>1, <1>13, ShapeOn
  <1> QED
    BY <1>7, <1>8, <1>9, <1>10, <1>11, <1>12, <1>14 DEF IInv

\* The deletion of a project keeps the invariant.
LEMMA DestroyStep ==
    ASSUME IInv, NEW r \in Requests, Commit(r), request[r].kind = "destroy"
    PROVE  IInv'
  <1> DEFINE q == request[r]
             w == q.writes
             p == q.project
             D == w.dropFiles
             C == w.dropContents
             M == w.dropMembers
  <1>1. q \in Pending /\ Overlap("destroy", p, q.met)
    BY CommitOverlaps DEF IInv
  <1>2. /\ p \in Projects /\ D \subseteq There(files)
        /\ projects' = [x \in Projects |-> IF x = p THEN Gone ELSE projects[x]]
        /\ members' = [m \in Members |-> IF m \in M THEN Unused ELSE members[m]]
        /\ files' = [f \in Files |-> IF f \in D THEN GoneFrom(p) ELSE files[f]]
        /\ contents' = [k \in Contents |-> IF k \in C THEN Unused ELSE contents[k]]
    BY DestroyCommit DEF IInv
  <1>3. DestroyHolds(q) /\ (\A f \in D : Own(f, p))
    BY <1>1 DEF IInv, Plans, PlanOf, PlanRefs, RefsOf
  <1>4. /\ Met(q, {"create", "rename"}) \/ \A g \in Live : files[g].project = p => g \in D
        /\ Met(q, {"enrol"}) \/ \A m \in There(members) : members[m].project = p => m \in M
        /\ Met(q, {"save", "type"}) \/ \A k \in There(contents) : contents[k].file \in D => k \in C
    BY <1>2, <1>3 DEF DestroyHolds
  <1> HIDE DEF q, w, p, D, C, M
  <1>5. TakesAway("destroy", p, D, C, M)
    <2>1. D \subseteq Files
      BY <1>2, StoredIs DEF IInv
    <2> QED
      BY <1>2, <1>3, <2>1 DEF TakesAway
  <1>6. (Met(q, {"create", "rename"}) => <<"tree", p>> \in races')
        /\ (Met(q, {"save", "type"}) => <<"contents", p>> \in races')
        /\ (Met(q, {"enrol"}) => <<"members", p>> \in races') /\ races \subseteq races'
    BY <1>1, UnsafeIs DEF Met, Overlap
  <1>7. TreeIsWhole'
    <2>1. ASSUME <<"tree", p>> \notin races', NEW g \in Live, files[g].parent \in D PROVE g \in D
      <3>1. files[g].parent # None /\ files[files[g].parent].project = p
            /\ files[g].parent \in There(files)
        <4>1. \A f \in D : f \in Files /\ f \in There(files) /\ files[f].project = p
          BY <1>2, <1>3 DEF Own, UsedFile
        <4> QED
          BY <2>1, <4>1 DEF None, Files
      <3>2. files[g].project = p
        BY <3>1 DEF IInv, Refs
      <3> QED
        BY <1>4, <1>6, <2>1, <3>2
    <2> QED
      BY <1>1, <1>4, <1>5, <1>6, <2>1, TreeUnderTake
  <1>8. NamesDiffer'
    BY <1>1, <1>5, NamesUnderTake
  <1>9. ContentIsOfLive'
    BY <1>1, <1>2, <1>4, <1>5, <1>6, ContentsUnderTake
  <1>10. MemberOnce'
    <2>1. /\ There(members') = There(members) \ M
          /\ \A m \in There(members') : members'[m] = members[m]
          /\ \A x \in There(projects) : x \in There(projects') \/ x = p
      BY <1>5, TakesAwayIs DEF IInv
    <2> QED
      BY <1>4, <1>6, <2>1 DEF IInv, MemberOnce
  <1>11. Refs' /\ PlanRefs'
    BY <1>1, <1>5, RefsUnderTake
  <1>12. Plans'
    BY <1>1, <1>5, PlansUnderTake DEF Plans
  <1>13. /\ files' \in [Files -> {Unused} \cup GoneFiles \cup FileRows]
         /\ contents' \in [Contents -> {Unused} \cup ContentRows]
         /\ members' \in [Members -> {Unused} \cup MemberRows]
         /\ projects' \in [Projects -> {Unused, Gone} \cup ProjectRows]
    BY <1>5, TakesAwayIs DEF IInv
  <1>14. Shape'
    BY <1>1, <1>13, ShapeOn
  <1> QED
    BY <1>7, <1>8, <1>9, <1>10, <1>11, <1>12, <1>14 DEF IInv

\* A request of the kind, or an editor, stores rows of content of file f of p.
StoresContent(p, f) ==
    /\ Own(f, p)
    /\ UNCHANGED <<projects, members, files>>
    /\ contents' \in [Contents -> {Unused} \cup ContentRows]
    /\ \A k \in There(contents') :
          \/ k \in There(contents) /\ contents'[k] = contents[k]
          \/ contents'[k].file = f

\* The rows of content after an insertion.
LEMMA ContentRowsPut ==
    ASSUME Shape, NEW new \in SUBSET Contents, NEW f \in Files,
           contents' = [k \in Contents |->
                           IF k \in new THEN [row |-> "there", file |-> f] ELSE contents[k]]
    PROVE  /\ contents' \in [Contents -> {Unused} \cup ContentRows]
           /\ \A k \in There(contents') :
                 \/ k \in There(contents) /\ contents'[k] = contents[k]
                 \/ contents'[k].file = f
  <1>1. [row |-> "there", file |-> f] \in ContentRows
    BY DEF ContentRows
  <1>2. contents' \in [Contents -> {Unused} \cup ContentRows]
    BY <1>1 DEF Shape
  <1>3. There(contents') = {k \in Contents : contents'[k] \in ContentRows}
    BY <1>2, StoredContents
  <1>4. \A k \in new : contents'[k].file = f
    OBVIOUS
  <1>5. \A k \in Contents \ new : contents'[k] = contents[k]
    OBVIOUS
  <1> QED
    BY <1>2, <1>3, <1>4, <1>5, StoredIs

\* The plans of the other requests survive an insertion of content, or have
\* met it.
LEMMA PlansUnderContent ==
    ASSUME IInv, NEW kind \in {"save", "type"}, NEW p, NEW met, Overlap(kind, p, met),
           NEW f, StoresContent(p, f), NEW n \in Pending'
    PROVE  RefsOf(n)' /\ PlanOf(n)'
  <1>1. PICK q \in Pending : Follows(n, q, kind, p)
    BY DEF Overlap
  <1>2. /\ RefsOf(q) /\ PlanOf(q)
        /\ n.kind = q.kind /\ n.project = q.project /\ n.writes = q.writes /\ q.met \subseteq n.met
        /\ races \subseteq races' /\ UNCHANGED <<projects, members, files>>
    BY <1>1 DEF Overlap, Follows, IInv, PlanRefs, Plans, StoresContent
  <1>3. q.project = p /\ q.kind \in {"delete", "destroy"} => kind \in n.met
    BY <1>1, MeetsIs DEF Follows
  <1>4. Live' = Live /\ There(files') = There(files) /\ There(projects') = There(projects)
        /\ There(members') = There(members)
    BY <1>2 DEF Live
  <1>5. \A k \in There(contents') : \/ k \in There(contents) /\ contents'[k] = contents[k]
                                    \/ contents'[k].file = f
    BY DEF StoresContent
  <1>6. RefsOf(n)'
    BY <1>2, <1>4 DEF RefsOf, Used, Own, Points, UsedFile
  <1> SUFFICES PlanOf(n)'
    BY <1>6
  <1>7. CASE q.kind = "create"
    BY <1>2, <1>4, <1>7 DEF PlanOf, CreateHolds, Met, Fits, Same
  <1>8. CASE q.kind = "rename"
    <2>1. RenameHolds(q)
      BY <1>2, <1>8 DEF PlanOf
    <2>2. ASSUME ~Met(n, {"create", "rename"}), NEW g \in DOMAIN q.writes.puts,
                 NEW h \in Live' \ {g}, Same(h, q.writes.puts[g])'
          PROVE  FALSE
      BY <1>2, <1>4, <2>1, <2>2 DEF RenameHolds, Met, Same
    <2> QED
      BY <1>2, <1>4, <1>8, <2>1, <2>2 DEF PlanOf, RenameHolds, Met
  <1>9. CASE q.kind = "delete"
    <2>1. DeleteHolds(q) /\ \A g \in DOMAIN q.writes.puts : Own(g, q.project)
      BY <1>2, <1>9 DEF PlanOf, RefsOf
    <2>2. f \in DOMAIN q.writes.puts /\ f \in There(files) => q.project = p
      BY <2>1 DEF Own, StoresContent
    <2> QED
      BY <1>2, <1>3, <1>4, <1>5, <1>9, <2>1, <2>2 DEF PlanOf, DeleteHolds, Met
  <1>10. CASE q.kind = "destroy"
    <2>1. DestroyHolds(q) /\ \A g \in q.writes.dropFiles : Own(g, q.project)
      BY <1>2, <1>10 DEF PlanOf, RefsOf
    <2>2. f \in q.writes.dropFiles /\ f \in There(files) => q.project = p
      BY <2>1 DEF Own, StoresContent
    <2> QED
      BY <1>2, <1>3, <1>4, <1>5, <1>10, <2>1, <2>2 DEF PlanOf, DestroyHolds, Met
  <1>11. CASE q.kind = "save"
    BY <1>2, <1>4, <1>11 DEF PlanOf, SaveHolds, Met
  <1>12. CASE q.kind = "enrol"
    BY <1>2, <1>4, <1>12 DEF PlanOf, EnrolHolds, Met, IsMember
  <1>13. CASE q.kind \notin {"create", "rename", "delete", "destroy", "save", "enrol"}
    BY <1>2, <1>13 DEF PlanOf
  <1> QED
    BY <1>7, <1>8, <1>9, <1>10, <1>11, <1>12, <1>13

\* An insertion of content keeps the invariant, if its file is live or the
\* overlap is noted.
LEMMA ContentStored ==
    ASSUME IInv, NEW kind \in {"save", "type"}, NEW p \in Projects, NEW met,
           Overlap(kind, p, met), NEW f, StoresContent(p, f),
           f \in Live \/ <<"contents", p>> \in races'
    PROVE  IInv'
  <1>1. UNCHANGED <<projects, members, files>> /\ races \subseteq races'
        /\ contents' \in [Contents -> {Unused} \cup ContentRows]
    BY DEF StoresContent, Overlap
  <1>2. Live' = Live
    BY <1>1 DEF Live
  <1>3. TreeIsWhole' /\ NamesDiffer' /\ MemberOnce'
    BY <1>1, <1>2 DEF IInv, TreeIsWhole, NamesDiffer, MemberOnce
  <1>4. ContentIsOfLive'
    BY <1>1, <1>2 DEF IInv, ContentIsOfLive, StoresContent, Own
  <1>5. Refs'
    BY <1>1, <1>2 DEF IInv, Refs, Used, UsedFile
  <1>6. PlanRefs' /\ Plans'
    BY PlansUnderContent DEF PlanRefs, Plans
  <1>7. Shape'
    BY <1>1, ShapeOn DEF IInv, Shape
  <1> QED
    BY <1>3, <1>4, <1>5, <1>6, <1>7 DEF IInv

\* A save keeps the invariant.
LEMMA SaveStep ==
    ASSUME IInv, NEW r \in Requests, Commit(r), request[r].kind = "save"
    PROVE  IInv'
  <1> DEFINE q == request[r]
             p == q.project
             f == q.writes.content
  <1>1. q \in Pending /\ Overlap("save", p, q.met)
    BY CommitOverlaps DEF IInv
  <1>2. f \in Files /\ UNCHANGED <<projects, members, files>>
    BY SaveCommit DEF IInv
  <1>3. PICK new : new \subseteq Contents
                   /\ contents' = [k \in Contents |->
                          IF k \in new THEN [row |-> "there", file |-> f] ELSE contents[k]]
    BY SaveCommit DEF IInv
  <1>4. SaveHolds(q) /\ Own(f, p) /\ p \in Projects
    BY <1>1 DEF IInv, Plans, PlanOf, PlanRefs, RefsOf, Shape, Shaped
  <1>5. f \in Live \/ <<"contents", p>> \in races'
    BY <1>1, <1>4, UnsafeIs DEF SaveHolds, Met, Overlap
  <1> HIDE DEF q, p, f
  <1>6. StoresContent(p, f)
    BY <1>2, <1>3, <1>4, ContentRowsPut DEF IInv, StoresContent
  <1> QED
    BY <1>1, <1>4, <1>5, <1>6, ContentStored

\* A content of an id that was never given out is in no plan, and changes
\* nothing else.
LEMMA UnknownStored ==
    ASSUME IInv, NEW f \in Files, files[f] = Unused,
           UNCHANGED <<projects, members, files, request, races>>,
           contents' \in [Contents -> {Unused} \cup ContentRows],
           \A k \in There(contents') :
              \/ k \in There(contents) /\ contents'[k] = contents[k]
              \/ contents'[k].file = f
    PROVE  IInv'
  <1>1. Live' = Live /\ There(files') = There(files) /\ Pending' = Pending
        /\ There(members') = There(members) /\ There(projects') = There(projects)
    BY DEF Live, Pending, Busy
  <1>2. TreeIsWhole' /\ NamesDiffer' /\ MemberOnce'
    BY <1>1 DEF IInv, TreeIsWhole, NamesDiffer, MemberOnce
  <1>3. ContentIsOfLive'
    BY <1>1 DEF IInv, ContentIsOfLive
  <1>4. Refs'
    BY <1>1 DEF IInv, Refs, Used, UsedFile
  <1>5. ASSUME NEW q \in Pending' PROVE RefsOf(q)' /\ PlanOf(q)'
    <2>1. RefsOf(q) /\ PlanOf(q)
      BY <1>1, <1>5 DEF IInv, PlanRefs, Plans
    <2>2. RefsOf(q)'
      BY <1>1, <2>1 DEF RefsOf, Used, Own, Points, UsedFile
    <2>3. CreateHolds(q)' = CreateHolds(q)
      BY <1>1 DEF CreateHolds, Fits, Same, Met
    <2>4. RenameHolds(q)' = RenameHolds(q)
      BY <1>1 DEF RenameHolds, Same, Met
    <2>5. SaveHolds(q)' = SaveHolds(q) /\ EnrolHolds(q)' = EnrolHolds(q)
      BY <1>1 DEF SaveHolds, EnrolHolds, IsMember, Met
    <2>6. ASSUME q.kind = "delete" PROVE DeleteHolds(q)'
      <3>1. DeleteHolds(q) /\ f \notin DOMAIN q.writes.puts
        BY <2>1, <2>6 DEF PlanOf, RefsOf, Own, UsedFile
      <3> QED
        BY <1>1, <3>1 DEF DeleteHolds, Met
    <2>7. ASSUME q.kind = "destroy" PROVE DestroyHolds(q)'
      <3>1. DestroyHolds(q) /\ f \notin q.writes.dropFiles
        BY <2>1, <2>7 DEF PlanOf, RefsOf, Own, UsedFile
      <3> QED
        BY <1>1, <3>1 DEF DestroyHolds, Met
    <2> QED
      BY <2>1, <2>2, <2>3, <2>4, <2>5, <2>6, <2>7 DEF PlanOf
  <1>6. Shape'
    BY <1>1 DEF IInv, Shape
  <1> QED
    BY <1>2, <1>3, <1>4, <1>5, <1>6 DEF IInv, PlanRefs, Plans

\* A change of an editor keeps the invariant.
LEMMA TextStep ==
    ASSUME IInv, NEW f \in Files, TextChange(f)
    PROVE  IInv'
  <1> DEFINE p == files[f].project
             met == IF f \in Live THEN {} ELSE {"delete"}
             put == New(TRUE, Free(contents, KnownContents), [row |-> "there", file |-> f])
  <1>1. /\ contents' = Put(contents, put) /\ UNCHANGED <<projects, members, files>>
        /\ \/ files[f] = Unused /\ UNCHANGED <<request, races>>
           \/ files[f] # Unused /\ Written("type", p, met, Requests)
    BY DEF TextChange
  <1>2. DOMAIN put \subseteq Contents /\ \A k \in DOMAIN put : put[k] = [row |-> "there", file |-> f]
    BY NewIs, NewIdsAre DEF IInv
  <1>3. DOMAIN contents = Contents
    BY DEF IInv, Shape
  <1>4. files[f] # Unused => p \in Projects /\ Own(f, p)
    BY RowsAre DEF IInv, Shape, Own, UsedFile
  <1>5. "type" \in Kinds /\ met \in SUBSET Kinds
    BY DEF Kinds
  <1> HIDE DEF p, put
  <1>6. contents' = [k \in Contents |->
              IF k \in DOMAIN put THEN [row |-> "there", file |-> f] ELSE contents[k]]
    BY <1>1, <1>2, <1>3 DEF Put
  <1>7. CASE files[f] = Unused /\ UNCHANGED <<request, races>>
    BY <1>1, <1>2, <1>6, <1>7, ContentRowsPut, UnknownStored DEF IInv
  <1>8. CASE files[f] # Unused /\ Written("type", p, met, Requests)
    <2>1. p \in Projects /\ Own(f, p)
      BY <1>4, <1>8
    <2>2. Overlap("type", p, met)
      BY <1>5, <1>8, <2>1, WrittenOverlaps DEF IInv
    <2>3. f \in Live \/ <<"contents", p>> \in races'
      BY <2>2, UnsafeIs DEF Overlap
    <2>4. StoresContent(p, f)
      BY <1>1, <1>2, <1>6, <2>1, ContentRowsPut DEF IInv, StoresContent
    <2> QED
      BY <2>1, <2>2, <2>3, <2>4, ContentStored
  <1> QED
    BY <1>1, <1>7, <1>8

\* Memberships of p are new, or some go.
ChangesMembers(kind, p) ==
    /\ UNCHANGED <<projects, files, contents>>
    /\ members' \in [Members -> {Unused} \cup MemberRows]
    /\ \A m \in There(members') :
          \/ m \in There(members) /\ members'[m] = members[m]
          \/ kind = "enrol" /\ members'[m].project = p

\* The plans of the other requests survive a change of the members, or have
\* met it.
LEMMA PlansUnderMembers ==
    ASSUME IInv, NEW kind \in {"enrol", "remove"}, NEW p, NEW met, Overlap(kind, p, met),
           ChangesMembers(kind, p), NEW n \in Pending'
    PROVE  RefsOf(n)' /\ PlanOf(n)'
  <1>1. PICK q \in Pending : Follows(n, q, kind, p)
    BY DEF Overlap
  <1>2. /\ RefsOf(q) /\ PlanOf(q)
        /\ n.kind = q.kind /\ n.project = q.project /\ n.writes = q.writes /\ q.met \subseteq n.met
        /\ races \subseteq races' /\ UNCHANGED <<projects, files, contents>>
    BY <1>1 DEF Overlap, Follows, IInv, PlanRefs, Plans, ChangesMembers
  <1>3. q.project = p /\ q.kind \in {"enrol", "destroy"} /\ kind = "enrol" => kind \in n.met
    BY <1>1, MeetsIs DEF Follows
  <1>4. Live' = Live /\ There(files') = There(files) /\ There(projects') = There(projects)
        /\ There(contents') = There(contents)
    BY <1>2 DEF Live
  <1>5. \A m \in There(members') : \/ m \in There(members) /\ members'[m] = members[m]
                                   \/ kind = "enrol" /\ members'[m].project = p
    BY DEF ChangesMembers
  <1>6. RefsOf(n)'
    BY <1>2, <1>4 DEF RefsOf, Used, Own, Points, UsedFile
  <1> SUFFICES PlanOf(n)'
    BY <1>6
  <1>7. CASE q.kind = "create"
    BY <1>2, <1>4, <1>7 DEF PlanOf, CreateHolds, Met, Fits, Same
  <1>8. CASE q.kind = "rename"
    <2>1. RenameHolds(q)
      BY <1>2, <1>8 DEF PlanOf
    <2>2. ASSUME ~Met(n, {"create", "rename"}), NEW g \in DOMAIN q.writes.puts,
                 NEW h \in Live' \ {g}, Same(h, q.writes.puts[g])'
          PROVE  FALSE
      BY <1>2, <1>4, <2>1, <2>2 DEF RenameHolds, Met, Same
    <2> QED
      BY <1>2, <1>4, <1>8, <2>1, <2>2 DEF PlanOf, RenameHolds, Met
  <1>9. CASE q.kind = "delete"
    BY <1>2, <1>4, <1>9 DEF PlanOf, DeleteHolds, Met
  <1>10. CASE q.kind = "destroy"
    BY <1>2, <1>3, <1>4, <1>5, <1>10 DEF PlanOf, DestroyHolds, Met
  <1>11. CASE q.kind = "save"
    BY <1>2, <1>4, <1>11 DEF PlanOf, SaveHolds, Met
  <1>12. CASE q.kind = "enrol"
    <2>1. EnrolHolds(q)
      BY <1>2, <1>12 DEF PlanOf
    <2>2. ASSUME ~Met(n, {"enrol", "destroy"}), NEW u, IsMember(q.project, u)'
          PROVE  IsMember(q.project, u)
      BY <1>3, <1>5, <1>12, <2>2 DEF IsMember, Met
    <2> QED
      BY <1>2, <1>4, <1>12, <2>1, <2>2 DEF PlanOf, EnrolHolds, Met
  <1>13. CASE q.kind \notin {"create", "rename", "delete", "destroy", "save", "enrol"}
    BY <1>2, <1>13 DEF PlanOf
  <1> QED
    BY <1>7, <1>8, <1>9, <1>10, <1>11, <1>12, <1>13

\* A change of the members keeps the invariant, if it keeps MemberOnce.
LEMMA MembersChanged ==
    ASSUME IInv, NEW kind \in {"enrol", "remove"}, NEW p, NEW met, Overlap(kind, p, met),
           ChangesMembers(kind, p), Used(p), MemberOnce'
    PROVE  IInv'
  <1>1. UNCHANGED <<projects, files, contents>> /\ races \subseteq races'
        /\ members' \in [Members -> {Unused} \cup MemberRows]
    BY DEF ChangesMembers, Overlap
  <1>2. Live' = Live
    BY <1>1 DEF Live
  <1>3. TreeIsWhole' /\ NamesDiffer' /\ ContentIsOfLive'
    BY <1>1, <1>2 DEF IInv, TreeIsWhole, NamesDiffer, ContentIsOfLive
  <1>4. Refs'
    BY <1>1, <1>2 DEF IInv, Refs, Used, UsedFile, ChangesMembers
  <1>5. PlanRefs' /\ Plans'
    BY PlansUnderMembers DEF PlanRefs, Plans
  <1>6. Shape'
    BY <1>1, ShapeOn DEF IInv, Shape
  <1> QED
    BY <1>3, <1>4, <1>5, <1>6 DEF IInv

\* An enrolment keeps the invariant.
LEMMA EnrolStep ==
    ASSUME IInv, NEW r \in Requests, Commit(r), request[r].kind = "enrol"
    PROVE  IInv'
  <1> DEFINE q == request[r]
             p == q.project
  <1>1. q \in Pending /\ Overlap("enrol", p, q.met)
    BY CommitOverlaps DEF IInv
  <1>2. p \in Projects /\ UNCHANGED <<projects, files, contents>>
    BY EnrolCommit DEF IInv
  <1>3. PICK u \in Users : \E new :
           /\ q.writes.enrols = {u}
           /\ new \subseteq {m \in Members : members[m] = Unused} /\ Single(new)
           /\ members' = [m \in Members |->
                 IF m \in new THEN [row |-> "there", project |-> p, user |-> u] ELSE members[m]]
    BY EnrolCommit DEF IInv
  <1>4. PICK new :
           /\ new \subseteq {m \in Members : members[m] = Unused} /\ Single(new)
           /\ members' = [m \in Members |->
                 IF m \in new THEN [row |-> "there", project |-> p, user |-> u] ELSE members[m]]
    BY <1>3
  <1>5. EnrolHolds(q) /\ Used(p)
    BY <1>1 DEF IInv, Plans, PlanOf, PlanRefs, RefsOf
  <1>6. \/ Met(q, {"enrol", "destroy"})
        \/ p \in There(projects) /\ ~IsMember(p, u)
    BY <1>3, <1>5 DEF EnrolHolds
  <1> HIDE DEF q, p
  <1>7. races \subseteq races' /\ (Met(q, {"enrol", "destroy"}) => <<"members", p>> \in races')
    BY <1>1, UnsafeIs DEF Met, Overlap
  <1>8. [row |-> "there", project |-> p, user |-> u] \in MemberRows
    BY <1>2 DEF MemberRows
  <1>9. members' \in [Members -> {Unused} \cup MemberRows]
    BY <1>4, <1>8 DEF IInv, Shape
  <1>10. There(members') = {m \in Members : members'[m] \in MemberRows}
    BY <1>9, StoredMembers
  <1>11. There(members') = There(members) \cup new
    BY <1>4, <1>8, <1>10, StoredIs DEF IInv
  <1>12. /\ \A m \in new : members'[m] = [row |-> "there", project |-> p, user |-> u]
         /\ \A m \in There(members) : m \notin new /\ members'[m] = members[m]
    BY <1>4, StoredIs, OtherRowsAre DEF IInv
  <1>13. ChangesMembers("enrol", p)
    BY <1>2, <1>9, <1>11, <1>12 DEF ChangesMembers
  <1>14. MemberOnce'
    <2>1. ASSUME NEW m \in There(members'), <<"members", members'[m].project>> \notin races'
          PROVE  /\ members'[m].project \in There(projects)
                 /\ \A n \in There(members') : members'[n] = members'[m] => n = m
      <3>1. CASE members'[m].project = p
        <4>1. p \in There(projects) /\ ~IsMember(p, u)
          BY <1>6, <1>7, <2>1, <3>1
        <4>2. \A n \in There(members) : members[n].project = p => members[n].user # u
          BY <4>1 DEF IsMember
        <4>3. m \in There(members) =>
                 \A n \in There(members) : members[n] = members[m] => n = m
          BY <1>7, <1>12, <2>1, <3>1 DEF IInv, MemberOnce
        <4> QED
          BY <1>4, <1>11, <1>12, <3>1, <4>1, <4>2, <4>3 DEF Single
      <3>2. CASE members'[m].project # p
        BY <1>7, <1>11, <1>12, <2>1, <3>2 DEF IInv, MemberOnce
      <3> QED
        BY <3>1, <3>2
    <2> QED
      BY <1>2, <2>1 DEF MemberOnce
  <1> QED
    BY <1>1, <1>5, <1>13, <1>14, MembersChanged

\* A removal keeps the invariant.
LEMMA RemoveStep ==
    ASSUME IInv, NEW r \in Requests, Commit(r), request[r].kind = "remove"
    PROVE  IInv'
  <1> DEFINE q == request[r]
             p == q.project
             M == q.writes.dropMembers
  <1>1. q \in Pending /\ Overlap("remove", p, q.met)
    BY CommitOverlaps DEF IInv
  <1>2. UNCHANGED <<projects, files, contents>>
        /\ members' = [m \in Members |-> IF m \in M THEN Unused ELSE members[m]]
    BY RemoveCommit DEF IInv
  <1>3. Used(p)
    BY <1>1 DEF IInv, PlanRefs, RefsOf
  <1> HIDE DEF q, p, M
  <1>4. members' \in [Members -> {Unused} \cup MemberRows]
    BY <1>2 DEF IInv, Shape
  <1>5. There(members') = {m \in Members : members'[m] \in MemberRows}
    BY <1>4, StoredMembers
  <1>6. \A m \in There(members') : m \in There(members) /\ members'[m] = members[m]
    BY <1>2, <1>5, StoredIs, OtherRowsAre DEF IInv
  <1>7. ChangesMembers("remove", p)
    BY <1>2, <1>4, <1>6 DEF ChangesMembers
  <1>8. races \subseteq races'
    BY <1>1 DEF Overlap
  <1>9. MemberOnce'
    BY <1>2, <1>6, <1>8 DEF IInv, MemberOnce
  <1> QED
    BY <1>1, <1>3, <1>7, <1>9, MembersChanged

\* Every commit keeps the invariant.
LEMMA CommitStep == ASSUME IInv, NEW r \in Requests, Commit(r) PROVE IInv'
  <1>1. request[r].kind \in Kinds \ {"type"}
    BY CommitIs DEF IInv, Shaped
  <1> QED
    BY <1>1, CreateStep, RenameStep, DeleteStep, SaveStep, FoundStep, DestroyStep, EnrolStep,
       RemoveStep DEF Kinds

\* A plan that holds does not depend on anything but the tables and the races.
LEMMA PlansStand ==
    ASSUME UNCHANGED <<tables, races>>, NEW q
    PROVE  /\ RefsOf(q) => RefsOf(q)'
           /\ PlanOf(q) => PlanOf(q)'
  <1>1. UNCHANGED <<projects, members, files, contents, races>>
    BY DEF tables
  <1>2. Live' = Live /\ There(files') = There(files) /\ There(projects') = There(projects)
        /\ There(contents') = There(contents) /\ There(members') = There(members)
    BY <1>1 DEF Live
  <1>3. RefsOf(q) => RefsOf(q)'
    BY <1>1, <1>2 DEF RefsOf, Used, Own, Points, UsedFile
  <1>4. CreateHolds(q) => CreateHolds(q)'
    BY <1>1, <1>2 DEF CreateHolds, Met, Fits, Same
  <1>5. ASSUME RenameHolds(q) PROVE RenameHolds(q)'
    <2>2. ASSUME ~Met(q, {"create", "rename"}), NEW g \in DOMAIN q.writes.puts,
                 NEW h \in Live' \ {g}, Same(h, q.writes.puts[g])'
          PROVE  FALSE
      BY <1>1, <1>2, <1>5, <2>2 DEF RenameHolds, Met, Same
    <2> QED
      BY <1>1, <1>2, <1>5, <2>2 DEF RenameHolds, Met
  <1>6. DeleteHolds(q) => DeleteHolds(q)'
    BY <1>1, <1>2 DEF DeleteHolds, Met
  <1>7. DestroyHolds(q) => DestroyHolds(q)'
    BY <1>1, <1>2 DEF DestroyHolds, Met
  <1>8. SaveHolds(q) => SaveHolds(q)'
    BY <1>2 DEF SaveHolds, Met
  <1>9. EnrolHolds(q) => EnrolHolds(q)'
    BY <1>1, <1>2 DEF EnrolHolds, Met, IsMember
  <1> QED
    BY <1>3, <1>4, <1>5, <1>6, <1>7, <1>8, <1>9 DEF PlanOf

\* The invariant stays when the tables do, if the new plans hold.
LEMMA TablesStay ==
    ASSUME IInv, UNCHANGED <<tables, races>>, request' = [s \in Requests |-> request'[s]],
           \A q \in Pending' : q \in Pending \/ (Shaped(q) /\ RefsOf(q) /\ PlanOf(q))
    PROVE  IInv'
  <1>1. UNCHANGED <<projects, members, files, contents, races>>
    BY DEF tables
  <1>2. Live' = Live
    BY <1>1 DEF Live
  <1>3. TreeIsWhole' /\ NamesDiffer' /\ ContentIsOfLive' /\ MemberOnce' /\ Refs'
    BY <1>1, <1>2 DEF IInv, TreeIsWhole, NamesDiffer, ContentIsOfLive, MemberOnce, Refs, Used, UsedFile
  <1>4. ASSUME NEW q \in Pending' PROVE Shaped(q) /\ RefsOf(q) /\ PlanOf(q)
    BY <1>4 DEF IInv, Shape, PlanRefs, Plans
  <1>5. Shape'
    BY <1>1, <1>4 DEF IInv, Shape
  <1>6. PlanRefs' /\ Plans'
    BY <1>4, PlansStand DEF PlanRefs, Plans
  <1> QED
    BY <1>3, <1>5, <1>6 DEF IInv

\* A roll-back keeps the invariant.
LEMMA RollBackStep == ASSUME IInv, NEW r \in Requests, RollBack(r) PROVE IInv'
  <1>1. request' = [request EXCEPT ![r] = Idle] /\ UNCHANGED <<tables, races>>
    BY DEF RollBack
  <1>2. request = [s \in Requests |-> request[s]]
    BY DEF IInv, Shape
  <1>3. request' = [s \in Requests |-> request'[s]]
        /\ \A s \in Requests : request'[s] = Idle \/ request'[s] = request[s]
    BY <1>1, <1>2
  <1>4. Pending' \subseteq Pending
    BY <1>3 DEF Pending, Busy
  <1> QED
    BY <1>1, <1>3, <1>4, TablesStay

\* A request begins: what it plans holds in its snapshot, which is what is
\* stored when it begins.
LEMMA Begins ==
    ASSUME IInv, NEW r \in Requests, NEW kind, NEW p, NEW w, Prepare(r, kind, p, w), NEW q,
           q = [kind |-> kind, project |-> p, writes |-> w, met |-> {}],
           Shaped(q), RefsOf(q), PlanOf(q)
    PROVE  IInv'
  <1>1. request' = [request EXCEPT ![r] = q] /\ UNCHANGED <<tables, races>>
    BY DEF Prepare
  <1>2. request = [s \in Requests |-> request[s]]
    BY DEF IInv, Shape
  <1>3. request' = [s \in Requests |-> request'[s]]
        /\ \A s \in Requests : request'[s] = q \/ request'[s] = request[s]
    BY <1>1, <1>2
  <1>4. Pending' \subseteq Pending \cup {q}
    BY <1>3 DEF Pending, Busy
  <1> QED
    BY <1>1, <1>3, <1>4, TablesStay

\* The columns of NoWrites.
LEMMA NoWritesAre ==
    /\ NoWrites.code = None /\ NoWrites.enrols = {} /\ NoWrites.file = Unused
    /\ NoWrites.content = None /\ DOMAIN NoWrites.puts = {} /\ NoWrites.dropFiles = {}
    /\ NoWrites.dropContents = {} /\ NoWrites.dropMembers = {} /\ NoWrites.dropProjects = {}
    /\ DOMAIN NoWrites = {"code", "enrols", "file", "content", "puts", "dropFiles",
                          "dropContents", "dropMembers", "dropProjects"}
  BY DEF NoWrites

\* The checks of a creation make its plan hold.
LEMMA CreateBegins ==
    ASSUME IInv, NEW r \in Requests, NEW u \in Users, NEW p \in Projects,
           NEW parent \in 0 .. MaxFiles, NEW name \in Names, NEW type \in {"FILE", "FOLDER"},
           CreateFile(r, u, p, parent, name, type)
    PROVE  IInv'
  <1> DEFINE row == [row |-> "there", project |-> p, parent |-> parent, name |-> name,
                     type |-> type, deleted |-> FALSE]
             w == [NoWrites EXCEPT !.file = row]
             q == [kind |-> "create", project |-> p, writes |-> w, met |-> {}]
  <1>1. Prepare(r, "create", p, w)
    BY DEF CreateFile
  <1>2. w.file = row /\ OnlyWrites(w, {"file"})
    BY NoWritesAre DEF OnlyWrites
  <1>3. row \in LiveRows
    BY DEF LiveRows, FileRows
  <1>4. Fits(row) /\ \A g \in Live : ~Same(g, row)
    BY DEF CreateFile, Fits, Same, NameTaken
  <1>5. Used(p)
    BY StoredIs, OtherRowsAre DEF CreateFile, Used, IInv
  <1>6. Points(parent, p)
    BY StoredIs, RowsAre, LiveRowsAre DEF CreateFile, Points, UsedFile, IInv
  <1> HIDE DEF w
  <1>7. row.project = p /\ row.parent = parent
    OBVIOUS
  <1> HIDE DEF row
  <1>8. q.kind = "create" /\ q.project = p /\ q.writes = w /\ q.met = {}
    OBVIOUS
  <1>9. Shaped(q)
    BY <1>2, <1>3, <1>7 DEF Shaped, Kinds
  <1> HIDE DEF q
  <1>10. RefsOf(q)
    BY <1>2, <1>5, <1>6, <1>7, <1>8 DEF RefsOf
  <1>11. PlanOf(q)
    BY <1>2, <1>4, <1>8 DEF PlanOf, CreateHolds
  <1> QED
    BY <1>1, <1>9, <1>10, <1>11, Begins DEF q

\* A live row under another name.
LEMMA Renamed ==
    ASSUME NEW old \in LiveRows, NEW name \in Names, NEW row, row = [old EXCEPT !.name = name]
    PROVE  row = [row |-> "there", project |-> old.project, parent |-> old.parent, name |-> name,
                  type |-> old.type, deleted |-> FALSE]
  <1>1. old \in [row : {"there"}, project : Projects, parent : 0 .. MaxFiles, name : Names,
                 type : {"FILE", "FOLDER"}, deleted : {FALSE}]
    BY DEF LiveRows, FileRows
  <1>2. row \in [row : {"there"}, project : Projects, parent : 0 .. MaxFiles, name : Names,
                 type : {"FILE", "FOLDER"}, deleted : {FALSE}]
    BY <1>1
  <1>3. /\ row.project = old.project /\ row.parent = old.parent /\ row.type = old.type
        /\ row.name = name
    BY <1>1
  <1> QED
    BY <1>2, <1>3

\* The checks of a renaming make its plan hold.
LEMMA RenameBegins ==
    ASSUME IInv, NEW r \in Requests, NEW u \in Users, NEW f \in Files, NEW name \in Names,
           UpdateFileName(r, u, f, name)
    PROVE  IInv'
  <1> DEFINE p == files[f].project
             row == [files[f] EXCEPT !.name = name]
             w == [NoWrites EXCEPT !.puts = [g \in {f} |-> row]]
             q == [kind |-> "rename", project |-> p, writes |-> w, met |-> {}]
  <1>1. Prepare(r, "rename", p, w) /\ f \in Live
    BY DEF UpdateFileName
  <1>2. DOMAIN w.puts = {f} /\ w.puts[f] = row /\ OnlyWrites(w, {"puts"})
    BY NoWritesAre DEF OnlyWrites
  <1>3. files[f] \in LiveRows /\ f \in There(files) /\ files[f] # Unused
    BY <1>1, StoredIs, RowsAre, LiveRowsAre DEF IInv
  <1>4. row = [row |-> "there", project |-> p, parent |-> files[f].parent, name |-> name,
               type |-> files[f].type, deleted |-> FALSE]
    BY <1>3, Renamed
  <1>5. row \in LiveRows /\ row.project = p /\ row.parent = files[f].parent /\ row.name = name
    BY <1>3, <1>4, LiveRowsAre DEF LiveRows, FileRows
  <1>6. row = [files[f] EXCEPT !.name = row.name]
    BY <1>5
  <1>7. \A g \in Live \ {f} : ~Same(g, row)
    BY <1>5 DEF UpdateFileName, NameTaken, Same
  <1>8. Used(p) /\ Points(files[f].parent, p) /\ Own(f, p)
    BY <1>1, <1>3 DEF IInv, Refs, Points, Own, UsedFile
  <1>9. p \in Projects
    BY <1>3, LiveRowsAre
  <1>10. q.kind = "rename" /\ q.project = p /\ q.writes = w /\ q.met = {}
         /\ q = [kind |-> q.kind, project |-> q.project, writes |-> q.writes, met |-> q.met]
    OBVIOUS
  <1> HIDE DEF w, row, p, q
  <1>11. Shaped(q)
    BY <1>2, <1>5, <1>9, <1>10 DEF Shaped, Kinds
  <1>12. RefsOf(q)
    BY <1>2, <1>5, <1>8, <1>10 DEF RefsOf
  <1>13. PlanOf(q)
    BY <1>1, <1>2, <1>6, <1>7, <1>10 DEF PlanOf, RenameHolds
  <1> QED
    BY <1>1, <1>11, <1>12, <1>13, Begins DEF q

\* A subtree is live, of one project, and closed under children.
LEMMA SubtreeIs ==
    ASSUME IInv, NEW f \in Live
    PROVE  /\ Subtree(f) \subseteq Live
           /\ \A g \in Live : files[g].parent \in Subtree(f) => g \in Subtree(f)
           /\ \A g \in Subtree(f) : files[g].project = files[f].project
  <1>1. Subtree(f) \subseteq Live
    BY DEF Subtree
  <1>2. \A g \in Live : files[g].parent \in Subtree(f) => g \in Subtree(f)
    BY DEF Subtree
  <1>3. ASSUME NEW g \in Subtree(f) PROVE files[g].project = files[f].project
    <2> DEFINE own == {h \in Live : files[h].project = files[f].project}
    <2>1. own \in SUBSET Live /\ f \in own
      OBVIOUS
    <2>2. ASSUME NEW h \in Live, files[h].parent \in own PROVE h \in own
      <3>1. files[h].parent \in There(files) /\ files[h].parent # None
        BY <2>2, StoredIs, LiveRowsAre DEF IInv, None, Files, Live
      <3> QED
        BY <2>2, <3>1 DEF IInv, Refs
    <2>3. g \in own
      BY <2>1, <2>2 DEF Subtree
    <2> QED
      BY <2>3
  <1> QED
    BY <1>1, <1>2, <1>3

\* The checks of a deletion make its plan hold.
LEMMA DeleteBegins ==
    ASSUME IInv, NEW r \in Requests, NEW u \in Users, NEW f \in Files, DeleteFile(r, u, f)
    PROVE  IInv'
  <1> DEFINE p == files[f].project
             D == Subtree(f)
             puts == [g \in D |-> Deleted(g)]
             C == UNION {ContentOf(g) : g \in D}
             w == [NoWrites EXCEPT !.puts = puts, !.dropContents = C]
             q == [kind |-> "delete", project |-> p, writes |-> w, met |-> {}]
  <1>1. Prepare(r, "delete", p, w) /\ f \in Live
    BY DEF DeleteFile
  <1>2. w.puts = puts /\ w.dropContents = C /\ OnlyWrites(w, {"puts", "dropContents"})
    BY NoWritesAre DEF OnlyWrites
  <1>3. /\ D \subseteq Live
        /\ \A g \in Live : files[g].parent \in D => g \in D
        /\ \A g \in D : files[g].project = p
    BY <1>1, SubtreeIs
  <1>4. /\ D \subseteq There(files) /\ D \subseteq Files /\ p \in Projects
        /\ \A g \in D : files[g] # Unused
    BY <1>1, <1>3, StoredIs, RowsAre, LiveRowsAre DEF IInv
  <1>5. DOMAIN puts = D /\ \A g \in D : puts[g] = [row |-> "there", project |-> p, deleted |-> TRUE]
    BY <1>3 DEF Deleted
  <1>6. \A k \in There(contents) : contents[k].file \in D => k \in C
    BY DEF ContentOf
  <1>7. Used(p) /\ \A g \in D : Own(g, p)
    BY <1>1, <1>3, <1>4 DEF IInv, Refs, Own, UsedFile, Live
  <1>8. q.kind = "delete" /\ q.project = p /\ q.writes = w /\ q.met = {}
        /\ q = [kind |-> q.kind, project |-> q.project, writes |-> q.writes, met |-> q.met]
    OBVIOUS
  <1> HIDE DEF q, w, puts, C, D, p
  <1>9. Shaped(q)
    BY <1>2, <1>4, <1>5, <1>8 DEF Shaped, Kinds
  <1>10. RefsOf(q)
    BY <1>2, <1>5, <1>7, <1>8 DEF RefsOf
  <1>11. PlanOf(q)
    BY <1>2, <1>3, <1>5, <1>6, <1>8 DEF PlanOf, DeleteHolds
  <1> QED
    BY <1>1, <1>9, <1>10, <1>11, Begins DEF q

\* The checks of a save make its plan hold.
LEMMA SaveBegins ==
    ASSUME IInv, NEW r \in Requests, NEW u \in Users, NEW f \in Files, SaveFileContent(r, u, f)
    PROVE  IInv'
  <1> DEFINE p == files[f].project
             w == [NoWrites EXCEPT !.content = f]
             q == [kind |-> "save", project |-> p, writes |-> w, met |-> {}]
  <1>1. Prepare(r, "save", p, w) /\ f \in Live
    BY DEF SaveFileContent
  <1>2. w.content = f /\ OnlyWrites(w, {"content"})
    BY NoWritesAre DEF OnlyWrites
  <1>3. f \in There(files) /\ files[f] # Unused /\ p \in Projects
    BY <1>1, StoredIs, RowsAre, LiveRowsAre DEF IInv
  <1>4. Used(p) /\ Own(f, p)
    BY <1>3 DEF IInv, Refs, Own, UsedFile
  <1>5. q.kind = "save" /\ q.project = p /\ q.writes = w /\ q.met = {}
        /\ q = [kind |-> q.kind, project |-> q.project, writes |-> q.writes, met |-> q.met]
    OBVIOUS
  <1> HIDE DEF w, p, q
  <1>6. Shaped(q)
    BY <1>2, <1>3, <1>5 DEF Shaped, Kinds
  <1>7. RefsOf(q)
    BY <1>2, <1>4, <1>5 DEF RefsOf
  <1>8. PlanOf(q)
    BY <1>1, <1>2, <1>5 DEF PlanOf, SaveHolds
  <1> QED
    BY <1>1, <1>6, <1>7, <1>8, Begins DEF q

\* The plan of a new project holds.
LEMMA FoundBegins ==
    ASSUME IInv, NEW r \in Requests, NEW u \in Users, NEW code \in Codes, NEW name \in Names,
           CreateProject(r, u, code, name)
    PROVE  IInv'
  <1> DEFINE Row(p) == [row |-> "there", project |-> p, parent |-> None, name |-> name,
                        type |-> "FOLDER", deleted |-> FALSE]
             W(p) == [NoWrites EXCEPT !.code = code, !.enrols = {u}, !.file = Row(p)]
  <1>1. PICK p \in First(Free(projects, {})) : Prepare(r, "found", p, W(p))
    BY DEF CreateProject
  <1> DEFINE row == Row(p)
             w == W(p)
             q == [kind |-> "found", project |-> p, writes |-> w, met |-> {}]
  <1>2. p \in Projects
    BY <1>1, NewIdsAre DEF IInv
  <1>3. row \in LiveRows
    <2>1. None \in 0 .. MaxFiles
      BY BoundsAssumption DEF None
    <2> QED
      BY <1>2, <2>1 DEF LiveRows, FileRows
  <1>4. row.project = p /\ row.parent = None
    OBVIOUS
  <1>5. w.code = code /\ w.enrols = {u} /\ w.file = row /\ OnlyWrites(w, {"code", "enrols", "file"})
    BY NoWritesAre DEF OnlyWrites
  <1>6. q.kind = "found" /\ q.project = p /\ q.writes = w /\ q.met = {}
        /\ q = [kind |-> q.kind, project |-> q.project, writes |-> q.writes, met |-> q.met]
    OBVIOUS
  <1> HIDE DEF row, w, q, W
  <1>7. Shaped(q)
    BY <1>2, <1>3, <1>4, <1>5, <1>6 DEF Shaped, Kinds
  <1>8. RefsOf(q) /\ PlanOf(q)
    BY <1>6 DEF RefsOf, PlanOf
  <1> QED
    BY <1>1, <1>7, <1>8, Begins DEF q, w

\* The plan to delete a project holds.
LEMMA DestroyBegins ==
    ASSUME IInv, NEW r \in Requests, NEW u \in Users, NEW p \in Projects, DeleteProject(r, u, p)
    PROVE  IInv'
  <1> DEFINE F == {f \in Live : files[f].project = p}
             C == UNION {ContentOf(f) : f \in F}
             M == {m \in There(members) : members[m].project = p}
             w == [NoWrites EXCEPT !.dropContents = C, !.dropFiles = F, !.dropMembers = M,
                                   !.dropProjects = {p}]
             q == [kind |-> "destroy", project |-> p, writes |-> w, met |-> {}]
  <1>1. Prepare(r, "destroy", p, w) /\ p \in There(projects)
    BY DEF DeleteProject
  <1>2. /\ w.dropContents = C /\ w.dropFiles = F /\ w.dropMembers = M /\ w.dropProjects = {p}
        /\ OnlyWrites(w, {"dropFiles", "dropContents", "dropMembers", "dropProjects"})
    BY NoWritesAre DEF OnlyWrites
  <1>3. Used(p)
    BY <1>1, StoredIs, OtherRowsAre DEF Used, IInv
  <1>4. F \subseteq Files /\ \A f \in F : Own(f, p)
    BY StoredIs, RowsAre, LiveRowsAre DEF IInv, Own, UsedFile
  <1>5. \A k \in There(contents) : contents[k].file \in F => k \in C
    BY DEF ContentOf
  <1>6. /\ \A g \in Live : files[g].project = p => g \in F
        /\ \A m \in There(members) : members[m].project = p => m \in M
    OBVIOUS
  <1>7. q.kind = "destroy" /\ q.project = p /\ q.writes = w /\ q.met = {}
        /\ q = [kind |-> q.kind, project |-> q.project, writes |-> q.writes, met |-> q.met]
    OBVIOUS
  <1> HIDE DEF w, q, F, C, M
  <1>8. Shaped(q)
    BY <1>2, <1>4, <1>7 DEF Shaped, Kinds
  <1>9. RefsOf(q)
    BY <1>2, <1>3, <1>4, <1>7 DEF RefsOf
  <1>10. PlanOf(q)
    BY <1>2, <1>5, <1>6, <1>7 DEF PlanOf, DestroyHolds
  <1> QED
    BY <1>1, <1>8, <1>9, <1>10, Begins DEF q

\* A membership that the snapshot does not have is planned, by whichever way.
LEMMA EnrolBegins ==
    ASSUME IInv, NEW r \in Requests, NEW u \in Users, NEW p \in There(projects), ~IsMember(p, u),
           Prepare(r, "enrol", p, [NoWrites EXCEPT !.enrols = {u}])
    PROVE  IInv'
  <1> DEFINE w == [NoWrites EXCEPT !.enrols = {u}]
             q == [kind |-> "enrol", project |-> p, writes |-> w, met |-> {}]
  <1>1. Prepare(r, "enrol", p, w)
    OBVIOUS
  <1>2. w.enrols = {u} /\ OnlyWrites(w, {"enrols"})
    BY NoWritesAre DEF OnlyWrites
  <1>3. Used(p) /\ p \in Projects
    BY StoredIs, OtherRowsAre DEF Used, IInv
  <1>4. q.kind = "enrol" /\ q.project = p /\ q.writes = w /\ q.met = {}
        /\ q = [kind |-> q.kind, project |-> q.project, writes |-> q.writes, met |-> q.met]
    OBVIOUS
  <1> HIDE DEF w, q
  <1>5. Shaped(q)
    BY <1>2, <1>3, <1>4 DEF Shaped, Kinds
  <1>6. RefsOf(q)
    BY <1>3, <1>4 DEF RefsOf
  <1>7. PlanOf(q)
    BY <1>2, <1>4 DEF PlanOf, EnrolHolds
  <1> QED
    BY <1>1, <1>5, <1>6, <1>7, Begins DEF q

\* The plan to remove a member holds.
LEMMA RemoveBegins ==
    ASSUME IInv, NEW r \in Requests, NEW u \in Users, NEW p \in Projects, RemoveMember(r, p, u)
    PROVE  IInv'
  <1> DEFINE M == {m \in There(members) : members[m].project = p /\ members[m].user = u}
             w == [NoWrites EXCEPT !.dropMembers = M]
             q == [kind |-> "remove", project |-> p, writes |-> w, met |-> {}]
  <1>1. Prepare(r, "remove", p, w) /\ Cardinality(M) = 1
    BY DEF RemoveMember
  <1>2. w.dropMembers = M /\ OnlyWrites(w, {"dropMembers"})
    BY NoWritesAre DEF OnlyWrites
  <1>3. M # {}
    <2> HIDE DEF M
    <2> QED
      BY <1>1, FS_EmptySet
  <1>4. Used(p)
    BY <1>3 DEF IInv, Refs
  <1>5. q.kind = "remove" /\ q.project = p /\ q.writes = w /\ q.met = {}
        /\ q = [kind |-> q.kind, project |-> q.project, writes |-> q.writes, met |-> q.met]
    OBVIOUS
  <1> HIDE DEF w, q, M
  <1>6. Shaped(q)
    BY <1>2, <1>5 DEF Shaped, Kinds
  <1>7. RefsOf(q) /\ PlanOf(q)
    BY <1>4, <1>5 DEF RefsOf, PlanOf
  <1> QED
    BY <1>1, <1>6, <1>7, Begins DEF q

\* The invariant holds at first.
LEMMA InvInit == Init => IInv
  <1> SUFFICES ASSUME Init PROVE IInv
    OBVIOUS
  <1>1. Pending = {}
    BY DEF Pending, Busy, Init
  <1>2. There(files) = {} /\ There(members) = {} /\ There(contents) = {}
    BY DEF There, Init, Unused
  <1>3. Live = {}
    BY <1>2 DEF Live
  <1>4. Shape
    BY <1>1 DEF Shape, Init
  <1> QED
    BY <1>1, <1>2, <1>3, <1>4 DEF IInv, Refs, PlanRefs, Plans, TreeIsWhole, NamesDiffer, MemberOnce,
       ContentIsOfLive

\* Every step keeps the invariant.
LEMMA InvStep == IInv /\ [Next]_vars => IInv'
  <1> SUFFICES ASSUME IInv, [Next]_vars PROVE IInv'
    OBVIOUS
  <1>1. CASE \E f \in Files : TextChange(f)
    BY <1>1, TextStep
  <1>2. ASSUME NEW r \in Requests, Commit(r) \/ RollBack(r) PROVE IInv'
    BY <1>2, CommitStep, RollBackStep
  <1>3. ASSUME NEW r \in Requests, NEW u \in Users PROVE
           /\ \A p \in Projects, parent \in 0 .. MaxFiles, name \in Names, type \in {"FILE", "FOLDER"} :
                 CreateFile(r, u, p, parent, name, type) => IInv'
           /\ \A f \in Files, name \in Names : UpdateFileName(r, u, f, name) => IInv'
           /\ \A f \in Files : DeleteFile(r, u, f) \/ SaveFileContent(r, u, f) => IInv'
           /\ \A code \in Codes, name \in Names : CreateProject(r, u, code, name) => IInv'
           /\ \A p \in Projects : DeleteProject(r, u, p) \/ RemoveMember(r, p, u) => IInv'
    BY CreateBegins, RenameBegins, DeleteBegins, SaveBegins, FoundBegins, DestroyBegins, RemoveBegins
  <1>4. ASSUME NEW r \in Requests, NEW u \in Users PROVE
           /\ \A p \in Projects : AddMember(r, p, u) => IInv'
           /\ \A code \in Codes : JoinByInviteCode(r, code, u) => IInv'
    BY EnrolBegins DEF AddMember, JoinByInviteCode
  <1>5. CASE UNCHANGED vars
    <2>1. UNCHANGED <<tables, races, request>>
      BY <1>5 DEF vars
    <2>2. Pending' = Pending /\ request' = [s \in Requests |-> request'[s]]
      BY <2>1 DEF Pending, Busy, IInv, Shape
    <2> QED
      BY <2>1, <2>2, TablesStay
  <1> QED
    BY <1>1, <1>2, <1>3, <1>4, <1>5 DEF Next, Begin

\* The invariant holds of every behaviour, whatever the number of requests,
\* users, projects and files.
THEOREM Invariance == Spec => []IInv
  BY InvInit, InvStep, PTL DEF Spec

\* Every live file hangs in the tree of a project that is there, unless a
\* creation or a renaming overlapped a deletion (createFile, updateFileName
\* and deleteFile of FileServiceImpl, deleteProject).
THEOREM TreeStaysWhole == Spec => []TreeIsWhole
  <1>1. IInv => TreeIsWhole
    BY DEF IInv
  <1> QED
    BY <1>1, Invariance, PTL

\* Live files of one folder have different names, unless creations or
\* renamings overlapped (the check for a duplicate in FileServiceImpl).
THEOREM NamesStayApart == Spec => []NamesDiffer
  <1>1. IInv => NamesDiffer
    BY DEF IInv
  <1> QED
    BY <1>1, Invariance, PTL

\* A user is in a project once, and the project is there, unless enrolments
\* overlapped each other or the deletion (addMember, joinByInviteCode).
THEOREM MembersOnce == Spec => []MemberOnce
  <1>1. IInv => MemberOnce
    BY DEF IInv
  <1> QED
    BY <1>1, Invariance, PTL

\* No content outlives its file, unless a save or a change of an editor
\* overlapped a deletion in the file's own project, or a change came after it
\* (saveFileContent, deleteFile, deleteProject, handleTextChange).
THEOREM ContentOfLive == Spec => []ContentIsOfLive
  <1>1. IInv => ContentIsOfLive
    BY DEF IInv
  <1> QED
    BY <1>1, Invariance, PTL

\* No step unmarks a deleted file but a renaming that met the deletion.
LEMMA DeletedStep ==
    ASSUME IInv, Next, NEW f \in There(files), files[f].deleted, f \in There(files')
    PROVE  files'[f].deleted \/ <<"deleted", files[f].project>> \in races'
  <1>1. f \in Files /\ files[f] \in FileRows /\ files[f] # Unused /\ f \notin Live
    BY StoredIs, RowsAre DEF IInv, Live
  <1>2. ASSUME NEW r \in Requests, Commit(r) PROVE
          files'[f].deleted \/ <<"deleted", files[f].project>> \in races'
    <2> DEFINE q == request[r]
               w == q.writes
    <2>1. q \in Pending /\ Overlap(q.kind, q.project, q.met) /\ q.kind \in Kinds \ {"type"}
      BY <1>2, CommitOverlaps, CommitIs DEF IInv, Shaped
    <2>2. CASE q.kind = "create"
      BY <1>1, <1>2, <2>2, CreateCommit DEF IInv
    <2>3. CASE q.kind = "rename"
      <3>1. PICK g \in There(files) : /\ DOMAIN w.puts = {g}
                                        /\ files' = [h \in Files |-> IF h \in {g} THEN w.puts[g] ELSE files[h]]
        BY <1>2, <2>3, RenameCommit DEF IInv
      <3>2. CASE f = g
        <4>1. RenameHolds(q) /\ Own(g, q.project)
          BY <2>1, <2>3, <3>1 DEF IInv, Plans, PlanOf, PlanRefs, RefsOf
        <4>2. Met(q, {"delete"}) /\ files[f].project = q.project
          BY <1>1, <3>1, <3>2, <4>1 DEF RenameHolds, Own
        <4> QED
          BY <2>1, <2>3, <4>2, UnsafeIs DEF Met, Overlap
      <3> QED
        BY <1>1, <3>1, <3>2
    <2>4. CASE q.kind = "delete"
      <3>1. /\ \A g \in DOMAIN w.puts :
                   w.puts[g] = [row |-> "there", project |-> q.project, deleted |-> TRUE]
            /\ files' = [g \in Files |-> IF g \in DOMAIN w.puts THEN w.puts[g] ELSE files[g]]
        BY <1>2, <2>4, DeleteCommit DEF IInv
      <3> QED
        BY <1>1, <3>1
    <2>5. CASE q.kind = "save"
      BY <1>1, <1>2, <2>5, SaveCommit DEF IInv
    <2>6. CASE q.kind = "found"
      BY <1>1, <1>2, <2>6, FoundCommit DEF IInv
    <2>7. CASE q.kind = "destroy"
      <3>1. files' = [g \in Files |-> IF g \in w.dropFiles THEN GoneFrom(q.project) ELSE files[g]]
        BY <1>2, <2>7, DestroyCommit DEF IInv
      <3> QED
        BY <1>1, <3>1, RowsAre DEF There, GoneFrom
    <2>8. CASE q.kind = "enrol"
      BY <1>1, <1>2, <2>8, EnrolCommit DEF IInv
    <2>9. CASE q.kind = "remove"
      BY <1>1, <1>2, <2>9, RemoveCommit DEF IInv
    <2> QED
      BY <2>1, <2>2, <2>3, <2>4, <2>5, <2>6, <2>7, <2>8, <2>9 DEF Kinds
  <1>3. CASE files' = files
    BY <1>3
  <1>4. ASSUME NEW r \in Requests, NEW kind, NEW p, NEW w, Prepare(r, kind, p, w)
        PROVE  files' = files
    BY <1>4 DEF Prepare, tables
  <1>5. ASSUME NEW r \in Requests, NEW u \in Users PROVE
           /\ \A p, parent, name, type : CreateFile(r, u, p, parent, name, type) => files' = files
           /\ \A g, name : UpdateFileName(r, u, g, name) => files' = files
           /\ \A g : DeleteFile(r, u, g) \/ SaveFileContent(r, u, g) => files' = files
           /\ \A code, name : CreateProject(r, u, code, name) => files' = files
           /\ \A code : JoinByInviteCode(r, code, u) => files' = files
           /\ \A p : DeleteProject(r, u, p) \/ AddMember(r, p, u) \/ RemoveMember(r, p, u)
                    => files' = files
    BY <1>4 DEF CreateFile, UpdateFileName, DeleteFile, SaveFileContent, CreateProject,
       DeleteProject, AddMember, JoinByInviteCode, RemoveMember
  <1>6. \A r \in Requests : RollBack(r) => files' = files
    BY DEF RollBack, tables
  <1>7. \A g \in Files : TextChange(g) => files' = files
    BY DEF TextChange
  <1> QED
    BY <1>2, <1>3, <1>5, <1>6, <1>7 DEF Next, Begin

\* A deleted file does not come back, unless it was being renamed: the
\* renaming writes every column, the mark as well (updateFileName).
THEOREM DeletedFilesStay == Spec => DeletedStays
  <1> DEFINE A == \A f \in Files :
                    f \in There(files) /\ files[f].deleted /\ f \in There(files)' =>
                        \/ files'[f].deleted
                        \/ <<"deleted", files[f].project>> \in races'
  <1>1. IInv /\ [Next]_vars => [A]_vars
    BY DeletedStep
  <1> HIDE DEF A
  <1>2. Spec => [][A]_vars
    BY <1>1, Invariance, PTL DEF Spec
  <1> QED
    BY <1>2 DEF DeletedStays, A

\* The types hold of every behaviour.
THEOREM TypeCorrect == Spec => []TypeOK
  <1>1. IInv => TypeOK
    <2> SUFFICES ASSUME IInv PROVE TypeOK
      OBVIOUS
    <2>1. Shape
      BY DEF IInv
    <2>2. \A r \in Requests : request[r].kind \in Kinds \cup {"idle"}
      BY <2>1, BusyIs DEF Busy, Idle
    <2> QED
      BY <2>1, <2>2 DEF Shape, TypeOK, ProjectRows, MemberRows, ContentRows
  <1> QED
    BY <1>1, Invariance, PTL
=============================================================================
