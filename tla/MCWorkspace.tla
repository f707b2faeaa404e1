----------------------------- MODULE MCWorkspace ----------------------------
(***************************************************************************)
(* Requests, names and invite codes are interchangeable.  A project is     *)
(* played with two names and two requests while it is the only one that    *)
(* was made.  Once there is a second, one name is in use, since names are  *)
(* compared within a project, and no two requests are of one project.      *)
(***************************************************************************)
EXTENDS Workspace, TLC

Symmetry == Permutations(Requests) \cup Permutations(Names) \cup Permutations(Codes)

\* The files that are live, and those that requests are about to write.
FilesOf(w) == {w.file} \cup {w.puts[f] : f \in DOMAIN w.puts}
NamesInUse ==
    LET rows == {files[f] : f \in Live} \cup UNION {FilesOf(request[r].writes) : r \in Busy}
    IN  {row.name : row \in {x \in rows : "name" \in DOMAIN x}}

Second == \E p \in Projects : p > 1 /\ projects[p] # Unused

SideBySide ==
    Second => /\ Cardinality(NamesInUse) <= 1
              /\ \A r, s \in Busy : r # s => request[r].project # request[s].project
=============================================================================
