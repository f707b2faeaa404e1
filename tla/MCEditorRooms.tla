--------------------------- MODULE MCEditorRooms ---------------------------
(* Instances of EditorRooms for TLC.  Sessions and files are interchangeable. *)
EXTENDS EditorRooms, TLC
Symmetry == Permutations(Sessions) \cup Permutations(Files)
=============================================================================
