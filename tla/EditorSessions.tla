--------------------------- MODULE EditorSessions ---------------------------
(* What the rooms of the editor and its messages have in common.             *)
CONSTANTS
    Sessions,   \* the WebSocket sessions ever made; in EditorSync, to one file
    None        \* Java's null
=============================================================================
