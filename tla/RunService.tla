----------------------------- MODULE RunService -----------------------------
(***************************************************************************)
(* What one /ws/compile connection promises its client, whatever the       *)
(* threads behind it do: one run at a time, one answer for each run, given *)
(* before the next run is accepted, and sent unless the connection ended   *)
(* before.  CompileSession implements it.                                  *)
(*                                                                         *)
(* A run may stay unanswered for ever, since a client that stops it early  *)
(* finds that it does (StuckOnlyAfterStop of CompileSession).              *)
(***************************************************************************)
EXTENDS Naturals

CONSTANT MaxRuns    \* bound: runs a connection accepts

VARIABLES
    up,          \* the connection stands
    current,     \* the run in progress, or 0
    accepted,    \* the last run accepted
    answer       \* what became of each run's result

vars == <<up, current, accepted, answer>>

Init ==
    /\ up = TRUE
    /\ current = 0
    /\ accepted = 0
    /\ answer = [r \in 1 .. MaxRuns |-> "none"]

Accept ==
    /\ up
    /\ current = 0
    /\ accepted < MaxRuns
    /\ accepted' = accepted + 1
    /\ current' = accepted + 1
    /\ UNCHANGED <<up, answer>>

Answer ==
    /\ current # 0
    /\ answer[current] = "none"
    /\ answer' = [answer EXCEPT ![current] = IF up THEN "sent" ELSE "dropped"]
    /\ UNCHANGED <<up, current, accepted>>

Release ==
    /\ current # 0
    /\ answer[current] # "none"
    /\ current' = 0
    /\ UNCHANGED <<up, accepted, answer>>

HangUp ==
    /\ up
    /\ up' = FALSE
    /\ UNCHANGED <<current, accepted, answer>>

Next == Accept \/ Answer \/ Release \/ HangUp

Spec == Init /\ [][Next]_vars
=============================================================================
