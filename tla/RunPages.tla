------------------------------ MODULE RunPages ------------------------------
(***************************************************************************)
(* The two pages that run programs, in front of the service: the IDE page  *)
(* of the built bundle and the console of index.html.  Each keeps one      *)
(* reference to a WebSocket and a flag that says a program is running; the *)
(* callbacks of a socket it no longer refers to still reach it.            *)
(*                                                                         *)
(* Behind every socket is a session that takes, answers and ends its runs  *)
(* as RunService does.  Its replies are results and errors, which both     *)
(* pages take alike and which carry no run: a reply is only counted.       *)
(* Output changes nothing in either page and is left out.                  *)
(***************************************************************************)
EXTENDS Integers, Sequences, FiniteSets

CONSTANTS
    MaxSockets,    \* bound: sockets the page opens
    MaxRuns,       \* bound: clicks on Run that have an effect
    MaxOthers      \* bound: clicks on Stop, and inputs

ASSUME BoundsAssumption ==
    MaxSockets \in Nat \ {0} /\ MaxRuns \in Nat /\ MaxOthers \in Nat

Sockets == 1 .. MaxSockets
Starts == {"start", "blank"}      \* a run, and one of an empty text
Frames == Starts \cup {"stop", "input"}

VARIABLES
    page,         \* which page it is
    sock,         \* readyState of each socket
    ref,          \* the socket the page refers to, or 0
    queued,       \* the start to send when a socket opens, or "none"
    running,      \* the page says a program runs ...
    pending,      \* ... or is about to
    up, down,     \* frames to the server; number of replies to the page
    alive,        \* the server's end of each socket
    current, accepted, answer,    \* ... and its session, as in RunService
    clicks, others,               \* clicks so far, for the bounds
    overlapped,   \* history: the last start may get another's reply
    crossed       \* history: a socket was made while one was closing

pageVars == <<page, ref, queued, running, pending>>
serverVars == <<alive, current, accepted, answer>>
historyVars == <<clicks, others, overlapped, crossed>>
vars == <<pageVars, sock, up, down, serverVars, historyVars>>

TypeOK ==
    /\ page \in {"ide", "console"}
    /\ sock \in [Sockets -> {"none", "connecting", "open", "closing", "closed"}]
    /\ ref \in 0 .. MaxSockets
    /\ queued \in Starts \cup {"none"}
    /\ running \in BOOLEAN /\ pending \in BOOLEAN
    /\ up \in [Sockets -> Seq(Frames)]
    /\ down \in [Sockets -> 0 .. MaxRuns + MaxOthers]
    /\ alive \in [Sockets -> BOOLEAN]
    /\ current \in [Sockets -> 0 .. MaxRuns]
    /\ accepted \in [Sockets -> 0 .. MaxRuns]
    /\ answer \in [Sockets -> [1 .. MaxRuns -> {"none", "sent", "dropped"}]]
    /\ clicks \in 0 .. MaxRuns /\ others \in 0 .. MaxOthers
    /\ overlapped \in BOOLEAN /\ crossed \in BOOLEAN

\* The console connects when it is loaded, the IDE page at the first run.
Init ==
    /\ page \in {"ide", "console"}
    /\ ref = IF page = "console" THEN 1 ELSE 0
    /\ sock = [s \in Sockets |-> IF s = ref THEN "connecting" ELSE "none"]
    /\ queued = "none"
    /\ running = FALSE /\ pending = FALSE
    /\ up = [s \in Sockets |-> <<>>]
    /\ down = [s \in Sockets |-> 0]
    /\ alive = [s \in Sockets |-> TRUE]
    /\ current = [s \in Sockets |-> 0]
    /\ accepted = [s \in Sockets |-> 0]
    /\ answer = [s \in Sockets |-> [r \in 1 .. MaxRuns |-> "none"]]
    /\ clicks = 0 /\ others = 0
    /\ overlapped = FALSE /\ crossed = FALSE

InState(states) == {s \in Sockets : sock[s] \in states}

\* The server has a run on s and has not answered it.
RunsOn(s) == current[s] # 0 /\ answer[s][current[s]] = "none"

\* Something else than a start now sent on s may still call back.
Outstanding(s) ==
    \/ up[s] # <<>> \/ down[s] > 0 \/ RunsOn(s)
    \/ InState({"connecting", "open", "closing"}) \ {s} # {}

\* new WebSocket: the next socket, which becomes the page's.
NewSocket(s) ==
    /\ sock[s] = "none"
    /\ \A t \in 1 .. s - 1 : sock[t] # "none"
    /\ ref' = s
    /\ crossed' = (crossed \/ InState({"closing"}) # {})

SendStart(s, m) ==
    /\ up' = [up EXCEPT ![s] = Append(@, m)]
    /\ running' = TRUE
    /\ overlapped' = Outstanding(s)

-----------------------------------------------------------------------------
(* The IDE page: be, Ae, je, Me and the callbacks of Ao.                   *)

\* An open socket is overlooked.
ReusableConnecting == ref # 0 /\ sock[ref] = "connecting"

Reusable == ref # 0 /\ sock[ref] \in {"connecting", "open"}

\* The button is disabled while a program runs or is about to.
RunEnabled == ~running /\ ~pending /\ clicks < MaxRuns

\* Run, through an open socket of the page's ...
RunNow(m) ==
    /\ page = "ide"
    /\ RunEnabled
    /\ Reusable /\ sock[ref] = "open"
    /\ SendStart(ref, m)
    /\ clicks' = clicks + 1
    /\ UNCHANGED <<page, sock, ref, queued, pending, down, serverVars, others, crossed>>

\* ... or later, when the one that is connecting, or a new one, is open.
RunQueued(m) ==
    /\ page = "ide"
    /\ RunEnabled
    /\ \/ Reusable /\ sock[ref] = "connecting" /\ UNCHANGED <<sock, ref, crossed>>
       \/ /\ ~Reusable
          /\ \E s \in Sockets : NewSocket(s) /\ sock' = [sock EXCEPT ![s] = "connecting"]
    /\ queued' = m
    /\ pending' = TRUE
    /\ clicks' = clicks + 1
    /\ UNCHANGED <<page, running, up, down, serverVars, others, overlapped>>

Opens(s) ==
    /\ sock[s] = "connecting"
    /\ sock' = [sock EXCEPT ![s] = "open"]

\* onopen that sends and leaves pending raised.
IdeOpensStaysPending(s) ==
    /\ page = "ide"
    /\ Opens(s)
    /\ IF queued = "none"
       THEN UNCHANGED <<queued, running, up, overlapped>>
       ELSE SendStart(s, queued) /\ queued' = "none"
    /\ UNCHANGED <<page, ref, pending, down, serverVars, clicks, others, crossed>>

\* onopen that sends and does not say that a program runs.
IdeOpensIdle(s) ==
    /\ page = "ide"
    /\ Opens(s)
    /\ IF queued = "none"
       THEN UNCHANGED <<queued, pending, up, overlapped>>
       ELSE /\ up' = [up EXCEPT ![s] = Append(@, queued)]
            /\ overlapped' = Outstanding(s)
            /\ queued' = "none"
            /\ pending' = FALSE
    /\ UNCHANGED <<page, ref, running, down, serverVars, clicks, others, crossed>>

\* onopen of the IDE page: whatever is queued goes out on this socket.
IdeOpens(s) ==
    /\ page = "ide"
    /\ Opens(s)
    /\ IF queued = "none"
       THEN UNCHANGED <<queued, pending, running, up, overlapped>>
       ELSE /\ SendStart(s, queued)
            /\ queued' = "none"
            /\ pending' = FALSE
    /\ UNCHANGED <<page, ref, down, serverVars, clicks, others, crossed>>

\* onclose without the flags.
IdeOnCloseKeeps ==
    /\ ref' = 0
    /\ UNCHANGED <<running, pending>>

\* onclose, whichever socket it was.
IdeOnClose ==
    /\ ref' = 0
    /\ running' = FALSE
    /\ pending' = FALSE

\* The closing handshake is over.
IdeCloses(s) ==
    /\ page = "ide"
    /\ sock[s] = "closing"
    /\ sock' = [sock EXCEPT ![s] = "closed"]
    /\ IdeOnClose
    /\ UNCHANGED <<page, queued, up, down, serverVars, historyVars>>

\* The connection cannot be made, or breaks: onerror, and onclose after it in
\* the same task.  What was on the way to the page is lost.
IdeFails(s) ==
    /\ page = "ide"
    /\ sock[s] \in {"connecting", "open"}
    /\ sock' = [sock EXCEPT ![s] = "closed"]
    /\ queued' = "none"
    /\ IdeOnClose
    /\ down' = [down EXCEPT ![s] = 0]
    /\ UNCHANGED <<page, up, serverVars, historyVars>>

\* Stop: the page says at once that nothing runs.
IdeStop ==
    /\ page = "ide"
    /\ running
    /\ others < MaxOthers
    /\ ref # 0 /\ sock[ref] = "open"
    /\ queued' = "none"
    /\ running' = FALSE /\ pending' = FALSE
    /\ up' = [up EXCEPT ![ref] = Append(@, "stop")]
    /\ others' = others + 1
    /\ overlapped' = TRUE
    /\ UNCHANGED <<page, sock, ref, down, serverVars, clicks, crossed>>

-----------------------------------------------------------------------------
(* The console.                                                            *)

\* Run with no socket, or a closed one, makes one and does nothing else.
ConsoleConnect ==
    /\ page = "console"
    /\ sock[ref] = "closed"
    /\ \E s \in Sockets : NewSocket(s) /\ sock' = [sock EXCEPT ![s] = "connecting"]
    /\ UNCHANGED <<page, queued, running, pending, up, down, serverVars, clicks,
                   others, overlapped>>

ConsoleRun(m) ==
    /\ page = "console"
    /\ sock[ref] = "open"
    /\ ~running
    /\ clicks < MaxRuns
    /\ SendStart(ref, m)
    /\ clicks' = clicks + 1
    /\ UNCHANGED <<page, sock, ref, queued, pending, down, serverVars, others, crossed>>

ConsoleOpens(s) ==
    /\ page = "console"
    /\ Opens(s)
    /\ UNCHANGED <<pageVars, up, down, serverVars, historyVars>>

\* The close handler of the console tells the user, and no more.
ConsoleCloses(s) ==
    /\ page = "console"
    /\ sock[s] \in {"connecting", "open", "closing"}
    /\ sock' = [sock EXCEPT ![s] = "closed"]
    /\ down' = [down EXCEPT ![s] = 0]
    /\ UNCHANGED <<pageVars, up, serverVars, historyVars>>

ConsoleStop ==
    /\ page = "console"
    /\ others < MaxOthers
    /\ sock[ref] = "open"
    /\ up' = [up EXCEPT ![ref] = Append(@, "stop")]
    /\ others' = others + 1
    /\ UNCHANGED <<pageVars, sock, down, serverVars, clicks, overlapped, crossed>>

-----------------------------------------------------------------------------
(* What both do.                                                           *)

\* An input may be answered by an error.
Input ==
    /\ ref # 0 /\ sock[ref] = "open"
    /\ others < MaxOthers
    /\ up' = [up EXCEPT ![ref] = Append(@, "input")]
    /\ others' = others + 1
    /\ overlapped' = TRUE
    /\ UNCHANGED <<pageVars, sock, down, serverVars, clicks, crossed>>

\* An error is shown and changes no flag.
OnReplyKeeps(s) ==
    /\ sock[s] = "open"
    /\ down[s] > 0
    /\ down' = [down EXCEPT ![s] = @ - 1]
    /\ UNCHANGED <<pageVars, sock, up, serverVars, historyVars>>

\* A result or an error, of whichever run and through whichever socket.
OnReply(s) ==
    /\ sock[s] = "open"
    /\ down[s] > 0
    /\ down' = [down EXCEPT ![s] = @ - 1]
    /\ running' = FALSE /\ pending' = FALSE
    /\ UNCHANGED <<page, ref, queued, sock, up, serverVars, historyVars>>

\* The server's end is gone and all it sent has arrived.
BeginClose(s) ==
    /\ sock[s] = "open"
    /\ ~alive[s]
    /\ down[s] = 0
    /\ sock' = [sock EXCEPT ![s] = "closing"]
    /\ UNCHANGED <<pageVars, up, down, serverVars, historyVars>>

-----------------------------------------------------------------------------
(* The server, which hears of a broken connection sooner or later.         *)

Reply(s) == down' = IF sock[s] = "open" THEN [down EXCEPT ![s] = @ + 1] ELSE down

Consume(s, m) ==
    /\ alive[s]
    /\ up[s] # <<>>
    /\ Head(up[s]) = m
    /\ up' = [up EXCEPT ![s] = Tail(@)]

Accept(s) ==
    /\ Consume(s, "start")
    /\ current[s] = 0
    /\ accepted' = [accepted EXCEPT ![s] = @ + 1]
    /\ current' = [current EXCEPT ![s] = accepted[s] + 1]
    /\ UNCHANGED <<pageVars, sock, down, alive, answer, historyVars>>

\* "already in progress", "code is required", and what an input may lead to:
\* "no active execution" or "failed to write input".
Refuse(s) ==
    /\ \/ Consume(s, "start") /\ current[s] # 0
       \/ Consume(s, "blank")
       \/ Consume(s, "input")
    /\ Reply(s)
    /\ UNCHANGED <<pageVars, sock, serverVars, historyVars>>

TakeSilently(s) ==
    /\ \/ Consume(s, "stop")
       \/ Consume(s, "input") /\ current[s] # 0
    /\ UNCHANGED <<pageVars, sock, down, serverVars, historyVars>>

Answer(s) ==
    /\ RunsOn(s)
    /\ answer' = [answer EXCEPT ![s][current[s]] = IF alive[s] THEN "sent" ELSE "dropped"]
    /\ IF alive[s] THEN Reply(s) ELSE UNCHANGED down
    /\ UNCHANGED <<pageVars, sock, up, alive, current, accepted, historyVars>>

Release(s) ==
    /\ current[s] # 0
    /\ ~RunsOn(s)
    /\ current' = [current EXCEPT ![s] = 0]
    /\ UNCHANGED <<pageVars, sock, up, down, alive, accepted, answer, historyVars>>

HangUp(s) ==
    /\ sock[s] \notin {"none", "connecting"}
    /\ alive[s]
    /\ alive' = [alive EXCEPT ![s] = FALSE]
    /\ up' = [up EXCEPT ![s] = <<>>]
    /\ UNCHANGED <<pageVars, sock, down, current, accepted, answer, historyVars>>

-----------------------------------------------------------------------------
Page ==
    \/ \E m \in Starts : RunNow(m) \/ RunQueued(m) \/ ConsoleRun(m)
    \/ IdeStop \/ ConsoleConnect \/ ConsoleStop \/ Input

Socket(s) ==
    \/ IdeOpens(s) \/ IdeFails(s) \/ IdeCloses(s)
    \/ ConsoleOpens(s) \/ ConsoleCloses(s)

Server(s) ==
    \/ Accept(s) \/ Refuse(s) \/ TakeSilently(s) \/ Answer(s) \/ Release(s) \/ HangUp(s)

Next ==
    \/ Page
    \/ \E s \in Sockets : Socket(s) \/ OnReply(s) \/ BeginClose(s) \/ Server(s)

Spec == Init /\ [][Next]_vars

\* A browser ends every attempt to connect, one way or the other.
FairSpec == Spec /\ \A s \in Sockets : WF_vars(sock[s] = "connecting" /\ Socket(s))

-----------------------------------------------------------------------------
(* What holds.                                                             *)

\* While the page says that a program runs, something is on its way that will
\* say otherwise, or the server owes it: a frame that is answered, a run, a
\* reply, the end of the socket.  The console does not hear of the end: one
\* that had a socket closed may say so for ever, and refuses to run.
RunningHasCause ==
    running =>
        \/ \E s \in InState({"open"}) :
              \/ \E i \in DOMAIN up[s] : up[s][i] \in Starts
              \/ RunsOn(s) \/ down[s] > 0 \/ ~alive[s]
        \/ InState({"closing"}) # {}
        \/ page = "console" /\ InState({"closed"}) # {}

\* While the server runs a program for the page, the page says so, and the
\* IDE page offers Stop: unless the user stopped it or typed an input since,
\* or started it while a reply or the end of another socket was outstanding.
\* Nothing in a reply tells which run it is for.
IdleIsHonest ==
    (\E s \in InState({"open"}) : RunsOn(s)) => (running \/ overlapped)

\* The page has one socket that can carry a run, and it is the one that Stop
\* and the inputs use: unless a run was asked for while a socket was closing,
\* whose end then takes away the reference to the new one.
StopReaches ==
    crossed \/ (/\ Cardinality(InState({"connecting", "open"})) <= 1
                /\ InState({"connecting", "open"}) \subseteq {ref})

\* A run that waits for its socket is sent, or given up with it.
PendingEnds == pending ~> ~pending
=============================================================================
