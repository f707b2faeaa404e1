--------------------------- MODULE RunPages_proofs ---------------------------
(***************************************************************************)
(* The two pages that run programs, for any number of sockets, runs and    *)
(* other clicks: Stop and the inputs go where the run is, the page's       *)
(* "running" has a cause, and its "idle" is true unless something else     *)
(* than the last start may have called back.                               *)
(*                                                                         *)
(* StopReaches needs that nothing connects or is open while a socket       *)
(* closes (Reference).  RunningHasCause needs that a run not yet accepted  *)
(* has no answer (Unanswered), and that the runs a server takes are within *)
(* the bound: those it has accepted, the starts on their way to it and the *)
(* one the page still holds are no more than the clicks (Counted).         *)
(* IdleIsHonest needs that one reply at most is owed (OneOwed).            *)
(***************************************************************************)
EXTENDS RunPages, FiniteSetTheorems, SequenceTheorems, TLAPS

\* The types, without the bounds on the counters.
Shape ==
    /\ page \in {"ide", "console"}
    /\ sock \in [Sockets -> {"none", "connecting", "open", "closing", "closed"}]
    /\ ref \in 0 .. MaxSockets
    /\ queued \in Starts \cup {"none"}
    /\ up \in [Sockets -> Seq(Frames)]
    /\ down \in [Sockets -> Nat]
    /\ alive \in [Sockets -> BOOLEAN]
    /\ current \in [Sockets -> Nat]
    /\ accepted \in [Sockets -> Nat]
    /\ answer \in [Sockets -> [1 .. MaxRuns -> {"none", "sent", "dropped"}]]
    /\ clicks \in 0 .. MaxRuns

\* The starts among the frames on their way.
StartsIn(q) == {i \in 1 .. Len(q) : q[i] \in Starts}
Waiting == IF queued = "none" THEN 0 ELSE 1

Counted ==
    \A s \in Sockets : accepted[s] + Cardinality(StartsIn(up[s])) + Waiting <= clicks

Unanswered ==
    \A s \in Sockets :
        /\ current[s] <= accepted[s]
        /\ \A r \in 1 .. MaxRuns : r > accepted[s] => answer[s][r] = "none"

Usable == {"connecting", "open"}

Reference ==
    /\ page = "console" => ref # 0
    /\ ~crossed => /\ InState(Usable) \subseteq {ref}
                   /\ InState({"closing"}) # {} => InState(Usable) = {}

HasStart(s) == \E i \in 1 .. Len(up[s]) : up[s][i] \in Starts
Cause(s) == sock[s] = "open" /\ (HasStart(s) \/ RunsOn(s) \/ down[s] > 0 \/ ~alive[s])

\* RunningHasCause, socket by socket.
Caused ==
    running =>
        \/ \E s \in Sockets : Cause(s)
        \/ \E s \in Sockets : sock[s] = "closing"
        \/ page = "console" /\ \E s \in Sockets : sock[s] = "closed"

IInv == Shape /\ Counted /\ Unanswered /\ Reference /\ Caused

-----------------------------------------------------------------------------
(* Counting.                                                               *)

LEMMA StartsFinite ==
    ASSUME NEW q \in Seq(Frames)
    PROVE  IsFiniteSet(StartsIn(q)) /\ Cardinality(StartsIn(q)) \in Nat
<1>1. Len(q) \in Nat /\ IsFiniteSet(1 .. Len(q))
  BY LenProperties, FS_Interval
<1>2. IsFiniteSet(StartsIn(q))
  BY <1>1, FS_Subset DEF StartsIn
<1> QED
  BY <1>2, FS_CardinalityType

LEMMA StartsAppend ==
    ASSUME NEW q \in Seq(Frames), NEW m \in Frames
    PROVE  Cardinality(StartsIn(Append(q, m))) <=
               Cardinality(StartsIn(q)) + (IF m \in Starts THEN 1 ELSE 0)
<1> DEFINE n == Len(q) + 1
<1>1. /\ Len(q) \in Nat /\ Len(Append(q, m)) = n
      /\ \A i \in 1 .. Len(q) : Append(q, m)[i] = q[i]
      /\ Append(q, m)[n] = m
  BY LenProperties, AppendProperties
<1>2. n \notin StartsIn(q) /\ 1 .. n = 1 .. Len(q) \cup {n}
  BY <1>1 DEF StartsIn
<1>3. CASE m \in Starts
  <2>1. StartsIn(Append(q, m)) = StartsIn(q) \cup {n}
    BY <1>1, <1>2, <1>3 DEF StartsIn
  <2>2. IsFiniteSet(StartsIn(q)) /\ Cardinality(StartsIn(q)) \in Nat
    BY StartsFinite
  <2>3. Cardinality(StartsIn(q) \cup {n}) = Cardinality(StartsIn(q)) + 1
    <3> HIDE DEF n
    <3> QED
      BY <2>2, <1>2, FS_AddElement
  <2> QED
    BY <2>1, <2>2, <2>3, <1>3
<1>4. CASE m \notin Starts
  <2>1. StartsIn(Append(q, m)) = StartsIn(q)
    BY <1>1, <1>2, <1>4 DEF StartsIn
  <2> QED
    BY <2>1, <1>4, StartsFinite
<1> QED
  BY <1>3, <1>4

LEMMA StartsTail ==
    ASSUME NEW q \in Seq(Frames), q # <<>>
    PROVE  Cardinality(StartsIn(Tail(q))) + (IF Head(q) \in Starts THEN 1 ELSE 0)
               <= Cardinality(StartsIn(q))
<1> DEFINE rest == StartsIn(q) \ {1}
           f == [i \in StartsIn(Tail(q)) |-> i + 1]
<1>1. /\ Len(q) \in Nat \ {0} /\ Tail(q) \in Seq(Frames) /\ Len(Tail(q)) = Len(q) - 1
      /\ \A i \in 1 .. Len(q) - 1 : Tail(q)[i] = q[i + 1]
      /\ Head(q) = q[1]
  BY LenProperties, HeadTailProperties, EmptySeq
<1>2. f \in Injection(StartsIn(Tail(q)), rest)
  <2>1. \A i \in StartsIn(Tail(q)) : i + 1 \in rest
    BY <1>1 DEF StartsIn
  <2>2. \A i, j \in StartsIn(Tail(q)) : f[i] = f[j] => i = j
    BY <1>1 DEF StartsIn
  <2> QED
    BY <2>1, <2>2 DEF Injection, IsInjective
<1>3. /\ IsFiniteSet(rest)
      /\ Cardinality(rest) = IF 1 \in StartsIn(q) THEN Cardinality(StartsIn(q)) - 1
                             ELSE Cardinality(StartsIn(q))
  BY StartsFinite, FS_RemoveElement
<1>4. Cardinality(StartsIn(Tail(q))) <= Cardinality(rest)
  <2> HIDE DEF f, rest
  <2> QED
    BY <1>2, <1>3, FS_Injection
<1>5. 1 \in StartsIn(q) <=> Head(q) \in Starts
  BY <1>1 DEF StartsIn
<1>6. Cardinality(StartsIn(q)) \in Nat /\ Cardinality(StartsIn(Tail(q))) \in Nat
  BY <1>1, StartsFinite
<1> QED
  BY <1>3, <1>4, <1>5, <1>6

LEMMA StartsNone == Cardinality(StartsIn(<<>>)) = 0
<1>1. StartsIn(<<>>) = {}
  BY DEF StartsIn
<1> QED
  BY <1>1, FS_EmptySet

-----------------------------------------------------------------------------
(* The types.                                                              *)

LEMMA ShapeInit == Init => Shape
BY BoundsAssumption DEF Init, Shape, Sockets

LEMMA PageShape == ASSUME Shape, Page PROVE Shape'
<1>1. ASSUME NEW m \in Starts, RunNow(m) \/ ConsoleRun(m) PROVE Shape'
  <2>2. up' = [up EXCEPT ![ref] = Append(@, m)]
    BY <1>1 DEF RunNow, ConsoleRun, SendStart
  <2>3. up' \in [Sockets -> Seq(Frames)]
    <3>1. m \in Frames
      BY DEF Frames
    <3>2. ref \in Sockets => Append(up[ref], m) \in Seq(Frames)
      BY <3>1, AppendProperties DEF Shape
    <3> QED
      BY <2>2, <3>2 DEF Shape
  <2>4. clicks' \in 0 .. MaxRuns
    BY <1>1, BoundsAssumption DEF Shape, RunNow, RunEnabled, ConsoleRun
  <2> QED
    BY <1>1, <2>3, <2>4 DEF Shape, RunNow, ConsoleRun, serverVars
<1>2. ASSUME NEW m \in Starts, RunQueued(m) PROVE Shape'
  <2>1. /\ sock' \in [Sockets -> {"none", "connecting", "open", "closing", "closed"}]
        /\ ref' \in 0 .. MaxSockets
    BY <1>2 DEF Shape, RunQueued, NewSocket, Sockets
  <2>2. clicks' \in 0 .. MaxRuns
    BY <1>2, BoundsAssumption DEF Shape, RunQueued, RunEnabled
  <2> QED
    BY <1>2, <2>1, <2>2 DEF Shape, RunQueued, serverVars
<1>3. CASE ConsoleConnect
  <2>1. /\ sock' \in [Sockets -> {"none", "connecting", "open", "closing", "closed"}]
        /\ ref' \in 0 .. MaxSockets
    BY <1>3 DEF Shape, ConsoleConnect, NewSocket, Sockets
  <2> QED
    BY <1>3, <2>1 DEF Shape, ConsoleConnect, serverVars
<1>4. CASE IdeStop \/ ConsoleStop \/ Input
  <2>1. \E m \in Frames : up' = [up EXCEPT ![ref] = Append(@, m)]
    BY <1>4 DEF IdeStop, ConsoleStop, Input, Frames
  <2>2. PICK m \in Frames : up' = [up EXCEPT ![ref] = Append(@, m)]
    BY <2>1
  <2>3. up' \in [Sockets -> Seq(Frames)]
    <3>1. ref \in Sockets => Append(up[ref], m) \in Seq(Frames)
      BY AppendProperties DEF Shape
    <3> QED
      BY <2>2, <3>1 DEF Shape
  <2>4. queued' \in Starts \cup {"none"}
    BY <1>4 DEF Shape, IdeStop, ConsoleStop, Input, pageVars
  <2> QED
    BY <1>4, <2>3, <2>4 DEF Shape, IdeStop, ConsoleStop, Input, pageVars, serverVars
<1> QED
  BY <1>1, <1>2, <1>3, <1>4 DEF Page

LEMMA SocketShape ==
    ASSUME Shape, NEW s \in Sockets, Socket(s) \/ OnReply(s) \/ BeginClose(s) PROVE Shape'
<1>1. CASE IdeOpens(s)
  <2>1. up' \in [Sockets -> Seq(Frames)]
    <3>1. queued # "none" => Append(up[s], queued) \in Seq(Frames)
      BY AppendProperties DEF Shape, Frames
    <3> QED
      BY <1>1, <3>1 DEF Shape, IdeOpens, SendStart
  <2> QED
    BY <1>1, <2>1 DEF Shape, IdeOpens, Opens, SendStart, serverVars
<1>2. CASE IdeFails(s) \/ IdeCloses(s)
  <2>1. ref' \in 0 .. MaxSockets
    BY <1>2, BoundsAssumption DEF IdeFails, IdeCloses, IdeOnClose
  <2>2. sock' \in [Sockets -> {"none", "connecting", "open", "closing", "closed"}]
    BY <1>2 DEF Shape, IdeFails, IdeCloses
  <2>5. down' \in [Sockets -> Nat]
    <3>1. down' = down \/ down' = [down EXCEPT ![s] = 0]
      BY <1>2 DEF IdeFails, IdeCloses
    <3>2. down \in [Sockets -> Nat]
      BY DEF Shape
    <3> QED
      BY <3>1, <3>2
  <2>3. queued' \in Starts \cup {"none"} /\ clicks' \in 0 .. MaxRuns
    BY <1>2 DEF Shape, IdeFails, IdeCloses, historyVars
  <2>4. UNCHANGED <<page, up, serverVars>>
    BY <1>2 DEF IdeFails, IdeCloses
  <2> QED
    BY <2>1, <2>2, <2>3, <2>4, <2>5 DEF Shape, serverVars
<1>3. CASE ConsoleOpens(s) \/ ConsoleCloses(s) \/ BeginClose(s)
  <2>1. sock' \in [Sockets -> {"none", "connecting", "open", "closing", "closed"}]
    BY <1>3 DEF Shape, ConsoleOpens, ConsoleCloses, BeginClose, Opens
  <2>3. down' \in [Sockets -> Nat]
    <3>1. down' = down \/ down' = [down EXCEPT ![s] = 0]
      BY <1>3 DEF ConsoleOpens, ConsoleCloses, BeginClose, Opens
    <3>2. down \in [Sockets -> Nat]
      BY DEF Shape
    <3> QED
      BY <3>1, <3>2
  <2>2. UNCHANGED <<pageVars, up, serverVars, historyVars>>
    BY <1>3 DEF ConsoleOpens, ConsoleCloses, BeginClose
  <2> QED
    BY <2>1, <2>2, <2>3 DEF Shape, pageVars, serverVars, historyVars
<1>4. CASE OnReply(s)
  BY <1>4 DEF Shape, OnReply, serverVars, historyVars
<1> QED
  BY <1>1, <1>2, <1>3, <1>4 DEF Socket

LEMMA ConsumeShape ==
    ASSUME Shape, NEW s \in Sockets, NEW m, Consume(s, m)
    PROVE  /\ up' \in [Sockets -> Seq(Frames)] /\ up'[s] = Tail(up[s])
           /\ \A t \in Sockets \ {s} : up'[t] = up[t]
           /\ up[s] \in Seq(Frames) /\ up[s] # <<>> /\ Head(up[s]) = m
<1>1. up[s] \in Seq(Frames) /\ up[s] # <<>>
  BY DEF Shape, Consume
<1>2. Tail(up[s]) \in Seq(Frames)
  BY <1>1, HeadTailProperties
<1> QED
  BY <1>1, <1>2 DEF Shape, Consume

LEMMA ServerShape == ASSUME Shape, NEW s \in Sockets, Server(s) PROVE Shape'
<1>1. down' = down \/ Reply(s) => down' \in [Sockets -> Nat]
  <2>1. down \in [Sockets -> Nat]
    BY DEF Shape
  <2> QED
    BY <2>1 DEF Reply
<1>2. CASE Accept(s)
  <2>1. up' \in [Sockets -> Seq(Frames)]
    BY <1>2, ConsumeShape DEF Accept
  <2>2. accepted[s] + 1 \in Nat
    BY DEF Shape
  <2>3. current' \in [Sockets -> Nat] /\ accepted' \in [Sockets -> Nat]
    BY <1>2, <2>2 DEF Shape, Accept
  <2>4. UNCHANGED <<pageVars, sock, down, alive, answer, historyVars>>
    BY <1>2 DEF Accept
  <2> QED
    BY <2>1, <2>3, <2>4 DEF Shape, pageVars, historyVars
<1>3. CASE Refuse(s) \/ TakeSilently(s)
  <2>1. up' \in [Sockets -> Seq(Frames)]
    BY <1>3, ConsumeShape DEF Refuse, TakeSilently
  <2>2. down' \in [Sockets -> Nat]
    BY <1>1, <1>3 DEF Refuse, TakeSilently
  <2> QED
    BY <1>3, <2>1, <2>2 DEF Shape, Refuse, TakeSilently, pageVars, serverVars, historyVars
<1>4. CASE Answer(s)
  <2>1. down' \in [Sockets -> Nat]
    BY <1>1, <1>4 DEF Answer
  <2>2. answer' \in [Sockets -> [1 .. MaxRuns -> {"none", "sent", "dropped"}]]
    BY <1>4 DEF Shape, Answer
  <2> QED
    BY <1>4, <2>1, <2>2 DEF Shape, Answer, pageVars, historyVars
<1>5. CASE Release(s) \/ HangUp(s)
  <2>1. <<>> \in Seq(Frames)
    OBVIOUS
  <2>2. up' \in [Sockets -> Seq(Frames)]
    BY <1>5, <2>1 DEF Shape, Release, HangUp
  <2>4. alive' \in [Sockets -> BOOLEAN]
    BY <1>5 DEF Shape, Release, HangUp
  <2>5. current' \in [Sockets -> Nat]
    BY <1>5 DEF Shape, Release, HangUp
  <2>3. UNCHANGED <<pageVars, sock, down, accepted, answer, historyVars>>
    BY <1>5 DEF Release, HangUp
  <2> QED
    BY <2>2, <2>3, <2>4, <2>5 DEF Shape, pageVars, historyVars
<1> QED
  BY <1>2, <1>3, <1>4, <1>5 DEF Server

-----------------------------------------------------------------------------
(* The count of starts.                                                    *)

LEMMA CountedInit == Init => Counted
BY StartsNone, BoundsAssumption DEF Init, Counted, Waiting

\* What every case adds up.
LEMMA CountedFrom ==
    ASSUME Shape, Shape', Counted,
           \A s \in Sockets :
               accepted'[s] + Cardinality(StartsIn(up'[s])) + Waiting' + clicks <=
                   accepted[s] + Cardinality(StartsIn(up[s])) + Waiting + clicks'
    PROVE  Counted'
<1> SUFFICES ASSUME NEW s \in Sockets
             PROVE  (accepted[s] + Cardinality(StartsIn(up[s])) + Waiting <= clicks)'
  BY DEF Counted
<1>1. /\ accepted[s] \in Nat /\ accepted'[s] \in Nat
      /\ up[s] \in Seq(Frames) /\ up'[s] \in Seq(Frames)
      /\ clicks \in Nat /\ clicks' \in Nat
  BY BoundsAssumption DEF Shape
<1>2. Cardinality(StartsIn(up[s])) \in Nat /\ Cardinality(StartsIn(up'[s])) \in Nat
  BY <1>1, StartsFinite
<1>3. Waiting \in Nat /\ Waiting' \in Nat
  BY DEF Waiting
<1>4. accepted[s] + Cardinality(StartsIn(up[s])) + Waiting <= clicks
  BY DEF Counted
<1>5. accepted'[s] + Cardinality(StartsIn(up'[s])) + Waiting' + clicks <=
          accepted[s] + Cardinality(StartsIn(up[s])) + Waiting + clicks'
  OBVIOUS
<1> QED
  BY <1>1, <1>2, <1>3, <1>4, <1>5

\* A frame that the page sends.
LEMMA SendCounts ==
    ASSUME Shape, NEW m \in Frames, NEW t, up' = [up EXCEPT ![t] = Append(@, m)],
           NEW s \in Sockets
    PROVE  Cardinality(StartsIn(up'[s])) <=
               Cardinality(StartsIn(up[s])) + (IF m \in Starts THEN 1 ELSE 0)
<1>1. up[s] \in Seq(Frames) /\ Cardinality(StartsIn(up[s])) \in Nat
  BY StartsFinite DEF Shape
<1>2. CASE s = t
  <2>1. up'[s] = Append(up[s], m)
    BY <1>2 DEF Shape
  <2> QED
    BY <2>1, <1>1, StartsAppend
<1>3. CASE s # t
  <2>1. up'[s] = up[s]
    BY <1>3 DEF Shape
  <2> QED
    BY <2>1, <1>1
<1> QED
  BY <1>2, <1>3

\* A frame that the server takes.
LEMMA TakeCounts ==
    ASSUME Shape, NEW t \in Sockets, NEW m, Consume(t, m), NEW s \in Sockets
    PROVE  Cardinality(StartsIn(up'[s])) + (IF s = t /\ m \in Starts THEN 1 ELSE 0)
               <= Cardinality(StartsIn(up[s]))
<1>1. /\ up'[t] = Tail(up[t]) /\ up[t] \in Seq(Frames) /\ up[t] # <<>> /\ Head(up[t]) = m
      /\ s # t => up'[s] = up[s]
  BY ConsumeShape
<1>2. CASE s = t
  BY <1>1, <1>2, StartsTail
<1>3. CASE s # t
  <2>1. Cardinality(StartsIn(up[s])) \in Nat
    BY StartsFinite DEF Shape
  <2> QED
    BY <2>1, <1>1, <1>3
<1> QED
  BY <1>2, <1>3

LEMMA CountedStep == ASSUME Shape, Shape', Counted, Next PROVE Counted'
<1> SUFFICES ASSUME NEW s \in Sockets
             PROVE  accepted'[s] + Cardinality(StartsIn(up'[s])) + Waiting' + clicks <=
                        accepted[s] + Cardinality(StartsIn(up[s])) + Waiting + clicks'
  BY CountedFrom
<1>0. /\ accepted[s] \in Nat /\ clicks \in Nat /\ Waiting \in 0 .. 1 /\ Waiting' \in 0 .. 1
      /\ Cardinality(StartsIn(up[s])) \in Nat /\ Cardinality(StartsIn(up'[s])) \in Nat
  BY StartsFinite, BoundsAssumption DEF Shape, Waiting
<1>1. ASSUME NEW m \in Starts, RunNow(m) \/ ConsoleRun(m)
      PROVE  accepted'[s] + Cardinality(StartsIn(up'[s])) + Waiting' + clicks <=
                 accepted[s] + Cardinality(StartsIn(up[s])) + Waiting + clicks'
  <2>1. /\ up' = [up EXCEPT ![ref] = Append(@, m)] /\ accepted' = accepted
        /\ queued' = queued /\ clicks' = clicks + 1
    BY <1>1 DEF RunNow, ConsoleRun, SendStart, serverVars
  <2>2. Cardinality(StartsIn(up'[s])) <= Cardinality(StartsIn(up[s])) + 1
    BY <2>1, SendCounts DEF Frames
  <2>3. Waiting' = Waiting
    BY <2>1 DEF Waiting
  <2> QED
    BY <1>0, <2>1, <2>2, <2>3
<1>2. ASSUME NEW m \in Starts, RunQueued(m)
      PROVE  accepted'[s] + Cardinality(StartsIn(up'[s])) + Waiting' + clicks <=
                 accepted[s] + Cardinality(StartsIn(up[s])) + Waiting + clicks'
  <2>1. up' = up /\ accepted' = accepted /\ clicks' = clicks + 1
    BY <1>2 DEF RunQueued, serverVars
  <2> QED
    BY <1>0, <2>1
<1>3. CASE IdeStop \/ ConsoleStop \/ Input
  <2>1. /\ \E m \in {"stop", "input"} : up' = [up EXCEPT ![ref] = Append(@, m)]
        /\ accepted' = accepted /\ clicks' = clicks
        /\ queued' = queued \/ queued' = "none"
    BY <1>3 DEF IdeStop, ConsoleStop, Input, pageVars, serverVars
  <2>2. PICK m \in {"stop", "input"} : up' = [up EXCEPT ![ref] = Append(@, m)]
    BY <2>1
  <2>3. m \in Frames /\ m \notin Starts
    BY DEF Frames, Starts
  <2>4. Cardinality(StartsIn(up'[s])) <= Cardinality(StartsIn(up[s])) + 0
    BY <2>2, <2>3, SendCounts
  <2>5. Waiting' <= Waiting
    BY <2>1 DEF Waiting
  <2> QED
    BY <1>0, <2>1, <2>4, <2>5
<1>4. ASSUME NEW t \in Sockets, IdeOpens(t)
      PROVE  accepted'[s] + Cardinality(StartsIn(up'[s])) + Waiting' + clicks <=
                 accepted[s] + Cardinality(StartsIn(up[s])) + Waiting + clicks'
  <2>1. accepted' = accepted /\ clicks' = clicks
    BY <1>4 DEF IdeOpens, serverVars
  <2>2. CASE queued = "none"
    <3>1. up' = up /\ queued' = queued
      BY <1>4, <2>2 DEF IdeOpens
    <3>2. Waiting' = Waiting
      BY <3>1 DEF Waiting
    <3> QED
      BY <1>0, <2>1, <3>1, <3>2
  <2>3. CASE queued # "none"
    <3>1. /\ up' = [up EXCEPT ![t] = Append(@, queued)] /\ queued' = "none"
      BY <1>4, <2>3 DEF IdeOpens, SendStart
    <3>2. queued \in Starts /\ queued \in Frames
      BY <2>3 DEF Shape, Frames
    <3>3. Cardinality(StartsIn(up'[s])) <= Cardinality(StartsIn(up[s])) + 1
      BY <3>1, <3>2, SendCounts
    <3>4. Waiting = 1 /\ Waiting' = 0
      BY <2>3, <3>1 DEF Waiting
    <3> QED
      BY <1>0, <2>1, <3>3, <3>4
  <2> QED
    BY <2>2, <2>3
<1>5. CASE \/ ConsoleConnect
           \/ \E t \in Sockets :
                 \/ IdeFails(t) \/ IdeCloses(t) \/ ConsoleOpens(t) \/ ConsoleCloses(t)
                 \/ OnReply(t) \/ BeginClose(t) \/ Answer(t) \/ Release(t)
  <2>1. up' = up /\ accepted' = accepted /\ clicks' = clicks /\ (queued' = queued \/ queued' = "none")
    BY <1>5 DEF ConsoleConnect, IdeFails, IdeCloses, ConsoleOpens, ConsoleCloses, OnReply,
                BeginClose, Answer, Release, pageVars, serverVars, historyVars
  <2>2. Waiting' <= Waiting
    BY <2>1 DEF Waiting
  <2> QED
    BY <1>0, <2>1, <2>2
<1>6. ASSUME NEW t \in Sockets, Accept(t)
      PROVE  accepted'[s] + Cardinality(StartsIn(up'[s])) + Waiting' + clicks <=
                 accepted[s] + Cardinality(StartsIn(up[s])) + Waiting + clicks'
  <2>1. /\ Consume(t, "start") /\ clicks' = clicks /\ queued' = queued
        /\ accepted' = [accepted EXCEPT ![t] = @ + 1]
    BY <1>6 DEF Accept, pageVars, historyVars
  <2>2. Cardinality(StartsIn(up'[s])) + (IF s = t THEN 1 ELSE 0) <= Cardinality(StartsIn(up[s]))
    BY <2>1, TakeCounts DEF Starts
  <2>3. accepted'[s] = accepted[s] + (IF s = t THEN 1 ELSE 0)
    <3>1. s \in Sockets /\ accepted \in [Sockets -> Nat]
      BY DEF Shape
    <3>2. accepted[s] \in Nat
      BY <3>1
    <3>3. CASE s = t
      BY <3>1, <3>3, <2>1
    <3>4. CASE s # t
      BY <3>1, <3>2, <3>4, <2>1
    <3> QED
      BY <3>3, <3>4
  <2>4. Waiting' = Waiting
    BY <2>1 DEF Waiting
  <2> QED
    BY <1>0, <2>1, <2>2, <2>3, <2>4
<1>7. ASSUME NEW t \in Sockets, Refuse(t) \/ TakeSilently(t)
      PROVE  accepted'[s] + Cardinality(StartsIn(up'[s])) + Waiting' + clicks <=
                 accepted[s] + Cardinality(StartsIn(up[s])) + Waiting + clicks'
  <2>1. /\ \E m \in Frames : Consume(t, m)
        /\ clicks' = clicks /\ queued' = queued /\ accepted' = accepted
    BY <1>7 DEF Refuse, TakeSilently, pageVars, serverVars, historyVars, Frames, Starts
  <2>2. Cardinality(StartsIn(up'[s])) <= Cardinality(StartsIn(up[s]))
    <3>1. PICK m \in Frames : Consume(t, m)
      BY <2>1
    <3>2. Cardinality(StartsIn(up'[s])) + (IF s = t /\ m \in Starts THEN 1 ELSE 0)
               <= Cardinality(StartsIn(up[s]))
      BY <3>1, TakeCounts
    <3> QED
      BY <3>2, <1>0
  <2>3. Waiting' = Waiting
    BY <2>1 DEF Waiting
  <2> QED
    BY <1>0, <2>1, <2>2, <2>3
<1>8. ASSUME NEW t \in Sockets, HangUp(t)
      PROVE  accepted'[s] + Cardinality(StartsIn(up'[s])) + Waiting' + clicks <=
                 accepted[s] + Cardinality(StartsIn(up[s])) + Waiting + clicks'
  <2>1. /\ up' = [up EXCEPT ![t] = <<>>]
        /\ clicks' = clicks /\ queued' = queued /\ accepted' = accepted
    BY <1>8 DEF HangUp, pageVars, historyVars
  <2>2. up'[s] = up[s] \/ up'[s] = <<>>
    BY <2>1 DEF Shape
  <2>3. Cardinality(StartsIn(up'[s])) <= Cardinality(StartsIn(up[s]))
    BY <2>2, <1>0, StartsNone
  <2>4. Waiting' = Waiting
    BY <2>1 DEF Waiting
  <2> QED
    BY <1>0, <2>1, <2>3, <2>4
<1> QED
  BY <1>1, <1>2, <1>3, <1>4, <1>5, <1>6, <1>7, <1>8 DEF Next, Page, Socket, Server

-----------------------------------------------------------------------------
(* The server behind a socket.                                             *)

\* A server that accepts a run has had fewer than the bound.
LEMMA RoomForRun ==
    ASSUME Shape, Shape', Counted', NEW s \in Sockets, Accept(s)
    PROVE  accepted[s] + 1 \in 1 .. MaxRuns
<1>1. accepted'[s] = accepted[s] + 1 /\ accepted[s] \in Nat
  BY DEF Accept, Shape
<1>2. (accepted[s] + Cardinality(StartsIn(up[s])) + Waiting <= clicks)'
  BY DEF Counted
<1>3. /\ Cardinality(StartsIn(up'[s])) \in Nat /\ Waiting' \in Nat
      /\ clicks' \in Nat /\ clicks' <= MaxRuns
  BY StartsFinite, BoundsAssumption DEF Shape, Waiting
<1> QED
  BY <1>1, <1>2, <1>3, BoundsAssumption

\* The page's steps and the socket's leave the server alone.
LEMMA PageNotServer ==
    ASSUME \/ Page
           \/ \E s \in Sockets : Socket(s) \/ OnReply(s) \/ BeginClose(s)
    PROVE  UNCHANGED serverVars
BY DEF Page, RunNow, RunQueued, ConsoleRun, IdeStop, ConsoleConnect, ConsoleStop, Input,
       Socket, IdeOpens, IdeFails, IdeCloses, ConsoleOpens, ConsoleCloses, OnReply, BeginClose

LEMMA UnansweredStep ==
    ASSUME Shape, Shape', Counted', Unanswered, Next PROVE Unanswered'
<1>1. CASE UNCHANGED <<current, accepted, answer>>
  BY <1>1 DEF Unanswered
<1>2. ASSUME NEW s \in Sockets, Accept(s) PROVE Unanswered'
  <2>1. /\ accepted' = [accepted EXCEPT ![s] = @ + 1]
        /\ current' = [current EXCEPT ![s] = accepted[s] + 1] /\ answer' = answer
    BY <1>2 DEF Accept
  <2> SUFFICES ASSUME NEW t \in Sockets
               PROVE  /\ current'[t] <= accepted'[t]
                      /\ \A r \in 1 .. MaxRuns : r > accepted'[t] => answer'[t][r] = "none"
    BY DEF Unanswered
  <2>2. CASE t = s
    <3>1. accepted'[t] = accepted[t] + 1 /\ current'[t] = accepted[t] + 1 /\ accepted[t] \in Nat
      BY <2>1, <2>2 DEF Shape
    <3>2. \A r \in 1 .. MaxRuns : r > accepted[t] => answer[t][r] = "none"
      BY DEF Unanswered
    <3> QED
      BY <2>1, <3>1, <3>2
  <2>3. CASE t # s
    BY <2>1, <2>3 DEF Unanswered, Shape
  <2> QED
    BY <2>2, <2>3
<1>3. ASSUME NEW s \in Sockets, Answer(s) PROVE Unanswered'
  <2>1. /\ current[s] # 0 /\ current[s] \in Nat /\ accepted[s] \in Nat
        /\ UNCHANGED <<current, accepted>>
    BY <1>3 DEF Answer, RunsOn, Shape
  <2>2. \A t \in Sockets : \A r \in 1 .. MaxRuns :
           answer'[t][r] = answer[t][r] \/ (t = s /\ r = current[s])
    <3>1. PICK x : answer' = [answer EXCEPT ![s][current[s]] = x]
      BY <1>3 DEF Answer
    <3>2. answer' = [answer EXCEPT ![s] = [answer[s] EXCEPT ![current[s]] = x]]
      BY <3>1
    <3>3. \A t \in Sockets : answer'[t] = IF t = s THEN [answer[s] EXCEPT ![current[s]] = x]
                                         ELSE answer[t]
      BY <3>2 DEF Shape
    <3>4. \A t \in Sockets : answer[t] \in [1 .. MaxRuns -> {"none", "sent", "dropped"}]
      BY DEF Shape
    <3> QED
      BY <3>3, <3>4
  <2> QED
    BY <2>1, <2>2 DEF Unanswered
<1>4. ASSUME NEW s \in Sockets, Release(s) PROVE Unanswered'
  <2>1. current' = [current EXCEPT ![s] = 0] /\ UNCHANGED <<accepted, answer>>
    BY <1>4 DEF Release
  <2>2. \A t \in Sockets : current'[t] <= accepted[t]
    BY <2>1 DEF Unanswered, Shape
  <2> QED
    BY <2>1, <2>2 DEF Unanswered
<1>5. ASSUME NEW s \in Sockets, Refuse(s) \/ TakeSilently(s) \/ HangUp(s)
      PROVE  UNCHANGED <<current, accepted, answer>>
  BY <1>5 DEF Refuse, TakeSilently, HangUp, serverVars
<1>6. ASSUME UNCHANGED serverVars PROVE UNCHANGED <<current, accepted, answer>>
  BY <1>6 DEF serverVars
<1> QED
  BY <1>1, <1>2, <1>3, <1>4, <1>5, <1>6, PageNotServer DEF Next, Server

-----------------------------------------------------------------------------
(* The socket that the page refers to.                                     *)

LEMMA ReferenceInit == Init => Reference
BY BoundsAssumption DEF Init, Reference, InState, Usable, Sockets

\* A new socket, when the page's is not usable.
LEMMA NewReference ==
    ASSUME Shape, Reference, NEW s \in Sockets, NewSocket(s), page' = page,
           sock' = [sock EXCEPT ![s] = "connecting"],
           ref # 0 => sock[ref] \notin Usable
    PROVE  Reference'
<1>1. ref' = s /\ s # 0 /\ sock[s] = "none"
  BY BoundsAssumption DEF NewSocket, Sockets
<1>2. ASSUME ~crossed' PROVE InState(Usable)' \subseteq {s} /\ InState({"closing"})' = {}
  <2>1. ~crossed /\ InState({"closing"}) = {}
    BY <1>2 DEF NewSocket
  <2>2. InState(Usable) = {}
    <3>1. InState(Usable) \subseteq {ref} /\ 0 \notin Sockets
      BY <2>1 DEF Reference, Sockets
    <3> QED
      BY <3>1 DEF InState
  <2> QED
    BY <2>1, <2>2 DEF InState, Usable, Shape
<1> QED
  BY <1>1, <1>2 DEF Reference

LEMMA ReferenceStep == ASSUME Shape, Reference, Next PROVE Reference'
<1>1. CASE UNCHANGED <<page, sock, ref, crossed>>
  BY <1>1 DEF Reference, InState
<1>2. ASSUME NEW m \in Starts, RunQueued(m) PROVE Reference'
  <2>1. CASE UNCHANGED <<sock, ref, crossed>>
    BY <1>1, <1>2, <2>1 DEF RunQueued
  <2>2. CASE ~Reusable /\ \E s \in Sockets : NewSocket(s) /\ sock' = [sock EXCEPT ![s] = "connecting"]
    BY <1>2, <2>2, NewReference DEF RunQueued, Reusable, Usable
  <2> QED
    BY <1>2, <2>1, <2>2 DEF RunQueued
<1>3. CASE ConsoleConnect
  BY <1>3, NewReference DEF ConsoleConnect, Usable
<1>4. ASSUME NEW s \in Sockets, IdeOpens(s) \/ ConsoleOpens(s) PROVE Reference'
  <2>1. /\ sock[s] = "connecting" /\ sock' = [sock EXCEPT ![s] = "open"]
        /\ UNCHANGED <<page, ref, crossed>>
    BY <1>4 DEF IdeOpens, ConsoleOpens, Opens, pageVars, historyVars
  <2>2. InState(Usable)' = InState(Usable) /\ InState({"closing"})' = InState({"closing"})
    BY <2>1 DEF InState, Usable, Shape
  <2> QED
    BY <2>1, <2>2 DEF Reference
<1>5. ASSUME NEW s \in Sockets, BeginClose(s) PROVE Reference'
  <2>1. /\ sock[s] = "open" /\ sock' = [sock EXCEPT ![s] = "closing"]
        /\ UNCHANGED <<page, ref, crossed>>
    BY <1>5 DEF BeginClose, pageVars, historyVars
  <2>2. InState(Usable)' = InState(Usable) \ {s} /\ s \in InState(Usable)
    BY <2>1 DEF InState, Usable, Shape
  <2>3. ~crossed => InState(Usable)' = {}
    BY <2>2 DEF Reference
  <2> QED
    BY <2>1, <2>2, <2>3 DEF Reference
<1>6. ASSUME NEW s \in Sockets, IdeCloses(s) \/ IdeFails(s) \/ ConsoleCloses(s) PROVE Reference'
  <2>1. /\ sock[s] \in {"connecting", "open", "closing"}
        /\ sock' = [sock EXCEPT ![s] = "closed"] /\ UNCHANGED <<page, crossed>>
        /\ ref' = ref \/ (page = "ide" /\ ref' = 0)
    <3>1. CASE IdeCloses(s)
      BY <3>1 DEF IdeCloses, IdeOnClose, historyVars
    <3>2. CASE IdeFails(s)
      BY <3>2 DEF IdeFails, IdeOnClose, historyVars
    <3>3. CASE ConsoleCloses(s)
      BY <3>3 DEF ConsoleCloses, pageVars, historyVars
    <3> QED
      BY <1>6, <3>1, <3>2, <3>3
  <2>2. /\ InState(Usable)' = InState(Usable) \ {s}
        /\ InState({"closing"})' = InState({"closing"}) \ {s}
        /\ s \in InState(Usable) \/ s \in InState({"closing"})
    BY <2>1 DEF InState, Usable, Shape
  <2>3. ~crossed => InState(Usable)' = {}
    BY <2>2 DEF Reference
  <2> QED
    BY <2>1, <2>2, <2>3 DEF Reference
<1>7. ASSUME NEW m \in Starts, RunNow(m) \/ ConsoleRun(m) PROVE Reference'
  BY <1>1, <1>7 DEF RunNow, ConsoleRun
<1>8. CASE IdeStop \/ ConsoleStop \/ Input
  BY <1>1, <1>8 DEF IdeStop, ConsoleStop, Input, pageVars
<1>9. ASSUME NEW s \in Sockets, OnReply(s) \/ Server(s) PROVE Reference'
  BY <1>1, <1>9 DEF OnReply, Server, Accept, Refuse, TakeSilently, Answer, Release, HangUp,
                    pageVars, historyVars
<1> QED
  BY <1>2, <1>3, <1>4, <1>5, <1>6, <1>7, <1>8, <1>9 DEF Next, Page, Socket

-----------------------------------------------------------------------------
(* Why the page says that a program runs.                                  *)

LEMMA CausedIs == ASSUME Shape PROVE RunningHasCause <=> Caused
<1>1. \A s \in Sockets : DOMAIN up[s] = 1 .. Len(up[s])
  BY LenProperties DEF Shape
<1>2. (\E s \in Sockets : Cause(s)) <=>
          \E s \in InState({"open"}) :
              \/ \E i \in DOMAIN up[s] : up[s][i] \in Starts
              \/ RunsOn(s) \/ down[s] > 0 \/ ~alive[s]
  BY <1>1 DEF Cause, HasStart, InState
<1> QED
  BY <1>2 DEF RunningHasCause, Caused, InState

\* Steps that take no cause away.
LEMMA CausedKept ==
    ASSUME Shape, Caused, running' => running, page' = page,
           \A s \in Sockets : sock[s] \in {"open", "closing", "closed"} => sock'[s] = sock[s],
           \A s \in Sockets : Cause(s) => Cause(s)'
    PROVE  Caused'
BY DEF Caused

\* Frames that are added do not hide a start.
LEMMA StartKept ==
    ASSUME Shape, NEW t, NEW m \in Frames, up' = [up EXCEPT ![t] = Append(@, m)],
           NEW s \in Sockets
    PROVE  /\ HasStart(s) => HasStart(s)'
           /\ s = t /\ m \in Starts => HasStart(s)'
<1>1. CASE s # t
  BY <1>1 DEF HasStart, Shape
<1>2. CASE s = t
  <2>1. up'[s] = Append(up[s], m) /\ up[s] \in Seq(Frames)
    BY <1>2 DEF Shape
  <2>2. /\ Len(up[s]) \in Nat /\ Len(up'[s]) = Len(up[s]) + 1
        /\ \A i \in 1 .. Len(up[s]) : up'[s][i] = up[s][i]
        /\ up'[s][Len(up[s]) + 1] = m
    BY <2>1, LenProperties, AppendProperties
  <2>3. 1 .. Len(up'[s]) = 1 .. Len(up[s]) \cup {Len(up[s]) + 1}
    BY <2>2
  <2> QED
    BY <2>2, <2>3 DEF HasStart
<1> QED
  BY <1>1, <1>2

\* A frame that is taken is the first.
LEMMA StartTaken ==
    ASSUME Shape, NEW t \in Sockets, NEW m, Consume(t, m), NEW s \in Sockets
    PROVE  HasStart(s) => HasStart(s)' \/ (s = t /\ m \in Starts)
<1>1. /\ up'[t] = Tail(up[t]) /\ up[t] \in Seq(Frames) /\ up[t] # <<>> /\ Head(up[t]) = m
      /\ s # t => up'[s] = up[s]
  BY ConsumeShape
<1>2. CASE s # t
  BY <1>1, <1>2 DEF HasStart
<1>3. CASE s = t
  <2>1. /\ Len(up[t]) \in Nat \ {0} /\ Len(Tail(up[t])) = Len(up[t]) - 1
        /\ \A i \in 1 .. Len(up[t]) - 1 : Tail(up[t])[i] = up[t][i + 1]
        /\ up[t][1] = m
    BY <1>1, LenProperties, HeadTailProperties, EmptySeq
  <2> SUFFICES ASSUME NEW i \in 1 .. Len(up[t]), up[t][i] \in Starts, m \notin Starts
               PROVE  HasStart(t)'
    BY <1>3 DEF HasStart
  <2>2. i - 1 \in 1 .. Len(up[t]) - 1 /\ (i - 1) + 1 = i
    BY <2>1
  <2>3. Tail(up[t])[i - 1] \in Starts
    BY <2>1, <2>2
  <2> QED
    BY <1>1, <2>1, <2>2, <2>3 DEF HasStart
<1> QED
  BY <1>2, <1>3

LEMMA PageCause ==
    ASSUME Shape, Shape', Reference, Caused, Page PROVE Caused'
<1>1. ASSUME NEW m \in Starts, RunNow(m) \/ ConsoleRun(m) PROVE Caused'
  <2>1. /\ ref \in Sockets /\ sock[ref] = "open" /\ sock' = sock
        /\ up' = [up EXCEPT ![ref] = Append(@, m)]
    <3>1. ref # 0
      BY <1>1 DEF RunNow, ConsoleRun, Reusable, Reference
    <3>2. ref \in Sockets
      BY <3>1, BoundsAssumption DEF Shape, Sockets
    <3> QED
      BY <1>1, <3>2 DEF RunNow, ConsoleRun, SendStart
  <2>2. HasStart(ref)'
    <3>1. m \in Frames
      BY DEF Frames
    <3>2. PICK t \in Sockets : t = ref
      BY <2>1
    <3>3. HasStart(t)' /\ ref' = ref
      BY <1>1, <2>1, <3>1, <3>2, StartKept DEF RunNow, ConsoleRun
    <3> QED
      BY <3>2, <3>3
  <2>3. ref' = ref
    BY <1>1 DEF RunNow, ConsoleRun
  <2>4. Cause(ref)'
    BY <2>1, <2>2, <2>3 DEF Cause
  <2> QED
    BY <2>1, <2>3, <2>4 DEF Caused
<1>2. CASE (\E m \in Starts : RunQueued(m)) \/ ConsoleConnect
  <2>1. /\ running' = running /\ page' = page /\ UNCHANGED <<up, down, serverVars>>
        /\ \/ sock' = sock
           \/ \E s \in Sockets : sock[s] = "none" /\ sock' = [sock EXCEPT ![s] = "connecting"]
    BY <1>2 DEF RunQueued, ConsoleConnect, NewSocket
  <2>2. \A s \in Sockets : sock[s] \in {"open", "closing", "closed"} => sock'[s] = sock[s]
    BY <2>1 DEF Shape
  <2>3. \A s \in Sockets : Cause(s) => Cause(s)'
    BY <2>1, <2>2 DEF Cause, HasStart, RunsOn, serverVars
  <2> QED
    BY <2>1, <2>2, <2>3, CausedKept
<1>3. CASE IdeStop
  BY <1>3 DEF IdeStop, Caused
<1>4. CASE ConsoleStop \/ Input
  <2>1. /\ running' = running /\ page' = page /\ UNCHANGED <<sock, down, serverVars>>
        /\ \E m \in Frames : up' = [up EXCEPT ![ref] = Append(@, m)]
    BY <1>4 DEF ConsoleStop, Input, pageVars, Frames
  <2>2. \A s \in Sockets : HasStart(s) => HasStart(s)'
    BY <2>1, StartKept
  <2>3. \A s \in Sockets : Cause(s) => Cause(s)'
    BY <2>1, <2>2 DEF Cause, RunsOn, serverVars
  <2> QED
    BY <2>1, <2>3, CausedKept
<1> QED
  BY <1>1, <1>2, <1>3, <1>4 DEF Page

LEMMA SocketCause ==
    ASSUME Shape, Shape', Caused, NEW s \in Sockets, Socket(s) \/ OnReply(s) \/ BeginClose(s)
    PROVE  Caused'
<1>1. CASE IdeFails(s) \/ IdeCloses(s) \/ OnReply(s)
  BY <1>1 DEF IdeFails, IdeCloses, IdeOnClose, OnReply, Caused
<1>2. CASE BeginClose(s)
  BY <1>2 DEF BeginClose, Caused, Shape
<1>3. CASE ConsoleCloses(s)
  BY <1>3 DEF ConsoleCloses, Caused, Shape, pageVars
<1>4. CASE ConsoleOpens(s) \/ (IdeOpens(s) /\ queued = "none")
  <2>1. /\ running' = running /\ page' = page /\ UNCHANGED <<up, down, serverVars>>
        /\ sock[s] = "connecting" /\ sock' = [sock EXCEPT ![s] = "open"]
    BY <1>4 DEF ConsoleOpens, IdeOpens, Opens, pageVars
  <2>2. \A t \in Sockets : sock[t] \in {"open", "closing", "closed"} => sock'[t] = sock[t]
    BY <2>1 DEF Shape
  <2>3. \A t \in Sockets : Cause(t) => Cause(t)'
    BY <2>1, <2>2 DEF Cause, HasStart, RunsOn, serverVars
  <2> QED
    BY <2>1, <2>2, <2>3, CausedKept
<1>5. CASE IdeOpens(s) /\ queued # "none"
  <2>1. up' = [up EXCEPT ![s] = Append(@, queued)] /\ sock' = [sock EXCEPT ![s] = "open"]
    BY <1>5 DEF IdeOpens, Opens, SendStart
  <2>2. HasStart(s)'
    BY <1>5, <2>1, StartKept DEF Shape, Frames
  <2>3. Cause(s)'
    BY <2>1, <2>2 DEF Cause, Shape
  <2> QED
    BY <2>3 DEF Caused
<1> QED
  BY <1>1, <1>2, <1>3, <1>4, <1>5 DEF Socket

LEMMA ServerCause ==
    ASSUME Shape, Shape', Counted', Unanswered, Caused, NEW s \in Sockets, Server(s)
    PROVE  Caused'
<1>1. UNCHANGED <<sock, page, running>>
  BY DEF Server, Accept, Refuse, TakeSilently, Answer, Release, HangUp, pageVars
<1> SUFFICES ASSUME NEW t \in Sockets, Cause(t) PROVE Cause(t)'
  BY <1>1, CausedKept
<1>2. CASE Accept(s)
  <2>1. /\ Consume(s, "start") /\ current[s] = 0 /\ UNCHANGED <<down, alive, answer>>
        /\ current' = [current EXCEPT ![s] = accepted[s] + 1]
    BY <1>2 DEF Accept
  <2>2. CASE t = s
    <3>1. accepted[s] + 1 \in 1 .. MaxRuns /\ accepted[s] \in Nat
      BY <1>2, RoomForRun DEF Shape
    <3>2. answer[s][accepted[s] + 1] = "none"
      BY <3>1 DEF Unanswered
    <3>3. current'[s] = accepted[s] + 1
      BY <2>1 DEF Shape
    <3>4. RunsOn(s)'
      BY <2>1, <3>1, <3>2, <3>3 DEF RunsOn
    <3> QED
      BY <1>1, <2>2, <3>4 DEF Cause
  <2>3. CASE t # s
    <3>1. HasStart(t) => HasStart(t)'
      BY <2>1, <2>3, StartTaken
    <3>2. RunsOn(t) => RunsOn(t)'
      BY <2>1, <2>3 DEF RunsOn, Shape
    <3> QED
      BY <1>1, <2>1, <3>1, <3>2 DEF Cause
  <2> QED
    BY <2>2, <2>3
<1>3. CASE Refuse(s)
  <2>1. /\ \E m : Consume(s, m)
        /\ Reply(s) /\ UNCHANGED serverVars
    BY <1>3 DEF Refuse
  <2>2. RunsOn(t) => RunsOn(t)'
    BY <2>1 DEF RunsOn, serverVars
  <2>3. CASE t = s
    <3>1. down'[s] > 0
      BY <2>1, <2>3 DEF Reply, Cause, Shape
    <3> QED
      BY <1>1, <2>3, <3>1 DEF Cause
  <2>4. CASE t # s
    <3>1. down'[t] = down[t]
      BY <2>1, <2>4 DEF Reply, Shape
    <3>2. HasStart(t) => HasStart(t)'
      BY <2>1, <2>4, StartTaken
    <3> QED
      BY <1>1, <2>1, <2>2, <3>1, <3>2 DEF Cause, serverVars
  <2> QED
    BY <2>3, <2>4
<1>4. CASE TakeSilently(s)
  <2>1. (Consume(s, "stop") \/ Consume(s, "input")) /\ UNCHANGED <<down, serverVars>>
    BY <1>4 DEF TakeSilently
  <2>2. HasStart(t) => HasStart(t)'
    BY <2>1, StartTaken DEF Starts
  <2> QED
    BY <1>1, <2>1, <2>2 DEF Cause, RunsOn, serverVars
<1>5. CASE Answer(s)
  <2>1. UNCHANGED <<up, alive, current>>
    BY <1>5 DEF Answer
  <2>2. CASE t = s /\ alive[s]
    <3>1. down'[s] > 0
      BY <1>5, <2>2 DEF Answer, Reply, Cause, Shape
    <3> QED
      BY <1>1, <2>2, <3>1 DEF Cause
  <2>3. CASE t = s /\ ~alive[s]
    BY <1>1, <2>1, <2>3 DEF Cause
  <2>4. CASE t # s
    <3>1. down'[t] = down[t] /\ answer'[t] = answer[t]
      BY <1>5, <2>4 DEF Answer, Reply, Shape
    <3> QED
      BY <1>1, <2>1, <3>1 DEF Cause, HasStart, RunsOn
  <2> QED
    BY <2>2, <2>3, <2>4
<1>6. CASE Release(s)
  <2>1. /\ ~RunsOn(s) /\ current' = [current EXCEPT ![s] = 0]
        /\ UNCHANGED <<up, down, alive, answer>>
    BY <1>6 DEF Release
  <2>2. RunsOn(t) => RunsOn(t)'
    BY <2>1 DEF RunsOn, Shape
  <2> QED
    BY <1>1, <2>1, <2>2 DEF Cause, HasStart
<1>7. CASE HangUp(s)
  <2>1. /\ alive' = [alive EXCEPT ![s] = FALSE] /\ up' = [up EXCEPT ![s] = <<>>]
        /\ UNCHANGED <<down, current, answer>>
    BY <1>7 DEF HangUp
  <2>2. CASE t = s
    BY <1>1, <2>1, <2>2 DEF Cause, Shape
  <2>3. CASE t # s
    BY <1>1, <2>1, <2>3 DEF Cause, HasStart, RunsOn, Shape
  <2> QED
    BY <2>2, <2>3
<1> QED
  BY <1>2, <1>3, <1>4, <1>5, <1>6, <1>7 DEF Server

-----------------------------------------------------------------------------
(* The theorems.                                                           *)

LEMMA InvInit == Init => IInv
<1> SUFFICES ASSUME Init PROVE IInv
  OBVIOUS
<1>1. Unanswered
  BY DEF Init, Unanswered
<1>2. Caused
  BY DEF Init, Caused
<1> QED
  BY <1>1, <1>2, ShapeInit, CountedInit, ReferenceInit DEF IInv

LEMMA InvStep == IInv /\ [Next]_vars => IInv'
<1> SUFFICES ASSUME IInv, [Next]_vars PROVE IInv'
  OBVIOUS
<1>1. CASE Next
  <2>1. Shape'
    BY <1>1, PageShape, SocketShape, ServerShape DEF IInv, Next
  <2>2. Counted'
    BY <1>1, <2>1, CountedStep DEF IInv
  <2>3. Unanswered'
    BY <1>1, <2>1, <2>2, UnansweredStep DEF IInv
  <2>4. Reference'
    BY <1>1, ReferenceStep DEF IInv
  <2>5. Caused'
    BY <1>1, <2>1, <2>2, PageCause, SocketCause, ServerCause DEF IInv, Next
  <2> QED
    BY <2>1, <2>2, <2>3, <2>4, <2>5 DEF IInv
<1>2. CASE UNCHANGED vars
  <2>1. Shape' /\ Counted' /\ Unanswered' /\ Reference'
    BY <1>2 DEF IInv, Shape, Counted, Waiting, Unanswered, Reference, InState,
                vars, pageVars, serverVars, historyVars
  <2>2. Caused'
    BY <1>2 DEF IInv, Caused, Cause, HasStart, RunsOn, vars, pageVars, serverVars, historyVars
  <2> QED
    BY <2>1, <2>2 DEF IInv
<1> QED
  BY <1>1, <1>2

\* The invariant and its strengthening hold in every reachable state.
THEOREM Invariance == Spec => []IInv
BY InvInit, InvStep, PTL DEF Spec

\* Stop and the inputs of either page go to the one socket that can carry a
\* run, unless a run was asked for while a socket was closing.
THEOREM StopFindsItsRun == Spec => []StopReaches
<1>1. IInv => StopReaches
  <2> SUFFICES ASSUME IInv, ~crossed
               PROVE  /\ Cardinality(InState(Usable)) <= 1
                      /\ InState(Usable) \subseteq {ref}
    BY DEF StopReaches, Usable
  <2>1. InState(Usable) \subseteq {ref}
    BY DEF IInv, Reference
  <2>2. IsFiniteSet({ref}) /\ Cardinality({ref}) = 1
    BY FS_Singleton
  <2>3. Cardinality(InState(Usable)) <= Cardinality({ref})
    BY <2>1, <2>2, FS_Subset
  <2> QED
    BY <2>1, <2>2, <2>3
<1> QED
  BY <1>1, Invariance, PTL

\* A page that says "running" waits for something that will say otherwise; a
\* console whose socket was closed may be the exception.
THEOREM RunningIsCaused == Spec => []RunningHasCause
<1>1. IInv => RunningHasCause
  BY CausedIs DEF IInv
<1> QED
  BY <1>1, Invariance, PTL

-----------------------------------------------------------------------------
(* What the server still owes the page.                                    *)

Active == {"connecting", "open", "closing"}

\* The replies that are to come on s: for starts on their way, a run, and those
\* under way.
Owed(s) == Cardinality(StartsIn(up[s])) + (IF RunsOn(s) THEN 1 ELSE 0) + down[s]

Plain(s) == \A i \in 1 .. Len(up[s]) : up[s][i] # "input"
Alone(s) == \A t \in Sockets : sock[t] \in Active => t = s

\* The console makes a socket only when its last one is closed.
LastOnly == page = "console" => \A s \in Sockets : s # ref => sock[s] \in {"none", "closed"}

\* Nothing has happened on a socket that never opened.
Fresh ==
    \A s \in Sockets : sock[s] \in {"none", "connecting"} =>
        up[s] = <<>> /\ down[s] = 0 /\ current[s] = 0

\* One reply at most is owed, and while it is the page says that it waits.
OneOwed ==
    ~overlapped => \A s \in Sockets : sock[s] = "open" =>
        /\ Plain(s)
        /\ Owed(s) <= 1
        /\ Owed(s) # 0 => running /\ Alone(s)

HInv == LastOnly /\ Fresh /\ OneOwed

LEMMA OwedIs ==
    ASSUME Shape, NEW s \in Sockets
    PROVE  /\ Owed(s) \in Nat /\ Cardinality(StartsIn(up[s])) \in Nat /\ down[s] \in Nat
           /\ RunsOn(s) \/ down[s] > 0 => Owed(s) # 0
<1>1. Cardinality(StartsIn(up[s])) \in Nat /\ down[s] \in Nat
  BY StartsFinite DEF Shape
<1> QED
  BY <1>1 DEF Owed

LEMMA OwedIsNext ==
    ASSUME Shape', NEW s \in Sockets
    PROVE  Owed(s)' \in Nat /\ Cardinality(StartsIn(up'[s])) \in Nat /\ down'[s] \in Nat
<1>1. up'[s] \in Seq(Frames) /\ down'[s] \in Nat
  BY DEF Shape
<1>2. Cardinality(StartsIn(up'[s])) \in Nat
  BY <1>1, StartsFinite
<1>3. (IF RunsOn(s)' THEN 1 ELSE 0) \in {0, 1}
  OBVIOUS
<1>4. Owed(s)' = Cardinality(StartsIn(up'[s])) + (IF RunsOn(s)' THEN 1 ELSE 0) + down'[s]
  BY DEF Owed
<1> QED
  BY <1>1, <1>2, <1>3, <1>4

\* The server's end of a socket changes nothing of another one.
LEMMA ServerElsewhere ==
    ASSUME Shape, NEW t \in Sockets, NEW s \in Sockets, s # t, Server(t)
    PROVE  /\ up'[s] = up[s] /\ down'[s] = down[s]
           /\ current'[s] = current[s] /\ answer'[s] = answer[s]
<1>1. down' = down \/ Reply(t) => down'[s] = down[s]
  <2>1. down \in [Sockets -> Nat]
    BY DEF Shape
  <2> QED
    BY <2>1 DEF Reply
<1>2. ASSUME NEW m, Consume(t, m)
      PROVE  up'[s] = up[s]
  BY <1>2, ConsumeShape
<1>3. CASE Accept(t)
  <2>1. Consume(t, "start") /\ down' = down /\ answer' = answer
    BY <1>3 DEF Accept
  <2>2. current'[s] = current[s]
    BY <1>3 DEF Accept, Shape
  <2> QED
    BY <1>1, <1>2, <2>1, <2>2
<1>4. CASE Refuse(t) \/ TakeSilently(t)
  <2>1. current' = current /\ answer' = answer
    BY <1>4 DEF Refuse, TakeSilently, serverVars
  <2>2. \E m \in Frames : Consume(t, m)
    BY <1>4 DEF Refuse, TakeSilently, Frames, Starts
  <2>3. down' = down \/ Reply(t)
    BY <1>4 DEF Refuse, TakeSilently
  <2> QED
    BY <1>1, <1>2, <2>1, <2>2, <2>3
<1>5. CASE Answer(t)
  <2>1. up' = up /\ current' = current
    BY <1>5 DEF Answer
  <2>2. answer'[s] = answer[s]
    BY <1>5 DEF Answer, Shape
  <2>3. down' = down \/ Reply(t)
    BY <1>5 DEF Answer
  <2> QED
    BY <1>1, <2>1, <2>2, <2>3
<1>6. CASE Release(t) \/ HangUp(t)
  <2>1. down' = down /\ answer' = answer
    BY <1>6 DEF Release, HangUp
  <2>2. up'[s] = up[s] /\ current'[s] = current[s]
    BY <1>6 DEF Release, HangUp, Shape
  <2> QED
    BY <2>1, <2>2
<1> QED
  BY <1>3, <1>4, <1>5, <1>6 DEF Server

LEMMA LastOnlyStep == ASSUME Shape, Reference, LastOnly, Next PROVE LastOnly'
<1> SUFFICES ASSUME page' = "console", NEW s \in Sockets, s # ref'
             PROVE  sock'[s] \in {"none", "closed"}
  BY DEF LastOnly
<1>1. page = "console"
  BY DEF Next, Page, RunNow, RunQueued, ConsoleRun, IdeStop, ConsoleConnect, ConsoleStop,
         Input, Socket, IdeOpens, IdeFails, IdeCloses, ConsoleOpens, ConsoleCloses, OnReply,
         BeginClose, Server, Accept, Refuse, TakeSilently, Answer, Release, HangUp, pageVars
<1>2. CASE ConsoleConnect
  <2>1. PICK t \in Sockets : NewSocket(t) /\ sock' = [sock EXCEPT ![t] = "connecting"]
    BY <1>2 DEF ConsoleConnect
  <2>2. ref' = t /\ sock'[s] = sock[s]
    BY <2>1 DEF NewSocket, Shape
  <2>3. sock[ref] = "closed"
    BY <1>2 DEF ConsoleConnect
  <2> QED
    BY <1>1, <2>2, <2>3 DEF LastOnly
<1>3. CASE UNCHANGED <<sock, ref>>
  BY <1>1, <1>3 DEF LastOnly
<1>4. ASSUME NEW t \in Sockets, ConsoleOpens(t) \/ ConsoleCloses(t) \/ BeginClose(t)
      PROVE  sock'[s] \in {"none", "closed"}
  <2>1. /\ ref' = ref /\ sock[t] \in Active
        /\ \E state \in {"open", "closed", "closing"} : sock' = [sock EXCEPT ![t] = state]
    BY <1>4 DEF ConsoleOpens, ConsoleCloses, BeginClose, Opens, pageVars, Active
  <2>2. sock[s] \in {"none", "closed"}
    BY <1>1, <2>1 DEF LastOnly
  <2>3. s # t
    BY <2>1, <2>2 DEF Active
  <2> QED
    BY <2>1, <2>2, <2>3 DEF Shape
<1>5. \/ ConsoleConnect \/ UNCHANGED <<sock, ref>>
      \/ \E t \in Sockets : ConsoleOpens(t) \/ ConsoleCloses(t) \/ BeginClose(t)
  BY <1>1 DEF Next, Page, RunNow, RunQueued, ConsoleRun, IdeStop, ConsoleStop,
         Input, Socket, IdeOpens, IdeFails, IdeCloses, OnReply,
         Server, Accept, Refuse, TakeSilently, Answer, Release, HangUp, pageVars
<1> QED
  BY <1>2, <1>3, <1>4, <1>5

LEMMA FreshStep == ASSUME Shape, Reference, Fresh, Next PROVE Fresh'
<1> SUFFICES ASSUME NEW s \in Sockets, sock'[s] \in {"none", "connecting"}
             PROVE  up'[s] = <<>> /\ down'[s] = 0 /\ current'[s] = 0
  BY DEF Fresh
<1>1. ASSUME sock[s] \in {"none", "connecting"},
             up'[s] = up[s] /\ down'[s] = down[s] /\ current'[s] = current[s]
      PROVE  up'[s] = <<>> /\ down'[s] = 0 /\ current'[s] = 0
  BY <1>1 DEF Fresh
<1>2. ASSUME NEW m \in Starts, RunNow(m) \/ ConsoleRun(m) \/ IdeStop \/ ConsoleStop \/ Input
      PROVE  up'[s] = <<>> /\ down'[s] = 0 /\ current'[s] = 0
  <2>1. /\ sock[ref] = "open" /\ UNCHANGED <<sock, down, current>>
        /\ \E f \in Frames : up' = [up EXCEPT ![ref] = Append(@, f)]
    BY <1>2 DEF RunNow, ConsoleRun, SendStart, IdeStop, ConsoleStop, Input, Frames, Starts,
                serverVars
  <2>2. s # ref
    BY <2>1
  <2>3. up'[s] = up[s]
    BY <2>1, <2>2 DEF Shape
  <2> QED
    BY <1>1, <2>1, <2>3
<1>3. ASSUME NEW m \in Starts, RunQueued(m) \/ ConsoleConnect
      PROVE  up'[s] = <<>> /\ down'[s] = 0 /\ current'[s] = 0
  <2>1. /\ UNCHANGED <<up, down, current>>
        /\ \/ sock' = sock
           \/ \E t \in Sockets : sock[t] = "none" /\ sock' = [sock EXCEPT ![t] = "connecting"]
    BY <1>3 DEF RunQueued, ConsoleConnect, NewSocket, serverVars
  <2>2. sock[s] \in {"none", "connecting"}
    BY <2>1 DEF Shape
  <2> QED
    BY <1>1, <2>1, <2>2
<1>4. ASSUME NEW t \in Sockets, Socket(t) \/ OnReply(t) \/ BeginClose(t)
      PROVE  up'[s] = <<>> /\ down'[s] = 0 /\ current'[s] = 0
  <2>1. /\ current' = current
        /\ \/ sock[t] = "open" /\ sock' = sock
           \/ \E state \in {"open", "closed", "closing"} : sock' = [sock EXCEPT ![t] = state]
        /\ up' = up \/ \E f \in Starts \cup {"none"} : up' = [up EXCEPT ![t] = Append(@, f)]
        /\ down' = down \/ \E n \in {0, down[t] - 1} : down' = [down EXCEPT ![t] = n]
    BY <1>4 DEF Shape, Socket, IdeOpens, Opens, SendStart, IdeFails, IdeCloses, ConsoleOpens,
                ConsoleCloses, OnReply, BeginClose, serverVars
  <2>2. s # t
    BY <2>1 DEF Shape
  <2>3. sock[s] = sock'[s] /\ up'[s] = up[s] /\ down'[s] = down[s]
    BY <2>1, <2>2 DEF Shape
  <2> QED
    BY <1>1, <2>1, <2>3
<1>5. ASSUME NEW t \in Sockets, Server(t)
      PROVE  up'[s] = <<>> /\ down'[s] = 0 /\ current'[s] = 0
  <2>1. sock' = sock
    BY <1>5 DEF Server, Accept, Refuse, TakeSilently, Answer, Release, HangUp
  <2>2. up[s] = <<>> /\ down[s] = 0 /\ current[s] = 0
    BY <2>1 DEF Fresh
  <2>3. s # t
    BY <1>5, <2>1, <2>2 DEF Server, Accept, Refuse, TakeSilently, Answer, Release, HangUp,
                            Consume, RunsOn
  <2>4. up'[s] = up[s] /\ down'[s] = down[s] /\ current'[s] = current[s]
    BY <1>5, <2>3, ServerElsewhere
  <2> QED
    BY <2>2, <2>4
<1> QED
  BY <1>2, <1>3, <1>4, <1>5 DEF Next, Page, Starts

\* A step that neither starts nor ends anything for the page: no more is owed
\* than before, and no socket comes up.
LEMMA OwedKept ==
    ASSUME Shape, Shape', OneOwed, overlapped' = overlapped,
           \A s \in Sockets : sock'[s] \in Active => sock[s] \in Active,
           NEW s \in Sockets, ~overlapped', sock'[s] = "open", sock[s] = "open",
           running' = running, Plain(s) => Plain(s)', Owed(s)' <= Owed(s)
    PROVE  Plain(s)' /\ Owed(s)' <= 1 /\ (Owed(s)' # 0 => running' /\ Alone(s)')
<1>1. Plain(s) /\ Owed(s) <= 1 /\ (Owed(s) # 0 => running /\ Alone(s))
  BY DEF OneOwed
<1>2. Owed(s) \in Nat /\ Owed(s)' \in Nat
  BY OwedIs, OwedIsNext
<1>3. Alone(s) => Alone(s)'
  BY DEF Alone
<1> HIDE DEF OneOwed
<1> QED
  BY <1>1, <1>2, <1>3

\* A start on a socket where nothing else is going on.
LEMMA OwedFromStart ==
    ASSUME Shape, Shape', NEW t \in Sockets, NEW m \in Starts, SendStart(t, m),
           UNCHANGED <<down, current, answer>>,
           sock' = sock \/ sock' = [sock EXCEPT ![t] = "open"],
           sock[t] \in Active
    PROVE  OneOwed'
<1> SUFFICES ASSUME ~overlapped', NEW s \in Sockets, sock'[s] = "open"
             PROVE  Plain(s)' /\ Owed(s)' <= 1 /\ (Owed(s)' # 0 => running' /\ Alone(s)')
  BY DEF OneOwed
<1>1. /\ up[t] = <<>> /\ ~(down[t] > 0) /\ ~RunsOn(t)
      /\ \A q \in Sockets : sock[q] \in Active => q = t
  BY DEF SendStart, Outstanding, InState, Active
<1>2. \A q \in Sockets : sock'[q] \in Active => q = t
  BY <1>1 DEF Shape
<1>3. s = t /\ Alone(s)'
  BY <1>2 DEF Alone, Active
<1>4. up' = [up EXCEPT ![t] = Append(@, m)] /\ running' = TRUE
  BY DEF SendStart
<1>5. Cardinality(StartsIn(up'[t])) <= 1
  <2>1. m \in Frames
    BY DEF Frames
  <2>2. Cardinality(StartsIn(up'[t])) <= Cardinality(StartsIn(up[t])) + 1
    BY <1>4, <2>1, SendCounts
  <2> QED
    BY <2>2, <1>1, StartsNone
<1>6. down'[t] = 0 /\ ~RunsOn(t)'
  BY <1>1 DEF Shape, RunsOn
<1>7. Owed(s)' <= 1
  <2>1. Cardinality(StartsIn(up'[t])) \in Nat
    BY OwedIsNext
  <2> QED
    BY <1>3, <1>5, <1>6, <2>1 DEF Owed
<1>8. Plain(s)'
  <2>1. up'[t] = Append(<<>>, m)
    BY <1>1, <1>4 DEF Shape
  <2>2. Len(up'[t]) = 1 /\ up'[t][1] = m
    BY <2>1, AppendProperties, EmptySeq
  <2>3. m # "input"
    BY DEF Starts
  <2> QED
    BY <1>3, <2>2, <2>3 DEF Plain
<1> QED
  BY <1>3, <1>4, <1>7, <1>8

\* A socket that opens with nothing to send brings nothing.
LEMMA OwedWhenOpened ==
    ASSUME Shape, Shape', Fresh, OneOwed, NEW t \in Sockets, Opens(t),
           UNCHANGED <<up, down, current, answer, running, overlapped>>
    PROVE  OneOwed'
<1> SUFFICES ASSUME ~overlapped', NEW s \in Sockets, sock'[s] = "open"
             PROVE  Plain(s)' /\ Owed(s)' <= 1 /\ (Owed(s)' # 0 => running' /\ Alone(s)')
  BY DEF OneOwed
<1>1. sock[t] = "connecting" /\ sock' = [sock EXCEPT ![t] = "open"]
  BY DEF Opens
<1>2. CASE s = t
  <2>1. up[t] = <<>> /\ down[t] = 0 /\ current[t] = 0
    BY <1>1 DEF Fresh
  <2>2. up'[t] = <<>> /\ down'[t] = 0 /\ ~RunsOn(t)'
    BY <2>1 DEF RunsOn
  <2>3. Owed(t)' = 0
    BY <2>2, StartsNone DEF Owed
  <2>4. Plain(t)'
    BY <2>2 DEF Plain
  <2> QED
    BY <1>2, <2>3, <2>4
<1>3. CASE s # t
  <2>1. sock[s] = "open"
    BY <1>1, <1>3 DEF Shape
  <2>2. \A q \in Sockets : sock'[q] \in Active => sock[q] \in Active
    BY <1>1 DEF Shape, Active
  <2>3. Owed(s)' = Owed(s) /\ Owed(s) \in Nat /\ (Plain(s) => Plain(s)')
    BY OwedIs DEF Owed, RunsOn, Plain
  <2> QED
    BY <2>1, <2>2, <2>3, OwedKept
<1> QED
  BY <1>2, <1>3

\* While the page waits for nothing, nothing is owed, and without a start
\* nothing will be.
LEMMA NothingOwed ==
    ASSUME Shape, Shape', OneOwed, NEW s \in Sockets,
           ~overlapped, sock[s] = "open", Owed(s) = 0,
           up'[s] = up[s], down'[s] = down[s], current'[s] = current[s], answer'[s] = answer[s]
    PROVE  Plain(s)' /\ Owed(s)' <= 1 /\ (Owed(s)' # 0 => running' /\ Alone(s)')
<1>1. Plain(s)
  BY DEF OneOwed
<1>2. Owed(s)' = Owed(s) /\ Plain(s)'
  BY <1>1 DEF Owed, RunsOn, Plain
<1> QED
  BY <1>2

LEMMA OwedPage == ASSUME Shape, Shape', Reference, HInv, Page PROVE OneOwed'
<1>1. ASSUME NEW m \in Starts, RunNow(m) \/ ConsoleRun(m) PROVE OneOwed'
  <2>1. /\ sock[ref] = "open" /\ UNCHANGED <<sock, down, serverVars>> /\ SendStart(ref, m)
    BY <1>1 DEF RunNow, ConsoleRun
  <2>2. ref \in Sockets
    BY <1>1 DEF RunNow, ConsoleRun, Reusable, Reference, Shape, Sockets
  <2> QED
    BY <2>1, <2>2, OwedFromStart DEF serverVars, Active
<1>2. CASE IdeStop \/ Input
  BY <1>2 DEF IdeStop, Input, OneOwed
<1>3. ASSUME NEW m \in Starts, RunQueued(m) PROVE OneOwed'
  <2> SUFFICES ASSUME ~overlapped', NEW s \in Sockets, sock'[s] = "open"
               PROVE  Plain(s)' /\ Owed(s)' <= 1 /\ (Owed(s)' # 0 => running' /\ Alone(s)')
    BY DEF OneOwed
  <2>1. /\ ~running /\ UNCHANGED <<up, down, serverVars, overlapped>>
        /\ \/ sock' = sock
           \/ \E t \in Sockets : sock' = [sock EXCEPT ![t] = "connecting"]
    BY <1>3 DEF RunQueued, RunEnabled
  <2>2. sock[s] = "open"
    BY <2>1 DEF Shape
  <2>3. Owed(s) = 0
    BY <2>1, <2>2 DEF HInv, OneOwed
  <2> QED
    BY <2>1, <2>2, <2>3, NothingOwed DEF HInv, serverVars
<1>4. CASE ConsoleConnect
  <2> SUFFICES ASSUME NEW s \in Sockets, sock'[s] = "open" PROVE FALSE
    BY DEF OneOwed
  <2>1. /\ page = "console" /\ sock[ref] = "closed"
        /\ \E t \in Sockets : sock' = [sock EXCEPT ![t] = "connecting"]
    BY <1>4 DEF ConsoleConnect
  <2>2. sock[s] = "open"
    BY <2>1 DEF Shape
  <2> QED
    BY <2>1, <2>2 DEF HInv, LastOnly
<1>5. CASE ConsoleStop
  <2> SUFFICES ASSUME ~overlapped', NEW s \in Sockets, sock'[s] = "open"
               PROVE  Plain(s)' /\ Owed(s)' <= 1 /\ (Owed(s)' # 0 => running' /\ Alone(s)')
    BY DEF OneOwed
  <2>1. /\ UNCHANGED <<sock, running, down, serverVars, overlapped>>
        /\ up' = [up EXCEPT ![ref] = Append(@, "stop")]
    BY <1>5 DEF ConsoleStop, pageVars
  <2>2. Cardinality(StartsIn(up'[s])) <= Cardinality(StartsIn(up[s]))
    <3>1. "stop" \in Frames /\ "stop" \notin Starts
      BY DEF Frames, Starts
    <3>2. Cardinality(StartsIn(up'[s])) <= Cardinality(StartsIn(up[s])) + 0
      BY <2>1, <3>1, SendCounts
    <3> QED
      BY <3>2, OwedIs
  <2>3. Owed(s)' <= Owed(s)
    <3>1. down'[s] = down[s] /\ (RunsOn(s)' <=> RunsOn(s))
      BY <2>1 DEF RunsOn, serverVars
    <3>2. /\ Cardinality(StartsIn(up[s])) \in Nat /\ Cardinality(StartsIn(up'[s])) \in Nat
          /\ down[s] \in Nat
      BY OwedIs, OwedIsNext
    <3> QED
      BY <3>1, <3>2, <2>2 DEF Owed
  <2>4. Plain(s) => Plain(s)'
    <3>1. up'[s] = up[s] \/ up'[s] = Append(up[s], "stop")
      BY <2>1 DEF Shape
    <3>2. up[s] \in Seq(Frames) /\ "stop" \in Frames
      BY DEF Shape, Frames
    <3> QED
      BY <3>1, <3>2, AppendProperties, LenProperties DEF Plain
  <2> QED
    BY <2>1, <2>3, <2>4, OwedKept DEF HInv
<1> QED
  BY <1>1, <1>2, <1>3, <1>4, <1>5 DEF Page

LEMMA OwedSocket ==
    ASSUME Shape, Shape', HInv, NEW t \in Sockets, Socket(t) \/ OnReply(t) \/ BeginClose(t)
    PROVE  OneOwed'
<1>0. UNCHANGED serverVars
  BY PageNotServer
<1>1. CASE IdeOpens(t) /\ queued # "none"
  <2>1. SendStart(t, queued) /\ Opens(t) /\ down' = down
    BY <1>1 DEF IdeOpens
  <2>2. queued \in Starts
    BY <1>1 DEF Shape
  <2> QED
    BY <1>0, <2>1, <2>2, OwedFromStart DEF Opens, Active, serverVars
<1>2. CASE (IdeOpens(t) /\ queued = "none") \/ ConsoleOpens(t)
  <2>1. Opens(t) /\ UNCHANGED <<up, down, running, overlapped>>
    BY <1>2 DEF IdeOpens, ConsoleOpens, pageVars, historyVars
  <2> QED
    BY <1>0, <2>1, OwedWhenOpened DEF HInv, serverVars
<1>3. CASE IdeFails(t) \/ IdeCloses(t)
  <2> SUFFICES ASSUME ~overlapped', NEW s \in Sockets, sock'[s] = "open"
               PROVE  Plain(s)' /\ Owed(s)' <= 1 /\ (Owed(s)' # 0 => running' /\ Alone(s)')
    BY DEF OneOwed
  <2>1. /\ sock[t] \in Active /\ sock' = [sock EXCEPT ![t] = "closed"]
        /\ up' = up /\ overlapped' = overlapped
        /\ down' = down \/ down' = [down EXCEPT ![t] = 0]
    BY <1>3 DEF IdeFails, IdeCloses, Active, historyVars
  <2>2. s # t /\ sock[s] = "open" /\ down'[s] = down[s]
    BY <2>1 DEF Shape
  <2>3. Owed(s) = 0
    BY <2>1, <2>2 DEF HInv, OneOwed, Alone
  <2> QED
    BY <1>0, <2>1, <2>2, <2>3, NothingOwed DEF HInv, serverVars
<1>4. CASE OnReply(t)
  <2> SUFFICES ASSUME ~overlapped', NEW s \in Sockets, sock'[s] = "open"
               PROVE  Plain(s)' /\ Owed(s)' <= 1 /\ (Owed(s)' # 0 => running' /\ Alone(s)')
    BY DEF OneOwed
  <2>1. /\ sock[t] = "open" /\ down[t] > 0 /\ UNCHANGED <<sock, up, overlapped>>
        /\ down' = [down EXCEPT ![t] = @ - 1]
    BY <1>4 DEF OnReply, historyVars
  <2>2. Owed(t) # 0 /\ Owed(t) <= 1
    BY <2>1, OwedIs DEF HInv, OneOwed
  <2>3. s = t
    BY <2>1, <2>2 DEF HInv, OneOwed, Alone, Active
  <2>4. Owed(t)' = Owed(t) - 1
    <3>1. down'[t] = down[t] - 1 /\ (RunsOn(t)' <=> RunsOn(t)) /\ up'[t] = up[t]
      BY <1>0, <2>1 DEF RunsOn, serverVars, Shape
    <3>2. Cardinality(StartsIn(up[t])) \in Nat /\ down[t] \in Nat
      BY OwedIs
    <3> QED
      BY <3>1, <3>2 DEF Owed
  <2>5. Owed(t)' = 0
    BY <2>2, <2>4, OwedIs
  <2>6. Plain(s)'
    BY <2>1 DEF HInv, OneOwed, Plain
  <2> QED
    BY <2>3, <2>5, <2>6
<1>5. CASE ConsoleCloses(t) \/ BeginClose(t)
  <2> SUFFICES ASSUME ~overlapped', NEW s \in Sockets, sock'[s] = "open"
               PROVE  Plain(s)' /\ Owed(s)' <= 1 /\ (Owed(s)' # 0 => running' /\ Alone(s)')
    BY DEF OneOwed
  <2>1. /\ sock[t] \in Active /\ UNCHANGED <<up, running, overlapped>>
        /\ \E state \in {"closed", "closing"} : sock' = [sock EXCEPT ![t] = state]
        /\ down' = down \/ down' = [down EXCEPT ![t] = 0]
    BY <1>5 DEF ConsoleCloses, BeginClose, Active, historyVars, pageVars
  <2>2. s # t /\ sock[s] = "open" /\ down'[s] = down[s]
    BY <2>1 DEF Shape
  <2>3. \A q \in Sockets : sock'[q] \in Active => sock[q] \in Active
    BY <2>1 DEF Shape
  <2>4. Owed(s)' = Owed(s) /\ Owed(s) \in Nat /\ (Plain(s) => Plain(s)')
    BY <1>0, <2>1, <2>2, OwedIs DEF Owed, RunsOn, Plain, serverVars
  <2> QED
    BY <2>1, <2>2, <2>3, <2>4, OwedKept DEF HInv
<1> QED
  BY <1>1, <1>2, <1>3, <1>4, <1>5 DEF Socket

\* A frame that is taken was plain, and what is left is.
LEMMA PlainTaken ==
    ASSUME Shape, NEW t \in Sockets, NEW m, Consume(t, m), Plain(t)
    PROVE  m # "input" /\ Plain(t)'
<1>1. up'[t] = Tail(up[t]) /\ up[t] \in Seq(Frames) /\ up[t] # <<>> /\ Head(up[t]) = m
  BY ConsumeShape
<1>2. /\ Len(up[t]) \in Nat \ {0} /\ Len(Tail(up[t])) = Len(up[t]) - 1
      /\ \A i \in 1 .. Len(up[t]) - 1 : Tail(up[t])[i] = up[t][i + 1]
      /\ Head(up[t]) = up[t][1]
  BY <1>1, LenProperties, HeadTailProperties, EmptySeq
<1>3. m # "input"
  BY <1>1, <1>2 DEF Plain
<1>4. \A i \in 1 .. Len(up'[t]) : up'[t][i] # "input"
  BY <1>1, <1>2 DEF Plain
<1> QED
  BY <1>3, <1>4 DEF Plain

\* The server brings what it owes nearer, and owes no more.
LEMMA OwedByServer ==
    ASSUME Shape, Shape', Counted, Unanswered, NEW t \in Sockets, Server(t), Plain(t)
    PROVE  Plain(t)' /\ Owed(t)' <= Owed(t)
<1>0. /\ Cardinality(StartsIn(up[t])) \in Nat /\ Cardinality(StartsIn(up'[t])) \in Nat
      /\ down[t] \in Nat
  BY OwedIs, OwedIsNext
<1>1. CASE Accept(t)
  <2>1. Consume(t, "start") /\ ~RunsOn(t) /\ down' = down
    BY <1>1 DEF Accept, RunsOn
  <2>2. Cardinality(StartsIn(up'[t])) + 1 <= Cardinality(StartsIn(up[t]))
    BY <2>1, TakeCounts DEF Starts
  <2>3. Plain(t)'
    BY <2>1, PlainTaken
  <2> QED
    BY <1>0, <2>1, <2>2, <2>3 DEF Owed
<1>2. CASE Refuse(t)
  <2>1. PICK m \in Starts \cup {"input"} : Consume(t, m)
    BY <1>2 DEF Refuse, Starts
  <2>2. m \in Starts /\ Plain(t)'
    BY <2>1, PlainTaken
  <2>3. Cardinality(StartsIn(up'[t])) + 1 <= Cardinality(StartsIn(up[t]))
    BY <2>1, <2>2, TakeCounts
  <2>4. (RunsOn(t)' <=> RunsOn(t)) /\ down'[t] <= down[t] + 1 /\ down'[t] \in Nat
    <3>1. Reply(t) /\ UNCHANGED serverVars /\ down \in [Sockets -> Nat]
      BY <1>2 DEF Refuse, Shape
    <3>2. down'[t] <= down[t] + 1 /\ down'[t] \in Nat
      BY <3>1 DEF Reply
    <3> QED
      BY <3>1, <3>2 DEF RunsOn, serverVars
  <2> QED
    BY <1>0, <2>2, <2>3, <2>4 DEF Owed
<1>3. CASE TakeSilently(t)
  <2>1. PICK m \in {"stop", "input"} : Consume(t, m)
    BY <1>3 DEF TakeSilently
  <2>2. Plain(t)'
    BY <2>1, PlainTaken
  <2>3. Cardinality(StartsIn(up'[t])) <= Cardinality(StartsIn(up[t]))
    <3>1. m \notin Starts
      BY DEF Starts
    <3>2. Cardinality(StartsIn(up'[t])) + 0 <= Cardinality(StartsIn(up[t]))
      BY <2>1, <3>1, TakeCounts
    <3> QED
      BY <1>0, <3>2
  <2>4. (RunsOn(t)' <=> RunsOn(t)) /\ down' = down
    BY <1>3 DEF TakeSilently, RunsOn, serverVars
  <2> QED
    BY <1>0, <2>2, <2>3, <2>4 DEF Owed
<1>4. CASE Answer(t)
  <2>1. /\ RunsOn(t) /\ up' = up /\ current' = current
        /\ answer' = [answer EXCEPT ![t][current[t]] = IF alive[t] THEN "sent" ELSE "dropped"]
        /\ Reply(t) \/ down' = down
    BY <1>4 DEF Answer
  <2>2. current[t] \in 1 .. MaxRuns
    <3>1. /\ current[t] \in Nat /\ accepted[t] \in Nat /\ clicks \in 0 .. MaxRuns
          /\ MaxRuns \in Nat /\ Waiting \in 0 .. 1
      BY BoundsAssumption DEF Shape, Waiting
    <3>2. /\ current[t] # 0 /\ current[t] <= accepted[t]
          /\ accepted[t] + Cardinality(StartsIn(up[t])) + Waiting <= clicks
      BY <2>1 DEF RunsOn, Unanswered, Counted
    <3> QED
      BY <1>0, <3>1, <3>2
  <2>3. answer'[t][current[t]] # "none"
    BY <2>1, <2>2 DEF Shape
  <2>4. ~RunsOn(t)'
    BY <2>1, <2>3 DEF RunsOn
  <2>5. down'[t] <= down[t] + 1 /\ down'[t] \in Nat
    <3>1. down \in [Sockets -> Nat]
      BY DEF Shape
    <3> QED
      BY <2>1, <3>1 DEF Reply
  <2>6. Plain(t)'
    BY <2>1 DEF Plain
  <2> QED
    BY <1>0, <2>1, <2>4, <2>5, <2>6 DEF Owed
<1>5. CASE Release(t)
  <2>1. ~RunsOn(t) /\ current' = [current EXCEPT ![t] = 0] /\ UNCHANGED <<up, down>>
    BY <1>5 DEF Release
  <2>2. ~RunsOn(t)' /\ Plain(t)'
    BY <2>1 DEF RunsOn, Plain, Shape
  <2> QED
    BY <1>0, <2>1, <2>2 DEF Owed
<1>6. CASE HangUp(t)
  <2>1. up'[t] = <<>> /\ UNCHANGED <<down, current, answer>>
    BY <1>6 DEF HangUp, Shape
  <2>2. Plain(t)' /\ (RunsOn(t)' <=> RunsOn(t)) /\ Cardinality(StartsIn(up'[t])) = 0
    BY <2>1, StartsNone DEF Plain, RunsOn
  <2> QED
    BY <1>0, <2>1, <2>2 DEF Owed
<1> QED
  BY <1>1, <1>2, <1>3, <1>4, <1>5, <1>6 DEF Server

LEMMA OwedServer ==
    ASSUME Shape, Shape', Counted, Unanswered, HInv, NEW t \in Sockets, Server(t)
    PROVE  OneOwed'
<1> SUFFICES ASSUME ~overlapped', NEW s \in Sockets, sock'[s] = "open"
             PROVE  Plain(s)' /\ Owed(s)' <= 1 /\ (Owed(s)' # 0 => running' /\ Alone(s)')
  BY DEF OneOwed
<1>1. UNCHANGED <<sock, running, overlapped>>
  BY DEF Server, Accept, Refuse, TakeSilently, Answer, Release, HangUp, pageVars, historyVars
<1>2. (Plain(s) => Plain(s)') /\ (Plain(s) => Owed(s)' <= Owed(s))
  <2>1. CASE s = t
    BY <2>1, OwedByServer
  <2>2. CASE s # t
    <3>1. /\ up'[s] = up[s] /\ down'[s] = down[s]
          /\ current'[s] = current[s] /\ answer'[s] = answer[s]
      BY <2>2, ServerElsewhere
    <3>2. Owed(s)' = Owed(s) /\ Owed(s) \in Nat /\ (Plain(s) => Plain(s)')
      BY <3>1, OwedIs DEF Owed, RunsOn, Plain
    <3> QED
      BY <3>2
  <2> QED
    BY <2>1, <2>2
<1>3. Plain(s)
  BY <1>1 DEF HInv, OneOwed
<1> QED
  BY <1>1, <1>2, <1>3, OwedKept DEF HInv

LEMMA HInvStep == ASSUME IInv, IInv', HInv, [Next]_vars PROVE HInv'
<1>1. CASE Next
  <2>1. LastOnly' /\ Fresh'
    BY <1>1, LastOnlyStep, FreshStep DEF IInv, HInv
  <2>2. OneOwed'
    BY <1>1, OwedPage, OwedSocket, OwedServer DEF IInv, Next
  <2> QED
    BY <2>1, <2>2 DEF HInv
<1>2. CASE UNCHANGED vars
  BY <1>2 DEF HInv, LastOnly, Fresh, OneOwed, Plain, Owed, Alone, RunsOn, vars, pageVars,
              serverVars, historyVars
<1> QED
  BY <1>1, <1>2

\* A page that says "idle" has nothing running, unless something else than its
\* last start may have called back.
THEOREM IdleIsIdle == Spec => []IdleIsHonest
<1>1. Init => HInv
  <2>1. Init => LastOnly /\ Fresh
    BY DEF Init, LastOnly, Fresh
  <2>2. Init => OneOwed
    BY DEF Init, OneOwed
  <2> QED
    BY <2>1, <2>2 DEF HInv
<1>2. IInv /\ HInv => IdleIsHonest
  BY OwedIs DEF IInv, HInv, OneOwed, IdleIsHonest, InState
<1> QED
  BY <1>1, <1>2, HInvStep, Invariance, PTL DEF Spec
=============================================================================
