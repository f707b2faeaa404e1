----------------------- MODULE CompileSession_proofs -----------------------
(***************************************************************************)
(* CompileSession proved for every number of runs and every bound: its     *)
(* type invariant, and the safety invariants that the runs check on two    *)
(* consecutive executions.  They follow from one inductive invariant,      *)
(* IInv, which says which run each thread and each field refers to, and    *)
(* what is true of a run at every step of the worker's work on it.         *)
(***************************************************************************)
EXTENDS CompileSession, TLAPS

AfterFinish == {"answer", "checkProcess", "killProcess", "clearProcess",
                "closeInput", "release"}
AfterAnswer == AfterFinish \ {"answer"}
Registered  == {"wait", "join", "finish", "answer", "checkProcess",
                "killProcess", "clearProcess"}

\* Where a thread may stand.
Control ==
    /\ pc["handler"] \in {"idle", "submit", "assign", "write", "writing", "cancel",
                          "checkProcess", "killProcess", "clearProcess", "closeInput"}
    /\ pc["worker"] \in {"idle", "prepare", "launch", "register", "join"}
                          \cup {"finish", "wait"} \cup AfterFinish
    /\ pc["closer"] \in {"idle", "cancel", "checkProcess", "killProcess",
                         "clearProcess", "closeInput", "shutdown", "done"}

\* Which run the threads and the fields refer to.
Ownership ==
    /\ workerRun = Null <=> pc["worker"] = "idle"
    /\ \A r \in Runs : task[r] \in {"executing", "interrupted"} <=> r = workerRun
    /\ \A r \in Runs : Live(r) => r = started /\ running
    /\ \A r \in Runs : r > started => task[r] = "none"
    /\ inputWriter # Null => running
    /\ pc["handler"] = "submit" => running /\ started # 0 /\ task[started] = "none"
    /\ pc["handler"] = "writing" => inputWriter # Null

\* What has happened to a run, by the worker's step.
Progress ==
    /\ \A r \in Runs : task[r] \in {"none", "queued"} =>
                          proc[r] = "none" /\ pump[r] = "none" /\ answer[r] = "none"
    /\ \A r \in Runs : proc[r] = "alive" =>
                          r = workerRun /\ pc["worker"] \in {"register", "wait"}
    /\ \A r \in Runs : answer[r] # "none" /\ r = workerRun =>
                          pc["worker"] \in AfterAnswer
    /\ started # 0 => pipe[started] = "closed" \/ inputWriter = started
    /\ pc["worker"] \in AfterAnswer => answer[workerRun] # "none"
    /\ currentProcess # Null => pc["worker"] \in Registered
    /\ pc["worker"] = "release" => inputWriter = Null /\ pipe[workerRun] = "closed"

\* A run that lies behind: the session accepted another one since, or is idle.
Past ==
    \A r \in Runs : r < started \/ (r = started /\ ~running) =>
        answer[r] # "none" /\ pipe[r] = "closed"

\* Why a pump can still have output when the worker is past the joins.
Pumps ==
    /\ \A r \in Runs : pump[r] = "draining" =>
          \/ r = workerRun /\ pc["worker"] \in {"wait", "join"}
          \/ task[r] \in {"interrupted", "stopped", "crashed"}
          \/ shutdown
    /\ pc["worker"] \in {"prepare", "launch", "register"} => pump[workerRun] = "none"

RunInv ==
    /\ Control
    /\ Ownership
    /\ Progress
    /\ Past
    /\ Pumps
    /\ InterruptHitsItsRun
    /\ LateOutputOnlyAfterStop

IInv == TypeOK /\ RunInv

-----------------------------------------------------------------------------
(* The type invariant.                                                     *)

LEMMA TypeInit == Init => TypeOK
<1>1. <<>> \in Seq(Messages)
  OBVIOUS
<1>2. Init => pc \in [Threads -> Labels] /\ task \in [Runs -> TaskStates]
  BY DEF Init, Labels, TaskStates
<1>3. Init => /\ proc \in [Runs -> {"none", "alive", "killed", "dead"}]
              /\ pipe \in [Runs -> {"none", "open", "closed"}]
              /\ pipeFill \in [Runs -> 0 .. PipeCapacity]
              /\ outBuf \in [Runs -> 0 .. MaxOutput]
              /\ pump \in [Runs -> {"none", "draining", "done"}]
              /\ answer \in [Runs -> {"none", "sent", "dropped"}]
  BY BoundsAssumption DEF Init
<1>4. Init => /\ {started, currentTask, currentProcess, inputWriter, workerRun} \subseteq 0 .. MaxRuns
              /\ lateOutput \in SUBSET Runs
  BY BoundsAssumption DEF Init, Null
<1> QED
  BY <1>1, <1>2, <1>3, <1>4 DEF Init, TypeOK

\* Taking a frame leaves frames.
LEMMA ReceiveType == ASSUME TypeOK, NEW m \in Messages, Receive(m) PROVE inbox' \in Seq(Messages)
  BY DEF TypeOK, Receive

LEMMA TypeStep == ASSUME TypeOK, Next PROVE TypeOK'
<1> USE BoundsAssumption DEF Null
<1>0. <<>> \in Seq(Messages)
  OBVIOUS
<1>1. ASSUME NEW m \in Messages, ClientSend(m) PROVE TypeOK'
  <2>1. inbox' \in Seq(Messages)
    BY <1>1 DEF TypeOK, ClientSend
  <2> QED
    BY <1>1, <2>1 DEF TypeOK, ClientSend, Runs, fieldVars, execVars, ioVars, outVars
<1>2. ASSUME Disconnect PROVE TypeOK'
  <2>1. pc' \in [Threads -> Labels]
    BY <1>2 DEF TypeOK, Disconnect, Threads, Labels, Goto
  <2>2. task' \in [Runs -> TaskStates]
    BY <1>2 DEF TypeOK, Disconnect, TaskStates, Runs, execVars
  <2>3. workerRun' \in 0 .. MaxRuns
    BY <1>2 DEF TypeOK, Disconnect, Runs, execVars
  <2> QED
    BY <1>0, <1>2, <2>1, <2>2, <2>3 DEF TypeOK, Disconnect, Runs, fieldVars,
       execVars, ioVars, outVars
<1>3. ASSUME ReceiveInvalid PROVE TypeOK'
  <2>1. inbox' \in Seq(Messages)
    BY <1>3, ReceiveType DEF ReceiveInvalid, Messages
  <2>2. pc' \in [Threads -> Labels]
    BY <1>3 DEF TypeOK, ReceiveInvalid, Threads, Labels, Goto
  <2> QED
    BY <1>3, <2>1, <2>2 DEF TypeOK, ReceiveInvalid, Runs, fieldVars, execVars, ioVars, outVars
<1>4. ASSUME StartRefused PROVE TypeOK'
  <2>1. inbox' \in Seq(Messages)
    BY <1>4, ReceiveType DEF StartRefused, Messages
  <2>2. pc' \in [Threads -> Labels]
    BY <1>4 DEF TypeOK, StartRefused, Threads, Labels, Goto
  <2> QED
    BY <1>4, <2>1, <2>2 DEF TypeOK, StartRefused, Runs, fieldVars, execVars, ioVars, outVars
<1>5. ASSUME StartAccepted PROVE TypeOK'
  <2>1. pc' \in [Threads -> Labels]
    BY <1>5 DEF TypeOK, StartAccepted, Threads, Labels, Goto, Receive
  <2>2. task' \in [Runs -> TaskStates]
    BY <1>5 DEF TypeOK, StartAccepted, TaskStates, Runs, execVars
  <2>3. workerRun' \in 0 .. MaxRuns
    BY <1>5 DEF TypeOK, StartAccepted, Runs, execVars
  <2>4. /\ started' \in 0 .. MaxRuns /\ inputWriter' \in 0 .. MaxRuns
        /\ pipe' \in [Runs -> {"none", "open", "closed"}]
    BY <1>5 DEF TypeOK, StartAccepted, Runs
  <2>5. inbox' \in Seq(Messages)
    BY <1>5, ReceiveType DEF StartAccepted, Messages
  <2> QED
    BY <1>0, <2>4, <2>5, <1>5, <2>1, <2>2, <2>3 DEF TypeOK, StartAccepted,
       Runs, execVars, outVars
<1>6. ASSUME Submit PROVE TypeOK'
  <2>1. pc' \in [Threads -> Labels]
    BY <1>6 DEF TypeOK, Submit, Threads, Labels, Goto, HandlerThrows,
       clientVars
  <2>2. task' \in [Runs -> TaskStates]
    BY <1>6 DEF TypeOK, Submit, TaskStates, Runs
  <2>3. workerRun' \in 0 .. MaxRuns
    BY <1>6 DEF TypeOK, Submit, Runs
  <2> QED
    BY <1>0, <1>6, <2>1, <2>2, <2>3 DEF TypeOK, Submit, Runs, HandlerThrows,
       clientVars, fieldVars, ioVars, outVars
<1>7. ASSUME Assign PROVE TypeOK'
  BY <1>7 DEF TypeOK, Assign, Runs, Threads, Labels, Goto, clientVars,
     execVars, ioVars, outVars
<1>8. ASSUME ReceiveInput PROVE TypeOK'
  <2>1. inbox' \in Seq(Messages)
    BY <1>8, ReceiveType DEF ReceiveInput, Messages
  <2>2. pc' \in [Threads -> Labels]
    BY <1>8 DEF TypeOK, ReceiveInput, Threads, Labels, Goto
  <2> QED
    BY <1>8, <2>1, <2>2 DEF TypeOK, ReceiveInput, Runs, fieldVars, execVars, ioVars, outVars
<1>9. ASSUME LockInput PROVE TypeOK'
  <2>1. pc' \in [Threads -> Labels]
    BY <1>9 DEF TypeOK, LockInput, Threads, Labels, Goto, HandlerThrows,
       clientVars
  <2>2. task' \in [Runs -> TaskStates]
    BY <1>9 DEF TypeOK, LockInput, TaskStates, Runs, execVars
  <2>3. workerRun' \in 0 .. MaxRuns
    BY <1>9 DEF TypeOK, LockInput, Runs, execVars
  <2> QED
    BY <1>0, <1>9, <2>1, <2>2, <2>3 DEF TypeOK, LockInput, Runs,
       HandlerThrows, clientVars, fieldVars, execVars, ioVars, outVars
<1>10. ASSUME WriteInput PROVE TypeOK'
  <2>1. \A r \in Runs : pipeFill[r] \in 0 .. PipeCapacity
    BY DEF TypeOK
  <2>2. \A r \in Runs : pipeFill[r] < PipeCapacity => pipeFill[r] + 1 \in 0 .. PipeCapacity
    BY <2>1
  <2>3. pipeFill' \in [Runs -> 0 .. PipeCapacity]
    BY <1>10, <2>1, <2>2 DEF TypeOK, WriteInput
  <2> QED
    BY <1>10, <2>3 DEF TypeOK, WriteInput, Threads, Labels, Goto, clientVars, fieldVars, execVars,
       outVars
<1>11. ASSUME WriteInputFails PROVE TypeOK'
  BY <1>11 DEF TypeOK, WriteInputFails, Runs, Threads, Labels, Goto,
     clientVars, fieldVars, execVars, ioVars, outVars
<1>12. ASSUME ReceiveStop PROVE TypeOK'
  <2>1. inbox' \in Seq(Messages)
    BY <1>12, ReceiveType DEF ReceiveStop, Messages
  <2>2. pc' \in [Threads -> Labels]
    BY <1>12 DEF TypeOK, ReceiveStop, Threads, Labels, Goto
  <2> QED
    BY <1>12, <2>1, <2>2 DEF TypeOK, ReceiveStop, Runs, fieldVars, execVars, ioVars, outVars
<1>13. ASSUME NEW t \in {"handler", "closer"}, Cancel(t) PROVE TypeOK'
  <2>1. pc' \in [Threads -> Labels]
    BY <1>13 DEF TypeOK, Cancel, Threads, Labels, Goto, clientVars
  <2>2. task' \in [Runs -> TaskStates]
    BY SMTT(30), <1>13 DEF TypeOK, Cancel, TaskStates, Runs, CancelTask
  <2>3. workerRun' \in 0 .. MaxRuns
    BY <1>13 DEF TypeOK, Cancel, Runs
  <2> QED
    BY <1>0, <1>13, <2>1, <2>2, <2>3 DEF TypeOK, Cancel, Runs, clientVars,
       fieldVars, ioVars, outVars
<1>14. ASSUME NEW t \in Threads, CheckProcess(t) PROVE TypeOK'
  BY <1>14 DEF TypeOK, CheckProcess, Runs, Threads, Labels, Goto, clientVars,
     fieldVars, execVars, ioVars, outVars
<1>15. ASSUME NEW t \in Threads, KillProcess(t) PROVE TypeOK'
  BY <1>15 DEF TypeOK, KillProcess, Runs, Threads, Labels, Goto, Kill,
     clientVars, fieldVars, execVars, outVars
<1>16. ASSUME NEW t \in Threads, ClearProcess(t) PROVE TypeOK'
  BY <1>16 DEF TypeOK, ClearProcess, Runs, Threads, Labels, Goto, clientVars,
     fieldVars, execVars, ioVars, outVars
<1>17. ASSUME NEW t \in Threads, NullProcess(t) PROVE TypeOK'
  <2>1. pc' \in [Threads -> Labels]
    BY <1>17 DEF TypeOK, NullProcess, Threads, Labels, Goto, HandlerThrows,
       clientVars
  <2>2. task' \in [Runs -> TaskStates]
    BY <1>17 DEF TypeOK, NullProcess, TaskStates, Runs
  <2>3. workerRun' \in 0 .. MaxRuns
    BY <1>17 DEF TypeOK, NullProcess, Runs
  <2> QED
    BY <1>0, <1>17, <2>1, <2>2, <2>3 DEF TypeOK, NullProcess, Runs,
       HandlerThrows, clientVars, fieldVars, ioVars, outVars
<1>18. ASSUME NEW t \in Threads, CloseInput(t) PROVE TypeOK'
  <2>1. pc' \in [Threads -> Labels]
    BY <1>18 DEF TypeOK, CloseInput, Threads, Labels, Goto, clientVars
  <2>2. task' \in [Runs -> TaskStates]
    BY <1>18 DEF TypeOK, CloseInput, TaskStates, Runs, execVars
  <2>3. workerRun' \in 0 .. MaxRuns
    BY <1>18 DEF TypeOK, CloseInput, Runs, execVars
  <2> QED
    BY <1>0, <1>18, <2>1, <2>2, <2>3 DEF TypeOK, CloseInput, Runs, clientVars,
       execVars, outVars
<1>19. ASSUME Shutdown PROVE TypeOK'
  BY <1>19 DEF TypeOK, Shutdown, Runs, Threads, Labels, TaskStates, Goto,
     clientVars, fieldVars, ioVars, outVars
<1>20. ASSUME NEW r \in Runs, Take(r) PROVE TypeOK'
  <2>1. pc' \in [Threads -> Labels]
    BY <1>20 DEF TypeOK, Take, Threads, Labels, Goto, WorkerAt, clientVars
  <2>2. task' \in [Runs -> TaskStates]
    BY <1>20 DEF TypeOK, Take, TaskStates, Runs
  <2>3. workerRun' \in 0 .. MaxRuns
    BY <1>20 DEF TypeOK, Take, Runs
  <2> QED
    BY <1>0, <1>20, <2>1, <2>2, <2>3 DEF TypeOK, Take, Runs, clientVars,
       fieldVars, ioVars, outVars
<1>21. ASSUME Refuse PROVE TypeOK'
  BY <1>21 DEF TypeOK, Refuse, Runs, Threads, Labels, Goto, WorkerAt,
     clientVars, fieldVars, execVars, ioVars, outVars
<1>22. ASSUME Prepare PROVE TypeOK'
  BY <1>22 DEF TypeOK, Prepare, Runs, Threads, Labels, Goto, WorkerAt,
     clientVars, fieldVars, execVars, ioVars, outVars
<1>23. ASSUME Launch PROVE TypeOK'
  <2>1. pc' \in [Threads -> Labels]
    BY <1>23 DEF TypeOK, Launch, Threads, Labels, Goto, WorkerAt, clientVars
  <2>2. task' \in [Runs -> TaskStates]
    BY <1>23 DEF TypeOK, Launch, TaskStates, Runs, execVars
  <2>3. workerRun' \in 0 .. MaxRuns
    BY <1>23 DEF TypeOK, Launch, Runs, execVars
  <2> QED
    BY <1>0, <1>23, <2>1, <2>2, <2>3 DEF TypeOK, Launch, Runs, clientVars,
       fieldVars, execVars, outVars
<1>24. ASSUME Register PROVE TypeOK'
  BY <1>24 DEF TypeOK, Register, Runs, Threads, Labels, Goto, WorkerAt,
     clientVars, fieldVars, execVars, outVars
<1>25. ASSUME WaitInterrupted PROVE TypeOK'
  BY <1>25 DEF TypeOK, WaitInterrupted, Runs, Threads, Labels, Goto, WorkerAt,
     Kill, clientVars, fieldVars, execVars, outVars
<1>26. ASSUME WaitExit PROVE TypeOK'
  BY <1>26 DEF TypeOK, WaitExit, Runs, Threads, Labels, Goto, WorkerAt,
     clientVars, fieldVars, execVars, ioVars, outVars
<1>27. ASSUME Join PROVE TypeOK'
  BY <1>27 DEF TypeOK, Join, Runs, Threads, Labels, Goto, WorkerAt,
     clientVars, fieldVars, execVars, ioVars, outVars
<1>28. ASSUME Finish PROVE TypeOK'
  BY <1>28 DEF TypeOK, Finish, Runs, Threads, Labels, Goto, WorkerAt,
     clientVars, fieldVars, execVars, outVars
<1>29. ASSUME Answer PROVE TypeOK'
  BY <1>29 DEF TypeOK, Answer, Runs, Threads, Labels, Goto, WorkerAt,
     SendAnswer, clientVars, fieldVars, execVars, ioVars
<1>30. ASSUME Release PROVE TypeOK'
  <2>1. pc' \in [Threads -> Labels]
    BY <1>30 DEF TypeOK, Release, Threads, Labels, Goto, WorkerAt, clientVars
  <2>2. task' \in [Runs -> TaskStates]
    BY <1>30 DEF TypeOK, Release, TaskStates, Runs
  <2>3. workerRun' \in 0 .. MaxRuns
    BY <1>30 DEF TypeOK, Release, Runs
  <2> QED
    BY <1>0, <1>30, <2>1, <2>2, <2>3 DEF TypeOK, Release, Runs, clientVars,
       ioVars, outVars
<1>31. ASSUME NEW r \in Runs, ProcessWrites(r) PROVE TypeOK'
  BY <1>31 DEF TypeOK, ProcessWrites, Runs, clientVars, fieldVars, execVars,
     outVars
<1>32. ASSUME NEW r \in Runs, ProcessReads(r) PROVE TypeOK'
  BY <1>32 DEF TypeOK, ProcessReads, Runs, clientVars, fieldVars, execVars,
     outVars
<1>33. ASSUME NEW r \in Runs, ProcessExits(r) PROVE TypeOK'
  BY <1>33 DEF TypeOK, ProcessExits, Runs, clientVars, fieldVars, execVars,
     outVars
<1>34. ASSUME NEW r \in Runs, KilledProcessDies(r) PROVE TypeOK'
  BY <1>34 DEF TypeOK, KilledProcessDies, Runs, clientVars, fieldVars,
     execVars, outVars
<1>35. ASSUME NEW r \in Runs, PumpOutput(r) PROVE TypeOK'
  BY <1>35 DEF TypeOK, PumpOutput, Runs, clientVars, fieldVars, execVars
<1>36. ASSUME NEW r \in Runs, PumpEnds(r) PROVE TypeOK'
  BY <1>36 DEF TypeOK, PumpEnds, Runs, clientVars, fieldVars, execVars,
     outVars
<1>37. ASSUME NEW r \in Runs, PumpThrows(r) PROVE TypeOK'
  BY <1>37 DEF TypeOK, PumpThrows, Runs, clientVars, fieldVars, execVars,
     outVars
<1>38. ASSUME NEW r \in Runs, StdinPumpEnds(r) PROVE TypeOK'
  BY <1>38 DEF TypeOK, StdinPumpEnds, Runs, clientVars, fieldVars, execVars,
     outVars
<1> QED
  BY <1>1, <1>2, <1>3, <1>4, <1>5, <1>6, <1>7, <1>8, <1>9, <1>10, <1>11,
     <1>12, <1>13, <1>14, <1>15, <1>16, <1>17, <1>18, <1>19, <1>20, <1>21,
     <1>22, <1>23, <1>24, <1>25, <1>26, <1>27, <1>28, <1>29, <1>30, <1>31,
     <1>32, <1>33, <1>34, <1>35, <1>36, <1>37, <1>38 DEF Next, Handler,
     Worker, StopProcess, Threads

-----------------------------------------------------------------------------
(* The inductive invariant.                                                *)

LEMMA RunInvInit == Init => RunInv
  BY BoundsAssumption DEF Init, RunInv, Control, Ownership, Progress, Past,
     Pumps, InterruptHitsItsRun, LateOutputOnlyAfterStop, AfterFinish,
     AfterAnswer, Registered, Live, Runs, Null, Threads

LEMMA RunInvStep == ASSUME IInv, TypeOK', Next PROVE RunInv'
<1> USE BoundsAssumption DEF Threads, Runs, Null
<1>1. ASSUME NEW m \in Messages, ClientSend(m) PROVE RunInv'
  BY <1>1 DEF IInv, RunInv, TypeOK, Control, Ownership, Progress, Past, Pumps,
     InterruptHitsItsRun, LateOutputOnlyAfterStop, AfterFinish, AfterAnswer,
     Registered, Live, ClientSend, fieldVars, execVars, ioVars, outVars
<1>2. ASSUME Disconnect PROVE RunInv'
  BY <1>2 DEF IInv, RunInv, TypeOK, Control, Ownership, Progress, Past, Pumps,
     InterruptHitsItsRun, LateOutputOnlyAfterStop, AfterFinish, AfterAnswer,
     Registered, Live, Disconnect, Goto, fieldVars, execVars, ioVars, outVars
<1>3. ASSUME ReceiveInvalid PROVE RunInv'
  BY <1>3 DEF IInv, RunInv, TypeOK, Control, Ownership, Progress, Past, Pumps,
     InterruptHitsItsRun, LateOutputOnlyAfterStop, AfterFinish, AfterAnswer,
     Registered, Live, ReceiveInvalid, Receive, fieldVars, execVars, ioVars,
     outVars
<1>4. ASSUME StartRefused PROVE RunInv'
  BY <1>4 DEF IInv, RunInv, TypeOK, Control, Ownership, Progress, Past, Pumps,
     InterruptHitsItsRun, LateOutputOnlyAfterStop, AfterFinish, AfterAnswer,
     Registered, Live, StartRefused, Receive, fieldVars, execVars, ioVars,
     outVars
<1>5. ASSUME StartAccepted PROVE RunInv'
  BY <1>5 DEF IInv, RunInv, TypeOK, Control, Ownership, Progress, Past, Pumps,
     InterruptHitsItsRun, LateOutputOnlyAfterStop, AfterFinish, AfterAnswer,
     Registered, Live, StartAccepted, Goto, Receive, execVars, outVars
<1>6. ASSUME Submit PROVE RunInv'
  <2>1. CASE shutdown
    <3>1. Control'
      BY <1>6, <2>1 DEF IInv, RunInv, TypeOK, Control, AfterFinish,
         AfterAnswer, Submit, Goto, HandlerThrows, clientVars, fieldVars,
         ioVars, outVars
    <3>2. Ownership'
      BY <1>6, <2>1 DEF IInv, RunInv, TypeOK, Control, Ownership, Live,
         Submit, Goto, HandlerThrows, clientVars, fieldVars, ioVars, outVars
    <3>3. Progress'
      BY <1>6, <2>1 DEF IInv, RunInv, TypeOK, Control, Ownership, Progress,
         AfterFinish, AfterAnswer, Registered, Live, Submit, Goto,
         HandlerThrows, clientVars, fieldVars, ioVars, outVars
    <3>4. Past'
      BY <1>6, <2>1 DEF IInv, RunInv, TypeOK, Control, Ownership, Progress,
         Past, AfterFinish, AfterAnswer, Registered, Live, Submit, Goto,
         HandlerThrows, clientVars, fieldVars, ioVars, outVars
    <3>5. Pumps'
      BY <1>6, <2>1 DEF IInv, RunInv, TypeOK, Control, Ownership, Progress,
         Pumps, InterruptHitsItsRun, AfterFinish, AfterAnswer, Live, Submit,
         Goto, HandlerThrows, clientVars, fieldVars, ioVars, outVars
    <3>6. InterruptHitsItsRun'
      BY <1>6, <2>1 DEF IInv, RunInv, TypeOK, Control, Ownership,
         InterruptHitsItsRun, Live, Submit, Goto, HandlerThrows, clientVars,
         fieldVars, ioVars, outVars
    <3>7. LateOutputOnlyAfterStop'
      BY <1>6, <2>1 DEF IInv, RunInv, TypeOK, Control, Ownership, Progress,
         Pumps, LateOutputOnlyAfterStop, AfterFinish, AfterAnswer, Live,
         Submit, Goto, HandlerThrows, clientVars, fieldVars, ioVars, outVars
    <3> QED
      BY <3>1, <3>2, <3>3, <3>4, <3>5, <3>6, <3>7 DEF RunInv
  <2>2. CASE ~shutdown
    <3>1. Control'
      BY <1>6, <2>2 DEF IInv, RunInv, TypeOK, Control, AfterFinish,
         AfterAnswer, Submit, Goto, HandlerThrows, clientVars, fieldVars,
         ioVars, outVars
    <3>2. Ownership'
      <4>1. started \in Runs /\ started # 0 /\ task[started] = "none" /\ running
        BY <1>6, <2>2 DEF IInv, RunInv, TypeOK, Ownership, Submit
      <4>2. /\ \A r \in Runs : r # started => task'[r] = task[r]
            /\ task'[started] = "queued"
        BY <1>6, <2>2, <4>1 DEF IInv, TypeOK, Submit
      <4>3. /\ pc'["worker"] = pc["worker"] /\ pc'["handler"] = "assign"
            /\ UNCHANGED <<workerRun, inputWriter, running, started>>
        BY <1>6, <2>2 DEF IInv, TypeOK, Submit, Goto, fieldVars
      <4>4. \A r \in Runs : task'[r] \in {"executing", "interrupted"} <=> r = workerRun'
        BY <4>1, <4>2, <4>3 DEF IInv, RunInv, Ownership
      <4>5. \A r \in Runs : Live(r)' => r = started' /\ running'
        BY <4>1, <4>2, <4>3 DEF IInv, RunInv, Ownership, Live
      <4>6. \A r \in Runs : r > started' => task'[r] = "none"
        BY <4>1, <4>2, <4>3 DEF IInv, RunInv, Ownership
      <4> QED
        BY <4>3, <4>4, <4>5, <4>6 DEF IInv, RunInv, Ownership
    <3>3. Progress'
      <4>1. started \in Runs /\ task[started] = "none"
        BY <1>6, <2>2 DEF IInv, RunInv, TypeOK, Ownership, Submit
      <4>2. workerRun # started
        BY <4>1 DEF IInv, RunInv, Ownership
      <4>3. /\ \A r \in Runs : r # started => task'[r] = task[r]
            /\ task'[started] = "queued"
        BY <1>6, <2>2, <4>1 DEF IInv, TypeOK, Submit
      <4>4. /\ pc'["worker"] = pc["worker"]
            /\ UNCHANGED <<workerRun, started, currentProcess, inputWriter, proc, pipe, pump, answer>>
        BY <1>6, <2>2 DEF IInv, TypeOK, Submit, Goto, ioVars, outVars, fieldVars
      <4> QED
        BY <4>1, <4>2, <4>3, <4>4 DEF Progress, IInv, RunInv, AfterAnswer, AfterFinish, Registered
    <3>4. Past'
      BY SMTT(30), <1>6, <2>2 DEF IInv, RunInv, TypeOK, Control, Ownership,
         Progress, Past, AfterFinish, AfterAnswer, Registered, Live, Submit,
         Goto, HandlerThrows, clientVars, fieldVars, ioVars, outVars
    <3>5. Pumps'
      <4>1. started \in Runs /\ task[started] = "none" /\ pump[started] = "none"
        BY <1>6, <2>2 DEF IInv, RunInv, TypeOK, Ownership, Progress, Submit
      <4>2. \A r \in Runs : r # started => task'[r] = task[r]
        BY <1>6, <2>2, <4>1 DEF IInv, TypeOK, Submit
      <4>3. pc'["worker"] = pc["worker"] /\ UNCHANGED <<workerRun, pump, shutdown>>
        BY <1>6, <2>2 DEF IInv, TypeOK, Submit, Goto, ioVars
      <4> QED
        BY <4>1, <4>2, <4>3 DEF Pumps, IInv, RunInv
    <3>6. InterruptHitsItsRun'
      BY <1>6, <2>2 DEF IInv, RunInv, TypeOK, Control, Ownership,
         InterruptHitsItsRun, Live, Submit, Goto, HandlerThrows, clientVars,
         fieldVars, ioVars, outVars
    <3>7. LateOutputOnlyAfterStop'
      BY SMTT(30), <1>6, <2>2 DEF IInv, RunInv, TypeOK, Control, Ownership,
         Progress, Pumps, LateOutputOnlyAfterStop, AfterFinish, AfterAnswer,
         Live, Submit, Goto, HandlerThrows, clientVars, fieldVars, ioVars,
         outVars
    <3> QED
      BY <3>1, <3>2, <3>3, <3>4, <3>5, <3>6, <3>7 DEF RunInv
  <2> QED
    BY <1>6, <2>1, <2>2 DEF Submit
<1>7. ASSUME Assign PROVE RunInv'
  BY <1>7 DEF IInv, RunInv, TypeOK, Control, Ownership, Progress, Past, Pumps,
     InterruptHitsItsRun, LateOutputOnlyAfterStop, AfterFinish, AfterAnswer,
     Registered, Live, Assign, Goto, clientVars, execVars, ioVars, outVars
<1>8. ASSUME ReceiveInput PROVE RunInv'
  BY <1>8 DEF IInv, RunInv, TypeOK, Control, Ownership, Progress, Past, Pumps,
     InterruptHitsItsRun, LateOutputOnlyAfterStop, AfterFinish, AfterAnswer,
     Registered, Live, ReceiveInput, Goto, Receive, fieldVars, execVars,
     ioVars, outVars
<1>9. ASSUME LockInput PROVE RunInv'
  <2>1. CASE inputWriter = Null
    <3>1. Control'
      BY <1>9, <2>1 DEF IInv, RunInv, TypeOK, Control, AfterFinish,
         AfterAnswer, LockInput, Goto, HandlerThrows, clientVars, fieldVars,
         execVars, ioVars, outVars
    <3>2. Ownership'
      BY <1>9, <2>1 DEF IInv, RunInv, TypeOK, Control, Ownership, Live,
         LockInput, Goto, HandlerThrows, clientVars, fieldVars, execVars,
         ioVars, outVars
    <3>3. Progress'
      BY <1>9, <2>1 DEF IInv, RunInv, TypeOK, Control, Ownership, Progress,
         AfterFinish, AfterAnswer, Registered, Live, LockInput, Goto,
         HandlerThrows, clientVars, fieldVars, execVars, ioVars, outVars
    <3>4. Past'
      BY <1>9, <2>1 DEF IInv, RunInv, TypeOK, Control, Ownership, Progress,
         Past, AfterFinish, AfterAnswer, Registered, Live, LockInput, Goto,
         HandlerThrows, clientVars, fieldVars, execVars, ioVars, outVars
    <3>5. Pumps'
      BY <1>9, <2>1 DEF IInv, RunInv, TypeOK, Control, Ownership, Progress,
         Pumps, InterruptHitsItsRun, AfterFinish, AfterAnswer, Live,
         LockInput, Goto, HandlerThrows, clientVars, fieldVars, execVars,
         ioVars, outVars
    <3>6. InterruptHitsItsRun'
      BY <1>9, <2>1 DEF IInv, RunInv, TypeOK, Control, Ownership,
         InterruptHitsItsRun, Live, LockInput, Goto, HandlerThrows,
         clientVars, fieldVars, execVars, ioVars, outVars
    <3>7. LateOutputOnlyAfterStop'
      BY <1>9, <2>1 DEF IInv, RunInv, TypeOK, Control, Ownership, Progress,
         Pumps, LateOutputOnlyAfterStop, AfterFinish, AfterAnswer, Live,
         LockInput, Goto, HandlerThrows, clientVars, fieldVars, execVars,
         ioVars, outVars
    <3> QED
      BY <3>1, <3>2, <3>3, <3>4, <3>5, <3>6, <3>7 DEF RunInv
  <2>2. CASE inputWriter # Null
    <3>1. Control'
      BY <1>9, <2>2 DEF IInv, RunInv, TypeOK, Control, AfterFinish,
         AfterAnswer, LockInput, Goto, HandlerThrows, clientVars, fieldVars,
         execVars, ioVars, outVars
    <3>2. Ownership'
      BY <1>9, <2>2 DEF IInv, RunInv, TypeOK, Control, Ownership, Live,
         LockInput, Goto, HandlerThrows, clientVars, fieldVars, execVars,
         ioVars, outVars
    <3>3. Progress'
      BY <1>9, <2>2 DEF IInv, RunInv, TypeOK, Control, Ownership, Progress,
         AfterFinish, AfterAnswer, Registered, Live, LockInput, Goto,
         HandlerThrows, clientVars, fieldVars, execVars, ioVars, outVars
    <3>4. Past'
      BY <1>9, <2>2 DEF IInv, RunInv, TypeOK, Control, Ownership, Progress,
         Past, AfterFinish, AfterAnswer, Registered, Live, LockInput, Goto,
         HandlerThrows, clientVars, fieldVars, execVars, ioVars, outVars
    <3>5. Pumps'
      BY <1>9, <2>2 DEF IInv, RunInv, TypeOK, Control, Ownership, Progress,
         Pumps, InterruptHitsItsRun, AfterFinish, AfterAnswer, Live,
         LockInput, Goto, HandlerThrows, clientVars, fieldVars, execVars,
         ioVars, outVars
    <3>6. InterruptHitsItsRun'
      BY <1>9, <2>2 DEF IInv, RunInv, TypeOK, Control, Ownership,
         InterruptHitsItsRun, Live, LockInput, Goto, HandlerThrows,
         clientVars, fieldVars, execVars, ioVars, outVars
    <3>7. LateOutputOnlyAfterStop'
      BY <1>9, <2>2 DEF IInv, RunInv, TypeOK, Control, Ownership, Progress,
         Pumps, LateOutputOnlyAfterStop, AfterFinish, AfterAnswer, Live,
         LockInput, Goto, HandlerThrows, clientVars, fieldVars, execVars,
         ioVars, outVars
    <3> QED
      BY <3>1, <3>2, <3>3, <3>4, <3>5, <3>6, <3>7 DEF RunInv
  <2> QED
    BY <1>9, <2>1, <2>2 DEF LockInput
<1>10. ASSUME WriteInput PROVE RunInv'
  BY <1>10 DEF IInv, RunInv, TypeOK, Control, Ownership, Progress, Past,
     Pumps, InterruptHitsItsRun, LateOutputOnlyAfterStop, AfterFinish,
     AfterAnswer, Registered, Live, WriteInput, Goto, clientVars, fieldVars,
     execVars, outVars
<1>11. ASSUME WriteInputFails PROVE RunInv'
  BY <1>11 DEF IInv, RunInv, TypeOK, Control, Ownership, Progress, Past,
     Pumps, InterruptHitsItsRun, LateOutputOnlyAfterStop, AfterFinish,
     AfterAnswer, Registered, Live, WriteInputFails, Goto, clientVars,
     fieldVars, execVars, ioVars, outVars
<1>12. ASSUME ReceiveStop PROVE RunInv'
  BY <1>12 DEF IInv, RunInv, TypeOK, Control, Ownership, Progress, Past,
     Pumps, InterruptHitsItsRun, LateOutputOnlyAfterStop, AfterFinish,
     AfterAnswer, Registered, Live, ReceiveStop, Goto, Receive, fieldVars,
     execVars, ioVars, outVars
<1>13. ASSUME NEW t \in {"handler", "closer"}, Cancel(t) PROVE RunInv'
  <2>1. CASE CancelTask("queued", "cancelled") /\ UNCHANGED interrupted
    <3>1. Control'
      BY <1>13, <2>1 DEF IInv, RunInv, TypeOK, Control, AfterFinish,
         AfterAnswer, Cancel, Goto, CancelTask, NothingToCancel, clientVars,
         fieldVars, ioVars, outVars
    <3>2. Ownership'
      BY <1>13, <2>1 DEF IInv, RunInv, TypeOK, Control, Ownership, Live,
         Cancel, Goto, CancelTask, NothingToCancel, clientVars, fieldVars,
         ioVars, outVars
    <3>3. Progress'
      <4>1. currentTask \in Runs
        BY <1>13, <2>1 DEF IInv, TypeOK, CancelTask
      <4>2. \A r \in Runs : task'[r] \in {"none", "queued"} => task[r] \in {"none", "queued"}
        BY <1>13, <2>1, <4>1 DEF IInv, TypeOK, CancelTask
      <4>3. /\ pc'["worker"] = pc["worker"]
            /\ UNCHANGED <<workerRun, started, currentProcess, inputWriter, proc, pipe, pump, answer>>
        BY <1>13, <2>1 DEF IInv, TypeOK, Cancel, Goto, fieldVars, ioVars, outVars
      <4> QED
        BY <4>2, <4>3 DEF IInv, RunInv, Progress, AfterAnswer, AfterFinish, Registered
    <3>4. Past'
      BY <1>13, <2>1 DEF IInv, RunInv, TypeOK, Control, Ownership, Progress,
         Past, AfterFinish, AfterAnswer, Registered, Live, Cancel, Goto,
         CancelTask, NothingToCancel, clientVars, fieldVars, ioVars, outVars
    <3>5. Pumps'
      <4>1. currentTask \in Runs /\ task[currentTask] = "queued" /\ pump[currentTask] = "none"
        BY <1>13, <2>1 DEF IInv, RunInv, TypeOK, Progress, CancelTask
      <4>2. \A r \in Runs : r # currentTask => task'[r] = task[r]
        BY <1>13, <2>1, <4>1 DEF IInv, TypeOK, CancelTask
      <4>3. pc'["worker"] = pc["worker"] /\ UNCHANGED <<workerRun, pump, shutdown>>
        BY <1>13, <2>1 DEF IInv, TypeOK, Cancel, Goto, ioVars
      <4> QED
        BY <4>1, <4>2, <4>3 DEF Pumps, IInv, RunInv
    <3>6. InterruptHitsItsRun'
      BY <1>13, <2>1 DEF IInv, RunInv, TypeOK, Control, Ownership,
         InterruptHitsItsRun, Live, Cancel, Goto, CancelTask, NothingToCancel,
         clientVars, fieldVars, ioVars, outVars
    <3>7. LateOutputOnlyAfterStop'
      BY <1>13, <2>1 DEF IInv, RunInv, TypeOK, Control, Ownership, Progress,
         Pumps, LateOutputOnlyAfterStop, AfterFinish, AfterAnswer, Live,
         Cancel, Goto, CancelTask, NothingToCancel, clientVars, fieldVars,
         ioVars, outVars
    <3> QED
      BY <3>1, <3>2, <3>3, <3>4, <3>5, <3>6, <3>7 DEF RunInv
  <2>2. CASE CancelTask("executing", "interrupted") /\ interrupted' = TRUE
    <3>1. Control'
      BY <1>13, <2>2 DEF IInv, RunInv, TypeOK, Control, AfterFinish,
         AfterAnswer, Cancel, Goto, CancelTask, NothingToCancel, clientVars,
         fieldVars, ioVars, outVars
    <3>2. Ownership'
      BY <1>13, <2>2 DEF IInv, RunInv, TypeOK, Control, Ownership, Live,
         Cancel, Goto, CancelTask, NothingToCancel, clientVars, fieldVars,
         ioVars, outVars
    <3>3. Progress'
      BY <1>13, <2>2 DEF IInv, RunInv, TypeOK, Control, Ownership, Progress,
         AfterFinish, AfterAnswer, Registered, Live, Cancel, Goto, CancelTask,
         NothingToCancel, clientVars, fieldVars, ioVars, outVars
    <3>4. Past'
      BY <1>13, <2>2 DEF IInv, RunInv, TypeOK, Control, Ownership, Progress,
         Past, AfterFinish, AfterAnswer, Registered, Live, Cancel, Goto,
         CancelTask, NothingToCancel, clientVars, fieldVars, ioVars, outVars
    <3>5. Pumps'
      BY <1>13, <2>2 DEF IInv, RunInv, TypeOK, Control, Ownership, Progress,
         Pumps, InterruptHitsItsRun, AfterFinish, AfterAnswer, Live, Cancel,
         Goto, CancelTask, NothingToCancel, clientVars, fieldVars, ioVars,
         outVars
    <3>6. InterruptHitsItsRun'
      BY <1>13, <2>2 DEF IInv, RunInv, TypeOK, Control, Ownership,
         InterruptHitsItsRun, Live, Cancel, Goto, CancelTask, NothingToCancel,
         clientVars, fieldVars, ioVars, outVars
    <3>7. LateOutputOnlyAfterStop'
      BY <1>13, <2>2 DEF IInv, RunInv, TypeOK, Control, Ownership, Progress,
         Pumps, LateOutputOnlyAfterStop, AfterFinish, AfterAnswer, Live,
         Cancel, Goto, CancelTask, NothingToCancel, clientVars, fieldVars,
         ioVars, outVars
    <3> QED
      BY <3>1, <3>2, <3>3, <3>4, <3>5, <3>6, <3>7 DEF RunInv
  <2>3. CASE UNCHANGED <<task, interrupted>>
    <3>1. Control'
      BY <1>13, <2>3 DEF IInv, RunInv, TypeOK, Control, AfterFinish,
         AfterAnswer, Cancel, Goto, CancelTask, NothingToCancel, clientVars,
         fieldVars, ioVars, outVars
    <3>2. Ownership'
      BY <1>13, <2>3 DEF IInv, RunInv, TypeOK, Control, Ownership, Live,
         Cancel, Goto, CancelTask, NothingToCancel, clientVars, fieldVars,
         ioVars, outVars
    <3>3. Progress'
      BY <1>13, <2>3 DEF IInv, RunInv, TypeOK, Control, Ownership, Progress,
         AfterFinish, AfterAnswer, Registered, Live, Cancel, Goto, CancelTask,
         NothingToCancel, clientVars, fieldVars, ioVars, outVars
    <3>4. Past'
      BY <1>13, <2>3 DEF IInv, RunInv, TypeOK, Control, Ownership, Progress,
         Past, AfterFinish, AfterAnswer, Registered, Live, Cancel, Goto,
         CancelTask, NothingToCancel, clientVars, fieldVars, ioVars, outVars
    <3>5. Pumps'
      BY <1>13, <2>3 DEF IInv, RunInv, TypeOK, Control, Ownership, Progress,
         Pumps, InterruptHitsItsRun, AfterFinish, AfterAnswer, Live, Cancel,
         Goto, CancelTask, NothingToCancel, clientVars, fieldVars, ioVars,
         outVars
    <3>6. InterruptHitsItsRun'
      BY <1>13, <2>3 DEF IInv, RunInv, TypeOK, Control, Ownership,
         InterruptHitsItsRun, Live, Cancel, Goto, CancelTask, NothingToCancel,
         clientVars, fieldVars, ioVars, outVars
    <3>7. LateOutputOnlyAfterStop'
      BY <1>13, <2>3 DEF IInv, RunInv, TypeOK, Control, Ownership, Progress,
         Pumps, LateOutputOnlyAfterStop, AfterFinish, AfterAnswer, Live,
         Cancel, Goto, CancelTask, NothingToCancel, clientVars, fieldVars,
         ioVars, outVars
    <3> QED
      BY <3>1, <3>2, <3>3, <3>4, <3>5, <3>6, <3>7 DEF RunInv
  <2> QED
    BY <1>13, <2>1, <2>2, <2>3 DEF Cancel
<1>14. ASSUME NEW t \in Threads, CheckProcess(t) PROVE RunInv'
  <2>1. Control'
    BY <1>14 DEF IInv, RunInv, TypeOK, Control, AfterFinish, AfterAnswer,
       CheckProcess, Goto, clientVars, fieldVars, execVars, ioVars, outVars
  <2>2. Ownership'
    BY <1>14 DEF IInv, RunInv, TypeOK, Control, Ownership, Live, CheckProcess,
       Goto, clientVars, fieldVars, execVars, ioVars, outVars
  <2>3. Progress'
    BY <1>14 DEF IInv, RunInv, TypeOK, Control, Ownership, Progress,
       AfterFinish, AfterAnswer, Registered, Live, CheckProcess, Goto,
       clientVars, fieldVars, execVars, ioVars, outVars
  <2>4. Past'
    BY <1>14 DEF IInv, RunInv, TypeOK, Control, Ownership, Progress, Past,
       AfterFinish, AfterAnswer, Registered, Live, CheckProcess, Goto,
       clientVars, fieldVars, execVars, ioVars, outVars
  <2>5. Pumps'
    BY <1>14 DEF IInv, RunInv, TypeOK, Control, Ownership, Progress, Pumps,
       InterruptHitsItsRun, AfterFinish, AfterAnswer, Live, CheckProcess,
       Goto, clientVars, fieldVars, execVars, ioVars, outVars
  <2>6. InterruptHitsItsRun'
    BY <1>14 DEF IInv, RunInv, TypeOK, Control, Ownership,
       InterruptHitsItsRun, Live, CheckProcess, Goto, clientVars, fieldVars,
       execVars, ioVars, outVars
  <2>7. LateOutputOnlyAfterStop'
    BY <1>14 DEF IInv, RunInv, TypeOK, Control, Ownership, Progress, Pumps,
       LateOutputOnlyAfterStop, AfterFinish, AfterAnswer, Live, CheckProcess,
       Goto, clientVars, fieldVars, execVars, ioVars, outVars
  <2> QED
    BY <2>1, <2>2, <2>3, <2>4, <2>5, <2>6, <2>7 DEF RunInv
<1>15. ASSUME NEW t \in Threads, KillProcess(t) PROVE RunInv'
  <2>1. Control'
    BY <1>15 DEF IInv, RunInv, TypeOK, Control, AfterFinish, AfterAnswer,
       KillProcess, Goto, Kill, clientVars, fieldVars, execVars, outVars
  <2>2. Ownership'
    BY <1>15 DEF IInv, RunInv, TypeOK, Control, Ownership, Live, KillProcess,
       Goto, Kill, clientVars, fieldVars, execVars, outVars
  <2>3. Progress'
    BY <1>15 DEF IInv, RunInv, TypeOK, Control, Ownership, Progress,
       AfterFinish, AfterAnswer, Registered, Live, KillProcess, Goto, Kill,
       clientVars, fieldVars, execVars, outVars
  <2>4. Past'
    BY <1>15 DEF IInv, RunInv, TypeOK, Control, Ownership, Progress, Past,
       AfterFinish, AfterAnswer, Registered, Live, KillProcess, Goto, Kill,
       clientVars, fieldVars, execVars, outVars
  <2>5. Pumps'
    BY <1>15 DEF IInv, RunInv, TypeOK, Control, Ownership, Progress, Pumps,
       InterruptHitsItsRun, AfterFinish, AfterAnswer, Live, KillProcess, Goto,
       Kill, clientVars, fieldVars, execVars, outVars
  <2>6. InterruptHitsItsRun'
    BY <1>15 DEF IInv, RunInv, TypeOK, Control, Ownership,
       InterruptHitsItsRun, Live, KillProcess, Goto, Kill, clientVars,
       fieldVars, execVars, outVars
  <2>7. LateOutputOnlyAfterStop'
    BY <1>15 DEF IInv, RunInv, TypeOK, Control, Ownership, Progress, Pumps,
       LateOutputOnlyAfterStop, AfterFinish, AfterAnswer, Live, KillProcess,
       Goto, Kill, clientVars, fieldVars, execVars, outVars
  <2> QED
    BY <2>1, <2>2, <2>3, <2>4, <2>5, <2>6, <2>7 DEF RunInv
<1>16. ASSUME NEW t \in Threads, ClearProcess(t) PROVE RunInv'
  BY <1>16 DEF IInv, RunInv, TypeOK, Control, Ownership, Progress, Past,
     Pumps, InterruptHitsItsRun, LateOutputOnlyAfterStop, AfterFinish,
     AfterAnswer, Registered, Live, ClearProcess, Goto, clientVars, fieldVars,
     execVars, ioVars, outVars
<1>17. ASSUME NEW t \in Threads, NullProcess(t) PROVE RunInv'
  <2>1. CASE t = "handler"
    <3>1. Control'
      BY <1>17, <2>1 DEF IInv, RunInv, TypeOK, Control, AfterFinish,
         AfterAnswer, NullProcess, Goto, HandlerThrows, clientVars, fieldVars,
         ioVars, outVars
    <3>2. Ownership'
      BY <1>17, <2>1 DEF IInv, RunInv, TypeOK, Control, Ownership, Live,
         NullProcess, Goto, HandlerThrows, clientVars, fieldVars, ioVars,
         outVars
    <3>3. Progress'
      BY <1>17, <2>1 DEF IInv, RunInv, TypeOK, Control, Ownership, Progress,
         AfterFinish, AfterAnswer, Registered, Live, NullProcess, Goto,
         HandlerThrows, clientVars, fieldVars, ioVars, outVars
    <3>4. Past'
      BY <1>17, <2>1 DEF IInv, RunInv, TypeOK, Control, Ownership, Progress,
         Past, AfterFinish, AfterAnswer, Registered, Live, NullProcess, Goto,
         HandlerThrows, clientVars, fieldVars, ioVars, outVars
    <3>5. Pumps'
      BY <1>17, <2>1 DEF IInv, RunInv, TypeOK, Control, Ownership, Progress,
         Pumps, InterruptHitsItsRun, AfterFinish, AfterAnswer, Live,
         NullProcess, Goto, HandlerThrows, clientVars, fieldVars, ioVars,
         outVars
    <3>6. InterruptHitsItsRun'
      BY <1>17, <2>1 DEF IInv, RunInv, TypeOK, Control, Ownership,
         InterruptHitsItsRun, Live, NullProcess, Goto, HandlerThrows,
         clientVars, fieldVars, ioVars, outVars
    <3>7. LateOutputOnlyAfterStop'
      BY <1>17, <2>1 DEF IInv, RunInv, TypeOK, Control, Ownership, Progress,
         Pumps, LateOutputOnlyAfterStop, AfterFinish, AfterAnswer, Live,
         NullProcess, Goto, HandlerThrows, clientVars, fieldVars, ioVars,
         outVars
    <3> QED
      BY <3>1, <3>2, <3>3, <3>4, <3>5, <3>6, <3>7 DEF RunInv
  <2>2. CASE t = "closer"
    <3>1. Control'
      BY <1>17, <2>2 DEF IInv, RunInv, TypeOK, Control, AfterFinish,
         AfterAnswer, NullProcess, Goto, HandlerThrows, clientVars, fieldVars,
         ioVars, outVars
    <3>2. Ownership'
      BY <1>17, <2>2 DEF IInv, RunInv, TypeOK, Control, Ownership, Live,
         NullProcess, Goto, HandlerThrows, clientVars, fieldVars, ioVars,
         outVars
    <3>3. Progress'
      BY <1>17, <2>2 DEF IInv, RunInv, TypeOK, Control, Ownership, Progress,
         AfterFinish, AfterAnswer, Registered, Live, NullProcess, Goto,
         HandlerThrows, clientVars, fieldVars, ioVars, outVars
    <3>4. Past'
      BY <1>17, <2>2 DEF IInv, RunInv, TypeOK, Control, Ownership, Progress,
         Past, AfterFinish, AfterAnswer, Registered, Live, NullProcess, Goto,
         HandlerThrows, clientVars, fieldVars, ioVars, outVars
    <3>5. Pumps'
      BY <1>17, <2>2 DEF IInv, RunInv, TypeOK, Control, Ownership, Progress,
         Pumps, InterruptHitsItsRun, AfterFinish, AfterAnswer, Live,
         NullProcess, Goto, HandlerThrows, clientVars, fieldVars, ioVars,
         outVars
    <3>6. InterruptHitsItsRun'
      BY <1>17, <2>2 DEF IInv, RunInv, TypeOK, Control, Ownership,
         InterruptHitsItsRun, Live, NullProcess, Goto, HandlerThrows,
         clientVars, fieldVars, ioVars, outVars
    <3>7. LateOutputOnlyAfterStop'
      BY <1>17, <2>2 DEF IInv, RunInv, TypeOK, Control, Ownership, Progress,
         Pumps, LateOutputOnlyAfterStop, AfterFinish, AfterAnswer, Live,
         NullProcess, Goto, HandlerThrows, clientVars, fieldVars, ioVars,
         outVars
    <3> QED
      BY <3>1, <3>2, <3>3, <3>4, <3>5, <3>6, <3>7 DEF RunInv
  <2>3. CASE t = "worker"
    <3>1. Control'
      BY <1>17, <2>3 DEF IInv, RunInv, TypeOK, Control, AfterFinish,
         AfterAnswer, NullProcess, Goto, HandlerThrows, clientVars, fieldVars,
         ioVars, outVars
    <3>2. Ownership'
      BY SMTT(30), <1>17, <2>3 DEF IInv, RunInv, TypeOK, Control, Ownership,
         Live, NullProcess, Goto, HandlerThrows, clientVars, fieldVars,
         ioVars, outVars
    <3>3. Progress'
      <4>1. workerRun \in Runs /\ task[workerRun] \in {"executing", "interrupted"}
        BY <1>17, <2>3 DEF IInv, RunInv, TypeOK, Ownership, NullProcess
      <4>2. /\ \A r \in Runs : r # workerRun => task'[r] = task[r]
            /\ task'[workerRun] = "crashed"
        BY <1>17, <2>3, <4>1 DEF IInv, TypeOK, NullProcess
      <4>3. /\ workerRun' = Null /\ pc'["worker"] = "idle" /\ currentProcess = Null
            /\ UNCHANGED <<currentProcess, started, inputWriter, proc, pipe, pump, answer>>
        BY <1>17, <2>3 DEF IInv, TypeOK, NullProcess, Goto, fieldVars, ioVars, outVars
      <4>4. \A r \in Runs : proc[r] # "alive"
        BY <1>17, <2>3 DEF IInv, RunInv, Progress, NullProcess
      <4> QED
        BY <4>1, <4>2, <4>3, <4>4 DEF Progress, IInv, RunInv, AfterAnswer, AfterFinish, Registered
    <3>4. Past'
      BY <1>17, <2>3 DEF IInv, RunInv, TypeOK, Control, Ownership, Progress,
         Past, AfterFinish, AfterAnswer, Registered, Live, NullProcess, Goto,
         HandlerThrows, clientVars, fieldVars, ioVars, outVars
    <3>5. Pumps'
      <4>1. workerRun \in Runs /\ task[workerRun] \in {"executing", "interrupted"}
        BY <1>17, <2>3 DEF IInv, RunInv, TypeOK, Ownership, NullProcess
      <4>2. /\ \A r \in Runs : r # workerRun => task'[r] = task[r]
            /\ task'[workerRun] = "crashed"
        BY <1>17, <2>3, <4>1 DEF IInv, TypeOK, NullProcess
      <4>3. pc'["worker"] = "idle" /\ UNCHANGED <<pump, shutdown>>
        BY <1>17, <2>3 DEF IInv, TypeOK, NullProcess, Goto, ioVars
      <4> QED
        BY <4>1, <4>2, <4>3 DEF Pumps, IInv, RunInv
    <3>6. InterruptHitsItsRun'
      BY <1>17, <2>3 DEF IInv, RunInv, TypeOK, Control, Ownership,
         InterruptHitsItsRun, Live, NullProcess, Goto, HandlerThrows,
         clientVars, fieldVars, ioVars, outVars
    <3>7. LateOutputOnlyAfterStop'
      BY <1>17, <2>3 DEF IInv, RunInv, TypeOK, Control, Ownership, Progress,
         Pumps, LateOutputOnlyAfterStop, AfterFinish, AfterAnswer, Live,
         NullProcess, Goto, HandlerThrows, clientVars, fieldVars, ioVars,
         outVars
    <3> QED
      BY <3>1, <3>2, <3>3, <3>4, <3>5, <3>6, <3>7 DEF RunInv
  <2> QED
    BY <1>17, <2>1, <2>2, <2>3 DEF NullProcess
<1>18. ASSUME NEW t \in Threads, CloseInput(t) PROVE RunInv'
  <2>1. Control'
    BY <1>18 DEF IInv, RunInv, TypeOK, Control, AfterFinish, AfterAnswer,
       CloseInput, Goto, clientVars, execVars, outVars
  <2>2. Ownership'
    BY <1>18 DEF IInv, RunInv, TypeOK, Control, Ownership, Live, CloseInput,
       Goto, clientVars, execVars, outVars
  <2>3. Progress'
    BY SMTT(30), <1>18 DEF IInv, RunInv, TypeOK, Control, Ownership, Progress,
       AfterFinish, AfterAnswer, Registered, Live, CloseInput, Goto,
       clientVars, execVars, outVars
  <2>4. Past'
    BY <1>18 DEF IInv, RunInv, TypeOK, Control, Ownership, Progress, Past,
       AfterFinish, AfterAnswer, Registered, Live, CloseInput, Goto,
       clientVars, execVars, outVars
  <2>5. Pumps'
    BY <1>18 DEF IInv, RunInv, TypeOK, Control, Ownership, Progress, Pumps,
       InterruptHitsItsRun, AfterFinish, AfterAnswer, Live, CloseInput, Goto,
       clientVars, execVars, outVars
  <2>6. InterruptHitsItsRun'
    BY <1>18 DEF IInv, RunInv, TypeOK, Control, Ownership,
       InterruptHitsItsRun, Live, CloseInput, Goto, clientVars, execVars,
       outVars
  <2>7. LateOutputOnlyAfterStop'
    BY <1>18 DEF IInv, RunInv, TypeOK, Control, Ownership, Progress, Pumps,
       LateOutputOnlyAfterStop, AfterFinish, AfterAnswer, Live, CloseInput,
       Goto, clientVars, execVars, outVars
  <2> QED
    BY <2>1, <2>2, <2>3, <2>4, <2>5, <2>6, <2>7 DEF RunInv
<1>19. ASSUME Shutdown PROVE RunInv'
  BY <1>19 DEF IInv, RunInv, TypeOK, Control, Ownership, Progress, Past,
     Pumps, InterruptHitsItsRun, LateOutputOnlyAfterStop, AfterFinish,
     AfterAnswer, Registered, Live, Shutdown, Goto, clientVars, fieldVars,
     ioVars, outVars
<1>20. ASSUME NEW r \in Runs, Take(r) PROVE RunInv'
  <2>1. Control'
    BY <1>20 DEF IInv, RunInv, TypeOK, Control, AfterFinish, AfterAnswer,
       Take, Goto, WorkerAt, clientVars, fieldVars, ioVars, outVars
  <2>2. Ownership'
    BY <1>20 DEF IInv, RunInv, TypeOK, Control, Ownership, Live, Take, Goto,
       WorkerAt, clientVars, fieldVars, ioVars, outVars
  <2>3. Progress'
    BY <1>20 DEF IInv, RunInv, TypeOK, Control, Ownership, Progress,
       AfterFinish, AfterAnswer, Registered, Live, Take, Goto, WorkerAt,
       clientVars, fieldVars, ioVars, outVars
  <2>4. Past'
    BY <1>20 DEF IInv, RunInv, TypeOK, Control, Ownership, Progress, Past,
       AfterFinish, AfterAnswer, Registered, Live, Take, Goto, WorkerAt,
       clientVars, fieldVars, ioVars, outVars
  <2>5. Pumps'
    BY <1>20 DEF IInv, RunInv, TypeOK, Control, Ownership, Progress, Pumps,
       InterruptHitsItsRun, AfterFinish, AfterAnswer, Live, Take, Goto,
       WorkerAt, clientVars, fieldVars, ioVars, outVars
  <2>6. InterruptHitsItsRun'
    BY <1>20 DEF IInv, RunInv, TypeOK, Control, Ownership,
       InterruptHitsItsRun, Live, Take, Goto, WorkerAt, clientVars, fieldVars,
       ioVars, outVars
  <2>7. LateOutputOnlyAfterStop'
    BY <1>20 DEF IInv, RunInv, TypeOK, Control, Ownership, Progress, Pumps,
       LateOutputOnlyAfterStop, AfterFinish, AfterAnswer, Live, Take, Goto,
       WorkerAt, clientVars, fieldVars, ioVars, outVars
  <2> QED
    BY <2>1, <2>2, <2>3, <2>4, <2>5, <2>6, <2>7 DEF RunInv
<1>21. ASSUME Refuse PROVE RunInv'
  <2>1. Control'
    BY <1>21 DEF IInv, RunInv, TypeOK, Control, AfterFinish, AfterAnswer,
       Refuse, Goto, WorkerAt, clientVars, fieldVars, execVars, ioVars,
       outVars
  <2>2. Ownership'
    BY <1>21 DEF IInv, RunInv, TypeOK, Control, Ownership, Live, Refuse, Goto,
       WorkerAt, clientVars, fieldVars, execVars, ioVars, outVars
  <2>3. Progress'
    BY <1>21 DEF IInv, RunInv, TypeOK, Control, Ownership, Progress,
       AfterFinish, AfterAnswer, Registered, Live, Refuse, Goto, WorkerAt,
       clientVars, fieldVars, execVars, ioVars, outVars
  <2>4. Past'
    BY <1>21 DEF IInv, RunInv, TypeOK, Control, Ownership, Progress, Past,
       AfterFinish, AfterAnswer, Registered, Live, Refuse, Goto, WorkerAt,
       clientVars, fieldVars, execVars, ioVars, outVars
  <2>5. Pumps'
    BY <1>21 DEF IInv, RunInv, TypeOK, Control, Ownership, Progress, Pumps,
       InterruptHitsItsRun, AfterFinish, AfterAnswer, Live, Refuse, Goto,
       WorkerAt, clientVars, fieldVars, execVars, ioVars, outVars
  <2>6. InterruptHitsItsRun'
    BY <1>21 DEF IInv, RunInv, TypeOK, Control, Ownership,
       InterruptHitsItsRun, Live, Refuse, Goto, WorkerAt, clientVars,
       fieldVars, execVars, ioVars, outVars
  <2>7. LateOutputOnlyAfterStop'
    BY <1>21 DEF IInv, RunInv, TypeOK, Control, Ownership, Progress, Pumps,
       LateOutputOnlyAfterStop, AfterFinish, AfterAnswer, Live, Refuse, Goto,
       WorkerAt, clientVars, fieldVars, execVars, ioVars, outVars
  <2> QED
    BY <2>1, <2>2, <2>3, <2>4, <2>5, <2>6, <2>7 DEF RunInv
<1>22. ASSUME Prepare PROVE RunInv'
  BY <1>22 DEF IInv, RunInv, TypeOK, Control, Ownership, Progress, Past,
     Pumps, InterruptHitsItsRun, LateOutputOnlyAfterStop, AfterFinish,
     AfterAnswer, Registered, Live, Prepare, Goto, WorkerAt, clientVars,
     fieldVars, execVars, ioVars, outVars
<1>23. ASSUME Launch PROVE RunInv'
  <2>1. Control'
    BY <1>23 DEF IInv, RunInv, TypeOK, Control, AfterFinish, AfterAnswer,
       Launch, Goto, WorkerAt, clientVars, fieldVars, execVars, outVars
  <2>2. Ownership'
    BY <1>23 DEF IInv, RunInv, TypeOK, Control, Ownership, Live, Launch, Goto,
       WorkerAt, clientVars, fieldVars, execVars, outVars
  <2>3. Progress'
    BY <1>23 DEF IInv, RunInv, TypeOK, Control, Ownership, Progress,
       AfterFinish, AfterAnswer, Registered, Live, Launch, Goto, WorkerAt,
       clientVars, fieldVars, execVars, outVars
  <2>4. Past'
    BY <1>23 DEF IInv, RunInv, TypeOK, Control, Ownership, Progress, Past,
       AfterFinish, AfterAnswer, Registered, Live, Launch, Goto, WorkerAt,
       clientVars, fieldVars, execVars, outVars
  <2>5. Pumps'
    BY <1>23 DEF IInv, RunInv, TypeOK, Control, Ownership, Progress, Pumps,
       InterruptHitsItsRun, AfterFinish, AfterAnswer, Live, Launch, Goto,
       WorkerAt, clientVars, fieldVars, execVars, outVars
  <2>6. InterruptHitsItsRun'
    BY <1>23 DEF IInv, RunInv, TypeOK, Control, Ownership,
       InterruptHitsItsRun, Live, Launch, Goto, WorkerAt, clientVars,
       fieldVars, execVars, outVars
  <2>7. LateOutputOnlyAfterStop'
    BY <1>23 DEF IInv, RunInv, TypeOK, Control, Ownership, Progress, Pumps,
       LateOutputOnlyAfterStop, AfterFinish, AfterAnswer, Live, Launch, Goto,
       WorkerAt, clientVars, fieldVars, execVars, outVars
  <2> QED
    BY <2>1, <2>2, <2>3, <2>4, <2>5, <2>6, <2>7 DEF RunInv
<1>24. ASSUME Register PROVE RunInv'
  BY <1>24 DEF IInv, RunInv, TypeOK, Control, Ownership, Progress, Past,
     Pumps, InterruptHitsItsRun, LateOutputOnlyAfterStop, AfterFinish,
     AfterAnswer, Registered, Live, Register, Goto, WorkerAt, clientVars,
     fieldVars, execVars, outVars
<1>25. ASSUME WaitInterrupted PROVE RunInv'
  BY <1>25 DEF IInv, RunInv, TypeOK, Control, Ownership, Progress, Past,
     Pumps, InterruptHitsItsRun, LateOutputOnlyAfterStop, AfterFinish,
     AfterAnswer, Registered, Live, WaitInterrupted, Goto, WorkerAt, Kill,
     clientVars, fieldVars, execVars, outVars
<1>26. ASSUME WaitExit PROVE RunInv'
  BY <1>26 DEF IInv, RunInv, TypeOK, Control, Ownership, Progress, Past,
     Pumps, InterruptHitsItsRun, LateOutputOnlyAfterStop, AfterFinish,
     AfterAnswer, Registered, Live, WaitExit, Goto, WorkerAt, clientVars,
     fieldVars, execVars, ioVars, outVars
<1>27. ASSUME Join PROVE RunInv'
  BY <1>27 DEF IInv, RunInv, TypeOK, Control, Ownership, Progress, Past,
     Pumps, InterruptHitsItsRun, LateOutputOnlyAfterStop, AfterFinish,
     AfterAnswer, Registered, Live, Join, Goto, WorkerAt, clientVars,
     fieldVars, execVars, ioVars, outVars
<1>28. ASSUME Finish PROVE RunInv'
  BY <1>28 DEF IInv, RunInv, TypeOK, Control, Ownership, Progress, Past,
     Pumps, InterruptHitsItsRun, LateOutputOnlyAfterStop, AfterFinish,
     AfterAnswer, Registered, Live, Finish, Goto, WorkerAt, clientVars,
     fieldVars, execVars, outVars
<1>29. ASSUME Answer PROVE RunInv'
  BY <1>29 DEF IInv, RunInv, TypeOK, Control, Ownership, Progress, Past,
     Pumps, InterruptHitsItsRun, LateOutputOnlyAfterStop, AfterFinish,
     AfterAnswer, Registered, Live, Answer, Goto, WorkerAt, SendAnswer,
     clientVars, fieldVars, execVars, ioVars
<1>30. ASSUME Release PROVE RunInv'
  <2>1. Control'
    BY <1>30 DEF IInv, RunInv, TypeOK, Control, AfterFinish, AfterAnswer,
       Release, Goto, WorkerAt, clientVars, ioVars, outVars
  <2>2. Ownership'
    <3>1. /\ workerRun \in Runs /\ workerRun = started
          /\ task[workerRun] \in {"executing", "interrupted"}
      BY <1>30 DEF IInv, RunInv, TypeOK, Ownership, Live, Release, WorkerAt
    <3>2. \A r \in Runs : r # workerRun => ~Live(r) /\ task[r] \notin {"executing", "interrupted"}
      BY <3>1 DEF IInv, RunInv, Ownership, Live
    <3>3. /\ \A r \in Runs : r # workerRun => task'[r] = task[r]
          /\ task'[workerRun] \in {"stopped", "done"}
      BY <1>30, <3>1 DEF IInv, TypeOK, Release
    <3>4. \A r \in Runs : ~Live(r)' /\ task'[r] \notin {"executing", "interrupted"}
      BY <3>2, <3>3 DEF Live
    <3>5. pc["handler"] # "submit" /\ inputWriter = Null /\ pc["handler"] # "writing"
      BY <1>30, <3>1 DEF IInv, RunInv, Ownership, Progress, Release, WorkerAt
    <3>6. /\ workerRun' = Null /\ pc'["worker"] = "idle" /\ pc'["handler"] = pc["handler"]
          /\ started' = started /\ inputWriter' = inputWriter
      BY <1>30 DEF IInv, TypeOK, Release, Goto
    <3>7. \A r \in Runs : r > started => task'[r] = "none"
      BY <3>1, <3>3 DEF IInv, RunInv, Ownership, TypeOK
    <3> QED
      BY <3>4, <3>5, <3>6, <3>7 DEF Ownership
  <2>3. Progress'
    BY <1>30 DEF IInv, RunInv, TypeOK, Control, Ownership, Progress,
       AfterFinish, AfterAnswer, Registered, Live, Release, Goto, WorkerAt,
       clientVars, ioVars, outVars
  <2>4. Past'
    BY <1>30 DEF IInv, RunInv, TypeOK, Control, Ownership, Progress, Past,
       AfterFinish, AfterAnswer, Registered, Live, Release, Goto, WorkerAt,
       clientVars, ioVars, outVars
  <2>5. Pumps'
    BY <1>30 DEF IInv, RunInv, TypeOK, Control, Ownership, Progress, Pumps,
       InterruptHitsItsRun, AfterFinish, AfterAnswer, Live, Release, Goto,
       WorkerAt, clientVars, ioVars, outVars
  <2>6. InterruptHitsItsRun'
    BY <1>30 DEF IInv, RunInv, TypeOK, Control, Ownership,
       InterruptHitsItsRun, Live, Release, Goto, WorkerAt, clientVars, ioVars,
       outVars
  <2>7. LateOutputOnlyAfterStop'
    BY <1>30 DEF IInv, RunInv, TypeOK, Control, Ownership, Progress, Pumps,
       LateOutputOnlyAfterStop, AfterFinish, AfterAnswer, Live, Release, Goto,
       WorkerAt, clientVars, ioVars, outVars
  <2> QED
    BY <2>1, <2>2, <2>3, <2>4, <2>5, <2>6, <2>7 DEF RunInv
<1>31. ASSUME NEW r \in Runs, ProcessWrites(r) PROVE RunInv'
  BY <1>31 DEF IInv, RunInv, TypeOK, Control, Ownership, Progress, Past,
     Pumps, InterruptHitsItsRun, LateOutputOnlyAfterStop, AfterFinish,
     AfterAnswer, Registered, Live, ProcessWrites, clientVars, fieldVars,
     execVars, outVars
<1>32. ASSUME NEW r \in Runs, ProcessReads(r) PROVE RunInv'
  <2>1. Control'
    BY <1>32 DEF IInv, RunInv, TypeOK, Control, AfterFinish, AfterAnswer,
       ProcessReads, clientVars, fieldVars, execVars, outVars
  <2>2. Ownership'
    BY <1>32 DEF IInv, RunInv, TypeOK, Control, Ownership, Live, ProcessReads,
       clientVars, fieldVars, execVars, outVars
  <2>3. Progress'
    BY <1>32 DEF IInv, RunInv, TypeOK, Control, Ownership, Progress,
       AfterFinish, AfterAnswer, Registered, Live, ProcessReads, clientVars,
       fieldVars, execVars, outVars
  <2>4. Past'
    BY <1>32 DEF IInv, RunInv, TypeOK, Control, Ownership, Progress, Past,
       AfterFinish, AfterAnswer, Registered, Live, ProcessReads, clientVars,
       fieldVars, execVars, outVars
  <2>5. Pumps'
    BY <1>32 DEF IInv, RunInv, TypeOK, Control, Ownership, Progress, Pumps,
       InterruptHitsItsRun, AfterFinish, AfterAnswer, Live, ProcessReads,
       clientVars, fieldVars, execVars, outVars
  <2>6. InterruptHitsItsRun'
    BY <1>32 DEF IInv, RunInv, TypeOK, Control, Ownership,
       InterruptHitsItsRun, Live, ProcessReads, clientVars, fieldVars,
       execVars, outVars
  <2>7. LateOutputOnlyAfterStop'
    BY <1>32 DEF IInv, RunInv, TypeOK, Control, Ownership, Progress, Pumps,
       LateOutputOnlyAfterStop, AfterFinish, AfterAnswer, Live, ProcessReads,
       clientVars, fieldVars, execVars, outVars
  <2> QED
    BY <2>1, <2>2, <2>3, <2>4, <2>5, <2>6, <2>7 DEF RunInv
<1>33. ASSUME NEW r \in Runs, ProcessExits(r) PROVE RunInv'
  <2>1. Control'
    BY <1>33 DEF IInv, RunInv, TypeOK, Control, AfterFinish, AfterAnswer,
       ProcessExits, clientVars, fieldVars, execVars, outVars
  <2>2. Ownership'
    BY <1>33 DEF IInv, RunInv, TypeOK, Control, Ownership, Live, ProcessExits,
       clientVars, fieldVars, execVars, outVars
  <2>3. Progress'
    BY <1>33 DEF IInv, RunInv, TypeOK, Control, Ownership, Progress,
       AfterFinish, AfterAnswer, Registered, Live, ProcessExits, clientVars,
       fieldVars, execVars, outVars
  <2>4. Past'
    BY <1>33 DEF IInv, RunInv, TypeOK, Control, Ownership, Progress, Past,
       AfterFinish, AfterAnswer, Registered, Live, ProcessExits, clientVars,
       fieldVars, execVars, outVars
  <2>5. Pumps'
    BY <1>33 DEF IInv, RunInv, TypeOK, Control, Ownership, Progress, Pumps,
       InterruptHitsItsRun, AfterFinish, AfterAnswer, Live, ProcessExits,
       clientVars, fieldVars, execVars, outVars
  <2>6. InterruptHitsItsRun'
    BY <1>33 DEF IInv, RunInv, TypeOK, Control, Ownership,
       InterruptHitsItsRun, Live, ProcessExits, clientVars, fieldVars,
       execVars, outVars
  <2>7. LateOutputOnlyAfterStop'
    BY <1>33 DEF IInv, RunInv, TypeOK, Control, Ownership, Progress, Pumps,
       LateOutputOnlyAfterStop, AfterFinish, AfterAnswer, Live, ProcessExits,
       clientVars, fieldVars, execVars, outVars
  <2> QED
    BY <2>1, <2>2, <2>3, <2>4, <2>5, <2>6, <2>7 DEF RunInv
<1>34. ASSUME NEW r \in Runs, KilledProcessDies(r) PROVE RunInv'
  <2>1. Control'
    BY <1>34 DEF IInv, RunInv, TypeOK, Control, AfterFinish, AfterAnswer,
       KilledProcessDies, clientVars, fieldVars, execVars, outVars
  <2>2. Ownership'
    BY <1>34 DEF IInv, RunInv, TypeOK, Control, Ownership, Live,
       KilledProcessDies, clientVars, fieldVars, execVars, outVars
  <2>3. Progress'
    BY <1>34 DEF IInv, RunInv, TypeOK, Control, Ownership, Progress,
       AfterFinish, AfterAnswer, Registered, Live, KilledProcessDies,
       clientVars, fieldVars, execVars, outVars
  <2>4. Past'
    BY <1>34 DEF IInv, RunInv, TypeOK, Control, Ownership, Progress, Past,
       AfterFinish, AfterAnswer, Registered, Live, KilledProcessDies,
       clientVars, fieldVars, execVars, outVars
  <2>5. Pumps'
    BY <1>34 DEF IInv, RunInv, TypeOK, Control, Ownership, Progress, Pumps,
       InterruptHitsItsRun, AfterFinish, AfterAnswer, Live, KilledProcessDies,
       clientVars, fieldVars, execVars, outVars
  <2>6. InterruptHitsItsRun'
    BY <1>34 DEF IInv, RunInv, TypeOK, Control, Ownership,
       InterruptHitsItsRun, Live, KilledProcessDies, clientVars, fieldVars,
       execVars, outVars
  <2>7. LateOutputOnlyAfterStop'
    BY <1>34 DEF IInv, RunInv, TypeOK, Control, Ownership, Progress, Pumps,
       LateOutputOnlyAfterStop, AfterFinish, AfterAnswer, Live,
       KilledProcessDies, clientVars, fieldVars, execVars, outVars
  <2> QED
    BY <2>1, <2>2, <2>3, <2>4, <2>5, <2>6, <2>7 DEF RunInv
<1>35. ASSUME NEW r \in Runs, PumpOutput(r) PROVE RunInv'
  <2>1. Control'
    BY <1>35 DEF IInv, RunInv, TypeOK, Control, AfterFinish, AfterAnswer,
       PumpOutput, clientVars, fieldVars, execVars
  <2>2. Ownership'
    BY <1>35 DEF IInv, RunInv, TypeOK, Control, Ownership, Live, PumpOutput,
       clientVars, fieldVars, execVars
  <2>3. Progress'
    BY <1>35 DEF IInv, RunInv, TypeOK, Control, Ownership, Progress,
       AfterFinish, AfterAnswer, Registered, Live, PumpOutput, clientVars,
       fieldVars, execVars
  <2>4. Past'
    BY <1>35 DEF IInv, RunInv, TypeOK, Control, Ownership, Progress, Past,
       AfterFinish, AfterAnswer, Registered, Live, PumpOutput, clientVars,
       fieldVars, execVars
  <2>5. Pumps'
    BY <1>35 DEF IInv, RunInv, TypeOK, Control, Ownership, Progress, Pumps,
       InterruptHitsItsRun, AfterFinish, AfterAnswer, Live, PumpOutput,
       clientVars, fieldVars, execVars
  <2>6. InterruptHitsItsRun'
    BY <1>35 DEF IInv, RunInv, TypeOK, Control, Ownership,
       InterruptHitsItsRun, Live, PumpOutput, clientVars, fieldVars, execVars
  <2>7. LateOutputOnlyAfterStop'
    BY <1>35 DEF IInv, RunInv, TypeOK, Control, Ownership, Progress, Pumps,
       LateOutputOnlyAfterStop, AfterFinish, AfterAnswer, Live, PumpOutput,
       clientVars, fieldVars, execVars
  <2> QED
    BY <2>1, <2>2, <2>3, <2>4, <2>5, <2>6, <2>7 DEF RunInv
<1>36. ASSUME NEW r \in Runs, PumpEnds(r) PROVE RunInv'
  <2>1. Control'
    BY <1>36 DEF IInv, RunInv, TypeOK, Control, AfterFinish, AfterAnswer,
       PumpEnds, clientVars, fieldVars, execVars, outVars
  <2>2. Ownership'
    BY <1>36 DEF IInv, RunInv, TypeOK, Control, Ownership, Live, PumpEnds,
       clientVars, fieldVars, execVars, outVars
  <2>3. Progress'
    BY <1>36 DEF IInv, RunInv, TypeOK, Control, Ownership, Progress,
       AfterFinish, AfterAnswer, Registered, Live, PumpEnds, clientVars,
       fieldVars, execVars, outVars
  <2>4. Past'
    BY <1>36 DEF IInv, RunInv, TypeOK, Control, Ownership, Progress, Past,
       AfterFinish, AfterAnswer, Registered, Live, PumpEnds, clientVars,
       fieldVars, execVars, outVars
  <2>5. Pumps'
    BY <1>36 DEF IInv, RunInv, TypeOK, Control, Ownership, Progress, Pumps,
       InterruptHitsItsRun, AfterFinish, AfterAnswer, Live, PumpEnds,
       clientVars, fieldVars, execVars, outVars
  <2>6. InterruptHitsItsRun'
    BY <1>36 DEF IInv, RunInv, TypeOK, Control, Ownership,
       InterruptHitsItsRun, Live, PumpEnds, clientVars, fieldVars, execVars,
       outVars
  <2>7. LateOutputOnlyAfterStop'
    BY <1>36 DEF IInv, RunInv, TypeOK, Control, Ownership, Progress, Pumps,
       LateOutputOnlyAfterStop, AfterFinish, AfterAnswer, Live, PumpEnds,
       clientVars, fieldVars, execVars, outVars
  <2> QED
    BY <2>1, <2>2, <2>3, <2>4, <2>5, <2>6, <2>7 DEF RunInv
<1>37. ASSUME NEW r \in Runs, PumpThrows(r) PROVE RunInv'
  <2>1. Control'
    BY <1>37 DEF IInv, RunInv, TypeOK, Control, AfterFinish, AfterAnswer,
       PumpThrows, clientVars, fieldVars, execVars, outVars
  <2>2. Ownership'
    BY <1>37 DEF IInv, RunInv, TypeOK, Control, Ownership, Live, PumpThrows,
       clientVars, fieldVars, execVars, outVars
  <2>3. Progress'
    BY <1>37 DEF IInv, RunInv, TypeOK, Control, Ownership, Progress,
       AfterFinish, AfterAnswer, Registered, Live, PumpThrows, clientVars,
       fieldVars, execVars, outVars
  <2>4. Past'
    BY <1>37 DEF IInv, RunInv, TypeOK, Control, Ownership, Progress, Past,
       AfterFinish, AfterAnswer, Registered, Live, PumpThrows, clientVars,
       fieldVars, execVars, outVars
  <2>5. Pumps'
    BY <1>37 DEF IInv, RunInv, TypeOK, Control, Ownership, Progress, Pumps,
       InterruptHitsItsRun, AfterFinish, AfterAnswer, Live, PumpThrows,
       clientVars, fieldVars, execVars, outVars
  <2>6. InterruptHitsItsRun'
    BY <1>37 DEF IInv, RunInv, TypeOK, Control, Ownership,
       InterruptHitsItsRun, Live, PumpThrows, clientVars, fieldVars, execVars,
       outVars
  <2>7. LateOutputOnlyAfterStop'
    BY <1>37 DEF IInv, RunInv, TypeOK, Control, Ownership, Progress, Pumps,
       LateOutputOnlyAfterStop, AfterFinish, AfterAnswer, Live, PumpThrows,
       clientVars, fieldVars, execVars, outVars
  <2> QED
    BY <2>1, <2>2, <2>3, <2>4, <2>5, <2>6, <2>7 DEF RunInv
<1>38. ASSUME NEW r \in Runs, StdinPumpEnds(r) PROVE RunInv'
  <2>1. Control'
    BY <1>38 DEF IInv, RunInv, TypeOK, Control, AfterFinish, AfterAnswer,
       StdinPumpEnds, clientVars, fieldVars, execVars, outVars
  <2>2. Ownership'
    BY <1>38 DEF IInv, RunInv, TypeOK, Control, Ownership, Live,
       StdinPumpEnds, clientVars, fieldVars, execVars, outVars
  <2>3. Progress'
    BY <1>38 DEF IInv, RunInv, TypeOK, Control, Ownership, Progress,
       AfterFinish, AfterAnswer, Registered, Live, StdinPumpEnds, clientVars,
       fieldVars, execVars, outVars
  <2>4. Past'
    BY <1>38 DEF IInv, RunInv, TypeOK, Control, Ownership, Progress, Past,
       AfterFinish, AfterAnswer, Registered, Live, StdinPumpEnds, clientVars,
       fieldVars, execVars, outVars
  <2>5. Pumps'
    BY <1>38 DEF IInv, RunInv, TypeOK, Control, Ownership, Progress, Pumps,
       InterruptHitsItsRun, AfterFinish, AfterAnswer, Live, StdinPumpEnds,
       clientVars, fieldVars, execVars, outVars
  <2>6. InterruptHitsItsRun'
    BY <1>38 DEF IInv, RunInv, TypeOK, Control, Ownership,
       InterruptHitsItsRun, Live, StdinPumpEnds, clientVars, fieldVars,
       execVars, outVars
  <2>7. LateOutputOnlyAfterStop'
    BY <1>38 DEF IInv, RunInv, TypeOK, Control, Ownership, Progress, Pumps,
       LateOutputOnlyAfterStop, AfterFinish, AfterAnswer, Live, StdinPumpEnds,
       clientVars, fieldVars, execVars, outVars
  <2> QED
    BY <2>1, <2>2, <2>3, <2>4, <2>5, <2>6, <2>7 DEF RunInv
<1> QED
  BY <1>1, <1>2, <1>3, <1>4, <1>5, <1>6, <1>7, <1>8, <1>9, <1>10, <1>11,
     <1>12, <1>13, <1>14, <1>15, <1>16, <1>17, <1>18, <1>19, <1>20, <1>21,
     <1>22, <1>23, <1>24, <1>25, <1>26, <1>27, <1>28, <1>29, <1>30, <1>31,
     <1>32, <1>33, <1>34, <1>35, <1>36, <1>37, <1>38 DEF Next, Handler,
     Worker, StopProcess

\* IInv holds in every reachable state.
THEOREM Invariance == Spec => []IInv
<1>1. Init => IInv
  BY TypeInit, RunInvInit DEF IInv
<1>2. IInv /\ [Next]_vars => IInv'
  <2> SUFFICES ASSUME IInv, [Next]_vars PROVE IInv'
    OBVIOUS
  <2>1. CASE Next
    BY <2>1, TypeStep, RunInvStep DEF IInv
  <2>2. CASE UNCHANGED vars
    <3>1. UNCHANGED <<inbox, open, pc, running, started, currentTask, inputWriter,
                      currentProcess, task, workerRun, interrupted, shutdown, proc,
                      pipe, pipeFill, outBuf, pump, answer, lateOutput>>
      BY <2>2 DEF vars, clientVars, fieldVars, execVars, ioVars, outVars
    <3>2. TypeOK'
      BY <3>1 DEF IInv, TypeOK
    <3>3. RunInv'
      BY <3>1 DEF IInv, RunInv, Control, Ownership, Progress, Past, Pumps,
         InterruptHitsItsRun, LateOutputOnlyAfterStop, Live
    <3> QED
      BY <3>2, <3>3 DEF IInv
  <2> QED
    BY <2>1, <2>2
<1> QED
  BY <1>1, <1>2, PTL DEF Spec

-----------------------------------------------------------------------------
(* What follows from it.                                                   *)

\* Every field of a session keeps to its type, whatever the bounds.
THEOREM TypeCorrect == Spec => []TypeOK
<1>1. IInv => TypeOK
  BY DEF IInv
<1> QED
  BY <1>1, Invariance, PTL

\* A session never has two live runs, nor two running processes.
THEOREM OneAtATime == Spec => []SingleFlight
<1>1. IInv => SingleFlight
  BY DEF IInv, RunInv, Ownership, Progress, SingleFlight
<1> QED
  BY <1>1, Invariance, PTL

\* A session whose running flag is down has nothing left of its runs.
THEOREM FlagDownMeansClean == Spec => []IdleIsClean
<1>1. IInv => IdleIsClean
  <2> SUFFICES ASSUME IInv, ~running PROVE IdleIsClean
    BY DEF IdleIsClean
  <2>1. \A r \in Runs : ~Live(r)
    BY DEF IInv, RunInv, Ownership
  <2>2. workerRun = Null
    <3>1. workerRun \notin Runs
      BY <2>1 DEF IInv, RunInv, Ownership, Live
    <3> QED
      BY <3>1, BoundsAssumption DEF IInv, TypeOK, Runs, Null
  <2>3. currentProcess = Null /\ inputWriter = Null
    BY <2>2 DEF IInv, RunInv, Ownership, Progress, Registered
  <2>4. \A r \in Runs : proc[r] # "alive"
    BY <2>2 DEF IInv, RunInv, Progress, Null, Runs, Ownership
  <2>5. 1 .. started \subseteq Runs
    BY BoundsAssumption DEF IInv, TypeOK, Runs
  <2>6. \A r \in 1 .. started : r < started \/ r = started
    BY DEF IInv, TypeOK
  <2> QED
    BY <2>1, <2>3, <2>4, <2>5, <2>6 DEF IdleIsClean, IInv, RunInv, Past
<1> QED
  BY <1>1, Invariance, PTL

\* An interrupt never strikes a run it was not meant for.
THEOREM InterruptConfined == Spec => []InterruptHitsItsRun
<1>1. IInv => InterruptHitsItsRun
  BY DEF IInv, RunInv
<1> QED
  BY <1>1, Invariance, PTL

\* No result is sent while the process of its run goes on.
THEOREM ResultAfterProcess == Spec => []AnswerAfterProcess
<1>1. IInv => AnswerAfterProcess
  BY DEF IInv, RunInv, Progress, AnswerAfterProcess, AfterAnswer, AfterFinish
<1> QED
  BY <1>1, Invariance, PTL

\* Output that follows its result is always the doing of a stop or a close.
THEOREM OutputComplete == Spec => []LateOutputOnlyAfterStop
<1>1. IInv => LateOutputOnlyAfterStop
  BY DEF IInv, RunInv
<1> QED
  BY <1>1, Invariance, PTL

-----------------------------------------------------------------------------
\* What a raised flag stands for, while the connection is there: the latest run
\* is being submitted, live, or ended in one of the two ways that keep the flag.
Accounted ==
    open /\ running =>
        /\ started \in Runs
        /\ \/ pc["handler"] = "submit"
           \/ Live(started)
           \/ task[started] \in {"cancelled", "crashed"}

LEMMA AccountedStep ==
    ASSUME IInv, Accounted, [Next]_vars
    PROVE  Accounted'
<1>0. TypeOK
  BY DEF IInv
\* Who leaves these alone leaves the invariant alone.
<1>1. ASSUME UNCHANGED <<running, started, task>>, open' => open,
             pc["handler"] = "submit" => (pc'["handler"] = "submit" \/ ~open')
      PROVE  Accounted'
  BY <1>1 DEF Accounted, Live
<1>2. CASE StartAccepted
  <2>1. pc'["handler"] = "submit"
    BY <1>0, <1>2 DEF StartAccepted, Goto, TypeOK, Threads
  <2>2. started' \in Runs
    <3>1. started < MaxRuns /\ started' = started + 1
      BY <1>2 DEF StartAccepted
    <3>2. started \in Nat /\ MaxRuns \in Nat
      BY <1>0, BoundsAssumption DEF TypeOK
    <3> HIDE DEF IInv
    <3> QED
      BY <3>1, <3>2 DEF Runs
  <2> QED
    BY <2>1, <2>2 DEF Accounted
<1>3. CASE Submit
  <2>1. CASE shutdown
    BY <1>3, <2>1 DEF Submit, HandlerThrows, Accounted
  <2>2. CASE ~shutdown
    <3>1. /\ task' = [task EXCEPT ![started] = "queued"]
          /\ UNCHANGED <<open, running, started>>
      BY <1>3, <2>2 DEF Submit, clientVars, fieldVars
    <3>2. started \in Runs => task'[started] = "queued"
      BY <1>0, <3>1 DEF TypeOK
    <3> QED
      BY <3>1, <3>2 DEF Accounted, Live
  <2> QED
    BY <2>1, <2>2
<1>4. ASSUME NEW t \in {"handler", "closer"}, Cancel(t) PROVE Accounted'
  <2>1. UNCHANGED <<open, running, started>>
    BY <1>4 DEF Cancel, clientVars, fieldVars
  <2>2. pc["handler"] = "submit" => pc'["handler"] = "submit"
    BY <1>0, <1>4 DEF Cancel, Goto, TypeOK, Threads
  <2>3. \/ UNCHANGED task
        \/ task' = [task EXCEPT ![currentTask] = "cancelled"]
        \/ task' = [task EXCEPT ![currentTask] = "interrupted"]
    BY <1>4 DEF Cancel, CancelTask
  <2>4. started \in Runs =>
            task'[started] = task[started] \/ task'[started] \in {"cancelled", "interrupted"}
    BY <1>0, <2>3 DEF TypeOK
  <2> QED
    BY <2>1, <2>2, <2>4 DEF Accounted, Live
<1>5. CASE Shutdown
  <2>1. UNCHANGED <<open, running, started>>
    BY <1>5 DEF Shutdown, clientVars, fieldVars
  <2>2. pc["handler"] = "submit" => pc'["handler"] = "submit"
    BY <1>0, <1>5 DEF Shutdown, Goto, TypeOK, Threads
  <2>3. started \in Runs => task'[started] = IF task[started] = "queued" THEN "cancelled"
                                            ELSE task[started]
    BY <1>5 DEF Shutdown
  <2> QED
    BY <2>1, <2>2, <2>3 DEF Accounted, Live
<1>6. ASSUME NEW r \in Runs, Take(r) PROVE Accounted'
  <2>1. UNCHANGED <<open, running, started>> /\ task' = [task EXCEPT ![r] = "executing"]
    BY <1>6 DEF Take, clientVars, fieldVars
  <2>2. pc["handler"] = "submit" => pc'["handler"] = "submit"
    BY <1>0, <1>6 DEF Take, Goto, TypeOK, Threads
  <2>3. started \in Runs => task'[started] = task[started] \/ task'[started] = "executing"
    BY <1>0, <2>1 DEF TypeOK
  <2> QED
    BY <2>1, <2>2, <2>3 DEF Accounted, Live
<1>7. CASE Release
  BY <1>7 DEF Release, Accounted
<1>8. ASSUME NEW t \in Threads, NullProcess(t) PROVE Accounted'
  <2>1. UNCHANGED <<running, started>>
    BY <1>8 DEF NullProcess, fieldVars
  <2>2. CASE HandlerThrows
    BY <2>2 DEF HandlerThrows, Accounted
  <2>3. CASE t = "closer" /\ Goto("closer", "done") /\ UNCHANGED <<open, task>>
    <3>1. pc["handler"] = "submit" => pc'["handler"] = "submit"
      BY <1>0, <2>3 DEF Goto, TypeOK, Threads
    <3> QED
      BY <1>1, <2>1, <2>3, <3>1
  <2>4. CASE /\ t = "worker" /\ Goto("worker", "idle") /\ UNCHANGED open
             /\ task' = [task EXCEPT ![workerRun] = "crashed"]
    <3>1. pc["handler"] = "submit" => pc'["handler"] = "submit"
      BY <1>0, <2>4 DEF Goto, TypeOK, Threads
    <3>2. started \in Runs => task'[started] = task[started] \/ task'[started] = "crashed"
      BY <1>0, <2>4 DEF TypeOK
    <3> QED
      BY <2>1, <2>4, <3>1, <3>2 DEF Accounted, Live
  <2> QED
    BY <1>8, <2>2, <2>3, <2>4 DEF NullProcess, clientVars
<1>9. CASE Disconnect
  BY <1>9 DEF Disconnect, Accounted
<1>10. CASE LockInput
  <2>1. CASE HandlerThrows
    BY <2>1 DEF HandlerThrows, Accounted
  <2>2. CASE Goto("handler", "writing") /\ UNCHANGED clientVars
    BY <1>1, <1>10, <2>2 DEF LockInput, clientVars, fieldVars, execVars
  <2> QED
    BY <1>10, <2>1, <2>2 DEF LockInput
<1>11. CASE ReceiveInvalid \/ StartRefused \/ Assign \/ ReceiveInput \/ WriteInput
            \/ WriteInputFails \/ ReceiveStop
  BY <1>1, <1>11 DEF ReceiveInvalid, StartRefused, Assign, ReceiveInput, WriteInput,
     WriteInputFails, ReceiveStop, Receive, clientVars, fieldVars, execVars
<1>12. ASSUME NEW t \in Threads,
              CheckProcess(t) \/ KillProcess(t) \/ ClearProcess(t) \/ CloseInput(t)
       PROVE  Accounted'
  <2>1. UNCHANGED <<open, running, started, task>>
    BY <1>12 DEF CheckProcess, KillProcess, ClearProcess, CloseInput, clientVars,
       fieldVars, execVars
  <2>2. /\ pc[t] \in {"checkProcess", "killProcess", "clearProcess", "closeInput"}
        /\ \E label \in Labels : pc' = [pc EXCEPT ![t] = label]
    BY <1>12 DEF CheckProcess, KillProcess, ClearProcess, CloseInput, Goto, Labels
  <2>3. pc["handler"] = "submit" => pc'["handler"] = "submit"
    BY <1>0, <2>2 DEF TypeOK, Threads
  <2> QED
    BY <1>1, <2>1, <2>3
<1>13. CASE Refuse \/ Prepare \/ Launch \/ Register \/ WaitInterrupted \/ WaitExit \/ Join
            \/ Finish \/ Answer
  <2>1. UNCHANGED <<open, running, started, task>>
    BY <1>13 DEF Refuse, Prepare, Launch, Register, WaitInterrupted, WaitExit, Join,
       Finish, Answer, clientVars, fieldVars, execVars
  <2>2. \E label \in Labels : pc' = [pc EXCEPT !["worker"] = label]
    BY <1>13 DEF Refuse, Prepare, Launch, Register, WaitInterrupted, WaitExit, Join,
       Finish, Answer, Goto, Labels
  <2>3. pc["handler"] = "submit" => pc'["handler"] = "submit"
    BY <1>0, <2>2 DEF TypeOK, Threads
  <2> QED
    BY <1>1, <2>1, <2>3
<1>14. CASE \/ \E m \in Messages : ClientSend(m)
            \/ \E r \in Runs :
                  \/ ProcessWrites(r) \/ ProcessReads(r) \/ ProcessExits(r)
                  \/ KilledProcessDies(r) \/ PumpOutput(r) \/ PumpEnds(r)
                  \/ PumpThrows(r) \/ StdinPumpEnds(r)
            \/ UNCHANGED vars
  BY <1>1, <1>14 DEF ClientSend, ProcessWrites, ProcessReads, ProcessExits,
     KilledProcessDies, PumpOutput, PumpEnds, PumpThrows, StdinPumpEnds, vars,
     clientVars, fieldVars, execVars
<1> QED
  BY <1>2, <1>3, <1>4, <1>5, <1>6, <1>7, <1>8, <1>9, <1>10, <1>11, <1>12, <1>13, <1>14
     DEF Next, Handler, Worker, StopProcess, Threads

\* Nothing leaves the flag up but a run that stop() cancelled before the worker
\* began it, and a finally block that an exception left.
THEOREM FlagStaysUpOnlyAfterStop == Spec => []StuckOnlyAfterStop
<1>1. Init => Accounted
  BY DEF Init, Accounted
<1>2. Accounted => StuckOnlyAfterStop
  BY DEF Accounted, StuckOnlyAfterStop, Quiescent
<1> QED
  BY <1>1, <1>2, AccountedStep, Invariance, PTL DEF Spec

-----------------------------------------------------------------------------
\* CompileSession implements RunService, for every number of runs and every
\* bound: each step of its threads is a step of the service, or leaves alone
\* what the client sees of the service.

\* The variables of the session that the service's are made from.
seen == <<open, running, started, answer>>

LEMMA SeenUnchanged == ASSUME UNCHANGED seen PROVE UNCHANGED Service!vars
  BY DEF seen, Service!vars

\* An exception out of the handler ends the connection, if it still stands.
LEMMA ThrowHangsUp ==
  ASSUME TypeOK, HandlerThrows, UNCHANGED <<running, started, answer>>
  PROVE  Service!HangUp \/ UNCHANGED Service!vars
<1>1. CASE open
  BY <1>1 DEF HandlerThrows, Service!HangUp
<1>2. CASE ~open
  BY <1>2 DEF HandlerThrows, Service!vars, TypeOK
<1> QED
  BY <1>1, <1>2

LEMMA HandlerServes ==
  ASSUME IInv, Handler
  PROVE  Service!Next \/ UNCHANGED Service!vars
<1>0. TypeOK
  BY DEF IInv
<1>1. CASE ReceiveInvalid \/ StartRefused \/ Assign \/ ReceiveInput \/ WriteInput
           \/ WriteInputFails \/ ReceiveStop
  BY <1>1, SeenUnchanged DEF seen, ReceiveInvalid, StartRefused, Assign, ReceiveInput,
     WriteInput, WriteInputFails, ReceiveStop, clientVars, fieldVars, outVars
<1>2. CASE StartAccepted
  <2>1. /\ open /\ ~running /\ started < MaxRuns
        /\ running' /\ started' = started + 1
        /\ UNCHANGED <<open, answer>>
    BY <1>2, <1>0 DEF StartAccepted, Receive, outVars, TypeOK
  <2>2. started + 1 # 0
    BY <1>0 DEF TypeOK
  <2> QED
    BY <2>1, <2>2 DEF Service!Next, Service!Accept
<1>3. CASE Submit
  <2>1. UNCHANGED <<running, started, answer>>
    BY <1>3 DEF Submit, fieldVars, outVars
  <2>2. CASE shutdown
    <3>1. HandlerThrows
      BY <1>3, <2>2 DEF Submit
    <3> QED
      BY <3>1, <2>1, <1>0, ThrowHangsUp DEF Service!Next
  <2>3. CASE ~shutdown
    BY <1>3, <2>1, <2>3, SeenUnchanged DEF Submit, seen, clientVars
  <2> QED
    BY <2>2, <2>3
<1>4. CASE LockInput
  <2>1. UNCHANGED <<running, started, answer>>
    BY <1>4 DEF LockInput, fieldVars, outVars
  <2>2. CASE inputWriter = Null
    <3>1. HandlerThrows
      BY <1>4, <2>2 DEF LockInput
    <3> QED
      BY <3>1, <2>1, <1>0, ThrowHangsUp DEF Service!Next
  <2>3. CASE inputWriter # Null
    BY <1>4, <2>1, <2>3, SeenUnchanged DEF LockInput, seen, clientVars
  <2> QED
    BY <2>2, <2>3
<1> QED
  BY <1>1, <1>2, <1>3, <1>4 DEF Handler

\* stop(), by whichever thread: only an exception in the handler shows.
LEMMA StopServes ==
  ASSUME IInv, NEW t \in Threads, Cancel(t) \/ StopProcess(t) \/ CloseInput(t)
  PROVE  Service!Next \/ UNCHANGED Service!vars
<1>0. TypeOK
  BY DEF IInv
<1>1. CASE Cancel(t) \/ CheckProcess(t) \/ KillProcess(t) \/ ClearProcess(t) \/ CloseInput(t)
  BY <1>1, SeenUnchanged DEF seen, Cancel, CheckProcess, KillProcess, ClearProcess,
     CloseInput, clientVars, fieldVars, outVars
<1>2. CASE NullProcess(t)
  <2>1. UNCHANGED <<running, started, answer>>
    BY <1>2 DEF NullProcess, fieldVars, outVars
  <2>2. CASE HandlerThrows
    BY <2>1, <2>2, <1>0, ThrowHangsUp DEF Service!Next
  <2>3. CASE UNCHANGED clientVars
    BY <2>1, <2>3, SeenUnchanged DEF seen, clientVars
  <2> QED
    BY <1>2, <2>2, <2>3 DEF NullProcess
<1> QED
  BY <1>1, <1>2 DEF StopProcess

\* The worker is on the run the service calls current when it answers, and
\* lowers the flag only after that.
LEMMA WorkerServes ==
  ASSUME IInv, Worker
  PROVE  Service!Next \/ UNCHANGED Service!vars
<1>0. TypeOK /\ RunInv
  BY DEF IInv
<1>1. CASE (\E r \in Runs : Take(r)) \/ Refuse \/ Prepare \/ Launch \/ Register
           \/ WaitInterrupted \/ WaitExit \/ Join \/ Finish
  BY <1>1, SeenUnchanged DEF seen, Take, Refuse, Prepare, Launch, Register,
     WaitInterrupted, WaitExit, Join, Finish, clientVars, fieldVars, outVars
<1>2. CASE StopProcess("worker")
  BY <1>2, StopServes DEF Threads
<1>3. ASSUME pc["worker"] # "idle" PROVE workerRun = started /\ running /\ started \in Runs
  <2>1. workerRun \in Runs
    BY <1>0, <1>3, BoundsAssumption DEF RunInv, Ownership, TypeOK, Runs, Null
  <2>2. Live(workerRun)
    BY <1>0, <2>1 DEF RunInv, Ownership, Live
  <2> QED
    BY <1>0, <2>1, <2>2 DEF RunInv, Ownership
<1>4. CASE Answer
  <2>1. workerRun = started /\ running /\ started \in Runs
    BY <1>3, <1>4 DEF Answer, WorkerAt
  <2>2. answer[started] = "none"
    <3>1. pc["worker"] \notin AfterAnswer
      BY <1>4 DEF Answer, WorkerAt, AfterAnswer, AfterFinish
    <3> QED
      BY <1>0, <2>1, <3>1 DEF RunInv, Progress
  <2>3. /\ answer' = [answer EXCEPT ![started] = IF open THEN "sent" ELSE "dropped"]
        /\ UNCHANGED <<open, running, started>>
    BY <1>4, <2>1 DEF Answer, SendAnswer, clientVars, fieldVars
  <2>4. started # 0
    BY <2>1 DEF Runs
  <2> QED
    BY <2>1, <2>2, <2>3, <2>4 DEF Service!Next, Service!Answer
<1>5. CASE Release
  <2>1. workerRun = started /\ running /\ started \in Runs
    BY <1>3, <1>5 DEF Release, WorkerAt
  <2>2. answer[started] # "none"
    <3>1. pc["worker"] \in AfterAnswer
      BY <1>5 DEF Release, WorkerAt, AfterAnswer, AfterFinish
    <3> QED
      BY <1>0, <2>1, <3>1 DEF RunInv, Progress
  <2>3. running' = FALSE /\ UNCHANGED <<open, started, answer>>
    BY <1>5 DEF Release, clientVars, outVars
  <2>4. started # 0
    BY <2>1 DEF Runs
  <2> QED
    BY <2>1, <2>2, <2>3, <2>4 DEF Service!Next, Service!Release
<1> QED
  BY <1>1, <1>2, <1>4, <1>5 DEF Worker

LEMMA ServiceStep ==
  ASSUME IInv, [Next]_vars
  PROVE  Service!Next \/ UNCHANGED Service!vars
<1>1. CASE \E m \in Messages : ClientSend(m)
  BY <1>1, SeenUnchanged DEF seen, ClientSend, fieldVars, outVars
<1>2. CASE Disconnect
  BY <1>2 DEF Disconnect, fieldVars, outVars, Service!Next, Service!HangUp
<1>3. CASE Handler
  BY <1>3, HandlerServes
<1>4. CASE \/ \E t \in {"handler", "closer"} : Cancel(t) \/ StopProcess(t)
           \/ \E t \in Threads : CloseInput(t)
  BY <1>4, StopServes DEF Threads
<1>5. CASE Shutdown
  BY <1>5, SeenUnchanged DEF seen, Shutdown, clientVars, fieldVars, outVars
<1>6. CASE Worker
  BY <1>6, WorkerServes
<1>7. ASSUME NEW r \in Runs,
             \/ ProcessWrites(r) \/ ProcessReads(r) \/ ProcessExits(r)
             \/ KilledProcessDies(r) \/ PumpOutput(r) \/ PumpEnds(r)
             \/ PumpThrows(r) \/ StdinPumpEnds(r)
      PROVE  Service!Next \/ UNCHANGED Service!vars
  BY <1>7, SeenUnchanged DEF seen, ProcessWrites, ProcessReads, ProcessExits,
     KilledProcessDies, PumpOutput, PumpEnds, PumpThrows, StdinPumpEnds,
     clientVars, fieldVars, outVars
<1>8. CASE UNCHANGED vars
  BY <1>8, SeenUnchanged DEF seen, vars, clientVars, fieldVars, outVars
<1> QED
  BY <1>1, <1>2, <1>3, <1>4, <1>5, <1>6, <1>7, <1>8 DEF Next

LEMMA ServiceInit == ASSUME Init PROVE Service!Init
  BY DEF Init, Service!Init, Runs

\* Whatever its threads, a session is a service that runs one program at a
\* time and answers each before it takes the next.
THEOREM SessionIsService == Spec => ImplementsService
<1>1. Init => Service!Init
  BY ServiceInit
<1>2. IInv /\ [Next]_vars => [Service!Next]_(Service!vars)
  BY ServiceStep
<1> QED
  BY <1>1, <1>2, Invariance, PTL DEF Spec, ImplementsService, Service!Spec
=============================================================================
