--------------------------- MODULE CompileSession ---------------------------
(***************************************************************************)
(* One /ws/compile connection: RealtimeCompileHandler with its             *)
(* SessionState, the single-threaded executor the state owns, and the      *)
(* DockerExecutionEngine call the submitted task makes.                    *)
(*                                                                         *)
(* Three threads touch a SessionState: the container thread that delivers  *)
(* the socket's messages one at a time ("handler"), the executor's only    *)
(* thread ("worker"), and the thread that reports the end of the           *)
(* connection ("closer").  Its fields are neither volatile nor guarded, so *)
(* every read and every write of currentProcess is a step of its own.      *)
(*                                                                         *)
(* A run is one accepted "start" message.  Its number stands for the       *)
(* Future, the Process and the pipe made for it; Null stands for Java's    *)
(* null.  The process is the `docker run` client.                          *)
(***************************************************************************)
EXTENDS Integers, Sequences

CONSTANTS
    MaxRuns,        \* bound: "start" messages the session accepts
    MaxInbox,       \* bound: frames waiting in the socket
    PipeCapacity,   \* inputs that fit between writeInput and the process
    MaxOutput       \* bound: output chunks a process has not yet had read

ASSUME BoundsAssumption ==
    /\ MaxRuns \in Nat
    /\ MaxInbox \in Nat
    /\ PipeCapacity \in Nat
    /\ MaxOutput \in Nat

Runs == 1 .. MaxRuns
Null == 0
Threads == {"handler", "worker", "closer"}

\* What a client may send: the three messages of the protocol, and anything
\* that is answered by an error alone (no JSON, no type, no code, no data).
Messages == {"start", "input", "stop", "invalid"}

\* Where a thread stands between two steps.
Labels == {"idle", "submit", "assign", "write", "writing", "cancel",
           "checkProcess", "killProcess", "clearProcess", "closeInput",
           "prepare", "launch", "register", "wait", "join", "finish",
           "answer", "release", "shutdown", "done"}

\* A FutureTask: cancel(true) makes a queued one "cancelled" for good, and an
\* executing one "interrupted", which ends as "stopped".
TaskStates == {"none", "queued", "executing", "interrupted", "cancelled",
               "stopped", "done", "crashed"}

VARIABLES
    inbox,            \* frames the container has not delivered yet
    open,             \* WebSocketSession.isOpen
    pc,               \* where each thread stands
    running,          \* AtomicBoolean running
    started,          \* the last run that "start" accepted
    currentTask,      \* the Future of the last start
    currentProcess,   \* the Process the engine handed to setProcess
    inputWriter,      \* the writing end of the current pipe
    task,             \* the executor's view of each run's FutureTask
    workerRun,        \* the run the worker is executing
    interrupted,      \* the worker's interrupt flag
    shutdown,         \* executor.shutdownNow was called
    proc,             \* the process of each run
    pipe,             \* the pipe of each run: free to use or closed
    pipeFill,         \* inputs waiting in each pipe
    outBuf,           \* output of each process that no pump has read
    pump,             \* the thread that pumps the output of each run
    answer,           \* the result (or "execution failed") of each run
    lateOutput        \* runs with an output message after their answer

clientVars == <<inbox, open>>
fieldVars  == <<running, started, currentTask, inputWriter>>
execVars   == <<task, workerRun, interrupted, shutdown>>
ioVars     == <<proc, pipe, pipeFill, outBuf, pump>>
outVars    == <<answer, lateOutput>>
vars == <<clientVars, pc, fieldVars, currentProcess, execVars, ioVars, outVars>>

TypeOK ==
    /\ inbox \in Seq(Messages)
    /\ open \in BOOLEAN
    /\ pc \in [Threads -> Labels]
    /\ running \in BOOLEAN
    /\ started \in 0 .. MaxRuns
    /\ currentTask \in 0 .. MaxRuns
    /\ currentProcess \in 0 .. MaxRuns
    /\ inputWriter \in 0 .. MaxRuns
    /\ task \in [Runs -> TaskStates]
    /\ workerRun \in 0 .. MaxRuns
    /\ interrupted \in BOOLEAN
    /\ shutdown \in BOOLEAN
    /\ proc \in [Runs -> {"none", "alive", "killed", "dead"}]
    /\ pipe \in [Runs -> {"none", "open", "closed"}]
    /\ pipeFill \in [Runs -> 0 .. PipeCapacity]
    /\ outBuf \in [Runs -> 0 .. MaxOutput]
    /\ pump \in [Runs -> {"none", "draining", "done"}]
    /\ answer \in [Runs -> {"none", "sent", "dropped"}]
    /\ lateOutput \in SUBSET Runs

Init ==
    /\ inbox = <<>>
    /\ open = TRUE
    /\ pc = [t \in Threads |-> "idle"]
    /\ running = FALSE
    /\ started = 0
    /\ currentTask = Null
    /\ currentProcess = Null
    /\ inputWriter = Null
    /\ task = [r \in Runs |-> "none"]
    /\ workerRun = Null
    /\ interrupted = FALSE
    /\ shutdown = FALSE
    /\ proc = [r \in Runs |-> "none"]
    /\ pipe = [r \in Runs |-> "none"]
    /\ pipeFill = [r \in Runs |-> 0]
    /\ outBuf = [r \in Runs |-> 0]
    /\ pump = [r \in Runs |-> "none"]
    /\ answer = [r \in Runs |-> "none"]
    /\ lateOutput = {}

Goto(t, label) == pc' = [pc EXCEPT ![t] = label]

-----------------------------------------------------------------------------
(* The client and the connection.                                          *)

ClientSend(m) ==
    /\ open
    /\ Len(inbox) < MaxInbox
    /\ inbox' = Append(inbox, m)
    /\ UNCHANGED <<open, pc, fieldVars, currentProcess, execVars, ioVars, outVars>>

\* close() closing the input before it cancels the task.
DisconnectClosesInputFirst ==
    /\ open
    /\ open' = FALSE
    /\ inbox' = <<>>
    /\ Goto("closer", "closeInput")
    /\ UNCHANGED <<fieldVars, currentProcess, execVars, ioVars, outVars>>

\* The connection ends: afterConnectionClosed takes the state out of the map,
\* so that no later frame finds it, and calls close().
Disconnect ==
    /\ open
    /\ open' = FALSE
    /\ inbox' = <<>>
    /\ Goto("closer", "cancel")
    /\ UNCHANGED <<fieldVars, currentProcess, execVars, ioVars, outVars>>

\* An exception that leaves handleTextMessage: the container closes the
\* session with SERVER_ERROR, which reports the end of the connection.
HandlerThrows ==
    /\ open' = FALSE
    /\ inbox' = <<>>
    /\ pc' = [t \in Threads |-> IF t = "handler" THEN "idle"
                               ELSE IF t = "closer" /\ open THEN "cancel"
                               ELSE pc[t]]

-----------------------------------------------------------------------------
(* The handler thread.                                                     *)

Receive(m) ==
    /\ open
    /\ pc["handler"] = "idle"
    /\ inbox # <<>>
    /\ Head(inbox) = m
    /\ inbox' = Tail(inbox)

ReceiveInvalid ==
    /\ Receive("invalid")
    /\ UNCHANGED <<open, pc, fieldVars, currentProcess, execVars, ioVars, outVars>>

\* start: the compareAndSet fails, and the client is told so.
StartRefused ==
    /\ Receive("start")
    /\ running
    /\ UNCHANGED <<open, pc, fieldVars, currentProcess, execVars, ioVars, outVars>>

\* start without the compareAndSet.
StartUnguarded ==
    /\ Receive("start")
    /\ started < MaxRuns
    /\ running' = TRUE
    /\ started' = started + 1
    /\ inputWriter' = started'
    /\ pipe' = [pipe EXCEPT ![started'] = "open"]
    /\ Goto("handler", "submit")
    /\ UNCHANGED <<open, currentTask, currentProcess, execVars,
                   proc, pipeFill, outBuf, pump, outVars>>

\* start: the compareAndSet succeeds and the pipe of the run is made.
StartAccepted ==
    /\ Receive("start")
    /\ ~running
    /\ started < MaxRuns
    /\ running' = TRUE
    /\ started' = started + 1
    /\ inputWriter' = started'
    /\ pipe' = [pipe EXCEPT ![started'] = "open"]
    /\ Goto("handler", "submit")
    /\ UNCHANGED <<open, currentTask, currentProcess, execVars,
                   proc, pipeFill, outBuf, pump, outVars>>

\* executor.submit; an executor that was shut down rejects the task.
Submit ==
    /\ pc["handler"] = "submit"
    /\ IF shutdown
       THEN /\ HandlerThrows
            /\ UNCHANGED task
       ELSE /\ task' = [task EXCEPT ![started] = "queued"]
            /\ Goto("handler", "assign")
            /\ UNCHANGED clientVars
    /\ UNCHANGED <<fieldVars, currentProcess, workerRun, interrupted, shutdown,
                   ioVars, outVars>>

\* The returned Future is stored only after the worker may have begun.
Assign ==
    /\ pc["handler"] = "assign"
    /\ currentTask' = started
    /\ Goto("handler", "idle")
    /\ UNCHANGED <<clientVars, running, started, inputWriter, currentProcess,
                   execVars, ioVars, outVars>>

\* writeInput tests running and inputWriter before it takes inputLock.
ReceiveInput ==
    /\ Receive("input")
    /\ Goto("handler", IF ~running \/ inputWriter = Null THEN "idle" ELSE "write")
    /\ UNCHANGED <<open, fieldVars, currentProcess, execVars, ioVars, outVars>>

\* ... and reads inputWriter again under the lock, which it then holds for as
\* long as the pipe is full.  Nothing else keeps the lock over a step.
LockInput ==
    /\ pc["handler"] = "write"
    /\ IF inputWriter = Null
       THEN HandlerThrows
       ELSE Goto("handler", "writing") /\ UNCHANGED clientVars
    /\ UNCHANGED <<fieldVars, currentProcess, execVars, ioVars, outVars>>

WriteInput ==
    /\ pc["handler"] = "writing"
    /\ pipe[inputWriter] = "open"
    /\ pipeFill[inputWriter] < PipeCapacity
    /\ pipeFill' = [pipeFill EXCEPT ![inputWriter] = @ + 1]
    /\ Goto("handler", "idle")
    /\ UNCHANGED <<clientVars, fieldVars, currentProcess, execVars,
                   proc, pipe, outBuf, pump, outVars>>

\* The reading end is closed: IOException, answered by an error message.
WriteInputFails ==
    /\ pc["handler"] = "writing"
    /\ pipe[inputWriter] = "closed"
    /\ Goto("handler", "idle")
    /\ UNCHANGED <<clientVars, fieldVars, currentProcess, execVars, ioVars, outVars>>

ReceiveStop ==
    /\ Receive("stop")
    /\ Goto("handler", "cancel")
    /\ UNCHANGED <<open, fieldVars, currentProcess, execVars, ioVars, outVars>>

Handler ==
    \/ ReceiveInvalid \/ StartRefused \/ StartAccepted \/ Submit \/ Assign
    \/ ReceiveInput \/ LockInput \/ WriteInput \/ WriteInputFails \/ ReceiveStop

-----------------------------------------------------------------------------
(* stop(), and the parts of it that the end of a task runs as well.        *)

\* Future.cancel moves a task on from one state, or finds nothing to do.
CancelTask(from, to) ==
    /\ currentTask # Null
    /\ task[currentTask] = from
    /\ task' = [task EXCEPT ![currentTask] = to]

NothingToCancel ==
    currentTask # Null => task[currentTask] \notin {"queued", "executing"}

\* cancel(false): a task that has begun is left to stopProcess.
CancelWithoutInterrupt(t) ==
    /\ pc[t] = "cancel"
    /\ Goto(t, "checkProcess")
    /\ \/ CancelTask("queued", "cancelled")
       \/ CancelTask("executing", "interrupted")
       \/ NothingToCancel /\ UNCHANGED task
    /\ UNCHANGED <<clientVars, fieldVars, currentProcess, workerRun, interrupted,
                   shutdown, ioVars, outVars>>

\* currentTask.cancel(true): a task the worker has not begun will never run,
\* one that it is executing is interrupted once.
Cancel(t) ==
    /\ pc[t] = "cancel"
    /\ Goto(t, "checkProcess")
    /\ \/ CancelTask("queued", "cancelled") /\ UNCHANGED interrupted
       \/ CancelTask("executing", "interrupted") /\ interrupted' = TRUE
       \/ NothingToCancel /\ UNCHANGED <<task, interrupted>>
    /\ UNCHANGED <<clientVars, fieldVars, currentProcess, workerRun, shutdown,
                   ioVars, outVars>>

\* stopProcess reads currentProcess for the null test, again to use it, and
\* then overwrites it.
CheckProcess(t) ==
    /\ pc[t] = "checkProcess"
    /\ Goto(t, IF currentProcess = Null THEN "clearProcess" ELSE "killProcess")
    /\ UNCHANGED <<clientVars, fieldVars, currentProcess, execVars, ioVars, outVars>>

Kill(r) == proc' = [proc EXCEPT ![r] = IF @ = "alive" THEN "killed" ELSE @]

KillProcess(t) ==
    /\ pc[t] = "killProcess"
    /\ currentProcess # Null
    /\ Kill(currentProcess)
    /\ Goto(t, "clearProcess")
    /\ UNCHANGED <<clientVars, fieldVars, currentProcess, execVars,
                   pipe, pipeFill, outBuf, pump, outVars>>

ClearProcess(t) ==
    /\ pc[t] = "clearProcess"
    /\ currentProcess' = Null
    /\ Goto(t, "closeInput")
    /\ UNCHANGED <<clientVars, fieldVars, execVars, ioVars, outVars>>

CloseInput(t) ==
    /\ pc[t] = "closeInput"
    /\ pc["handler"] # "writing"
    /\ inputWriter' = Null
    /\ pipe' = IF inputWriter = Null THEN pipe
               ELSE [pipe EXCEPT ![inputWriter] = "closed"]
    /\ \/ t = "handler" /\ Goto(t, "idle")
       \/ t = "worker" /\ Goto(t, "release")
       \/ t = "closer" /\ Goto(t, "shutdown")
    /\ UNCHANGED <<clientVars, running, started, currentTask, currentProcess,
                   execVars, proc, pipeFill, outBuf, pump, outVars>>

\* The second read finds null: the exception leaves stop() in the handler,
\* close() in the closer, and the task's finally block in the worker.
NullProcess(t) ==
    /\ pc[t] = "killProcess"
    /\ currentProcess = Null
    /\ \/ t = "handler" /\ HandlerThrows /\ UNCHANGED <<task, workerRun>>
       \/ /\ t = "closer"
          /\ Goto(t, "done")
          /\ UNCHANGED <<clientVars, task, workerRun>>
       \/ /\ t = "worker"
          /\ Goto(t, "idle")
          /\ task' = [task EXCEPT ![workerRun] = "crashed"]
          /\ workerRun' = Null
          /\ UNCHANGED clientVars
    /\ UNCHANGED <<fieldVars, currentProcess, interrupted, shutdown, ioVars, outVars>>

StopProcess(t) ==
    CheckProcess(t) \/ KillProcess(t) \/ ClearProcess(t) \/ NullProcess(t)

\* executor.shutdown: what was submitted still runs.
ShutdownGently ==
    /\ pc["closer"] = "shutdown"
    /\ shutdown' = TRUE
    /\ Goto("closer", "done")
    /\ UNCHANGED <<clientVars, fieldVars, currentProcess, task, workerRun,
                   interrupted, ioVars, outVars>>

\* executor.shutdownNow: the queue is emptied and the worker interrupted.
Shutdown ==
    /\ pc["closer"] = "shutdown"
    /\ shutdown' = TRUE
    /\ task' = [r \in Runs |-> IF task[r] = "queued" THEN "cancelled" ELSE task[r]]
    /\ interrupted' = TRUE
    /\ Goto("closer", "done")
    /\ UNCHANGED <<clientVars, fieldVars, currentProcess, workerRun, ioVars, outVars>>

-----------------------------------------------------------------------------
(* The worker thread: the submitted task and the engine's execute().       *)

WorkerAt(label) == pc["worker"] = label

\* A worker that leaves the interrupt flag as the last task left it.
TakeKeepsInterrupt(r) ==
    /\ WorkerAt("idle")
    /\ task[r] = "queued"
    /\ task' = [task EXCEPT ![r] = "executing"]
    /\ workerRun' = r
    /\ Goto("worker", "prepare")
    /\ UNCHANGED <<clientVars, fieldVars, currentProcess, interrupted, shutdown,
                   ioVars, outVars>>

\* The executor clears the interrupt flag before it runs a task.
Take(r) ==
    /\ WorkerAt("idle")
    /\ task[r] = "queued"
    /\ task' = [task EXCEPT ![r] = "executing"]
    /\ workerRun' = r
    /\ interrupted' = FALSE
    /\ Goto("worker", "prepare")
    /\ UNCHANGED <<clientVars, fieldVars, currentProcess, shutdown, ioVars, outVars>>

\* Refused before the engine is called, as Java code without a class is: the
\* pipe is left as it is.
Refuse ==
    /\ WorkerAt("prepare")
    /\ Goto("worker", "answer")
    /\ UNCHANGED <<clientVars, fieldVars, currentProcess, execVars, ioVars, outVars>>

\* The work directory and the source files.  Writing a file notices an
\* interrupt; the disk may also fail.
Prepare ==
    /\ WorkerAt("prepare")
    /\ \/ ~interrupted /\ Goto("worker", "launch")
       \/ Goto("worker", "finish")
    /\ UNCHANGED <<clientVars, fieldVars, currentProcess, execVars, ioVars, outVars>>

\* ProcessBuilder.start, which ignores an interrupt.
Launch ==
    /\ WorkerAt("launch")
    /\ \/ /\ proc' = [proc EXCEPT ![workerRun] = "alive"]
          /\ Goto("worker", "register")
       \/ /\ Goto("worker", "finish")
          /\ UNCHANGED proc
    /\ UNCHANGED <<clientVars, fieldVars, currentProcess, execVars,
                   pipe, pipeFill, outBuf, pump, outVars>>

\* setProcess through the consumer, and the pumps.
Register ==
    /\ WorkerAt("register")
    /\ currentProcess' = workerRun
    /\ pump' = [pump EXCEPT ![workerRun] = "draining"]
    /\ Goto("worker", "wait")
    /\ UNCHANGED <<clientVars, fieldVars, execVars, proc, pipe, pipeFill, outBuf,
                   outVars>>

\* The catch block without destroyForcibly.
WaitInterruptedKeepsProcess ==
    /\ WorkerAt("wait")
    /\ interrupted
    /\ Goto("worker", "finish")
    /\ UNCHANGED <<clientVars, fieldVars, currentProcess, execVars, ioVars, outVars>>

WaitInterrupted ==
    /\ WorkerAt("wait")
    /\ interrupted
    /\ Kill(workerRun)
    /\ Goto("worker", "finish")
    /\ UNCHANGED <<clientVars, fieldVars, currentProcess, execVars,
                   pipe, pipeFill, outBuf, pump, outVars>>

WaitExit ==
    /\ WorkerAt("wait")
    /\ ~interrupted
    /\ proc[workerRun] = "dead"
    /\ Goto("worker", "join")
    /\ UNCHANGED <<clientVars, fieldVars, currentProcess, execVars, ioVars, outVars>>

\* No join of the output pumps.
JoinNothing ==
    /\ WorkerAt("join")
    /\ Goto("worker", "finish")
    /\ UNCHANGED <<clientVars, fieldVars, currentProcess, execVars, ioVars, outVars>>

\* A join of the stdin pump without its 200 ms.
JoinStdin ==
    /\ WorkerAt("join")
    /\ interrupted \/ (pump[workerRun] = "done" /\ pipe[workerRun] = "closed")
    /\ Goto("worker", "finish")
    /\ UNCHANGED <<clientVars, fieldVars, currentProcess, execVars, ioVars, outVars>>

\* joinQuietly(stdoutThread), joinQuietly(stderrThread): an interrupt ends
\* both.  The stdin thread is joined for 200 ms and then left alone.
Join ==
    /\ WorkerAt("join")
    /\ interrupted \/ pump[workerRun] = "done"
    /\ Goto("worker", "finish")
    /\ UNCHANGED <<clientVars, fieldVars, currentProcess, execVars, ioVars, outVars>>

\* The engine's finally block closes the reading end of the pipe.
Finish ==
    /\ WorkerAt("finish")
    /\ pipe' = [pipe EXCEPT ![workerRun] = "closed"]
    /\ Goto("worker", "answer")
    /\ UNCHANGED <<clientVars, fieldVars, currentProcess, execVars,
                   proc, pipeFill, outBuf, pump, outVars>>

\* sendResult, or sendError: nothing is sent to a session that is not open.
SendAnswer ==
    answer' = [answer EXCEPT ![workerRun] = IF open THEN "sent" ELSE "dropped"]

\* running.set(false) moved up, before the finally block.
AnswerReleases ==
    /\ WorkerAt("answer")
    /\ running' = FALSE
    /\ SendAnswer
    /\ Goto("worker", "checkProcess")
    /\ UNCHANGED <<clientVars, started, currentTask, inputWriter, currentProcess,
                   execVars, ioVars, lateOutput>>

Answer ==
    /\ WorkerAt("answer")
    /\ SendAnswer
    /\ Goto("worker", "checkProcess")
    /\ UNCHANGED <<clientVars, fieldVars, currentProcess, execVars, ioVars, lateOutput>>

\* running.set(false), the last statement of the task.  A Future that was
\* cancelled stays so.
ReleaseKeepsRunning ==
    /\ WorkerAt("release")
    /\ task' = [task EXCEPT ![workerRun] = "done"]
    /\ workerRun' = Null
    /\ Goto("worker", "idle")
    /\ UNCHANGED <<clientVars, fieldVars, currentProcess, interrupted, shutdown,
                   ioVars, outVars>>

Release ==
    /\ WorkerAt("release")
    /\ running' = FALSE
    /\ task' = [task EXCEPT ![workerRun] = IF @ = "interrupted" THEN "stopped"
                                           ELSE "done"]
    /\ workerRun' = Null
    /\ Goto("worker", "idle")
    /\ UNCHANGED <<clientVars, started, currentTask, inputWriter, currentProcess,
                   interrupted, shutdown, ioVars, outVars>>

Worker ==
    \/ \E r \in Runs : Take(r)
    \/ Refuse \/ Prepare \/ Launch \/ Register \/ WaitInterrupted \/ WaitExit \/ Join
    \/ Finish \/ Answer \/ StopProcess("worker") \/ Release

-----------------------------------------------------------------------------
(* The process and the pump threads.                                       *)

ProcessWrites(r) ==
    /\ proc[r] = "alive"
    /\ outBuf[r] < MaxOutput
    /\ outBuf' = [outBuf EXCEPT ![r] = @ + 1]
    /\ UNCHANGED <<clientVars, pc, fieldVars, currentProcess, execVars,
                   proc, pipe, pipeFill, pump, outVars>>

ProcessReads(r) ==
    /\ proc[r] = "alive"
    /\ pipeFill[r] > 0
    /\ pipeFill' = [pipeFill EXCEPT ![r] = @ - 1]
    /\ UNCHANGED <<clientVars, pc, fieldVars, currentProcess, execVars,
                   proc, pipe, outBuf, pump, outVars>>

ProcessExits(r) ==
    /\ proc[r] = "alive"
    /\ proc' = [proc EXCEPT ![r] = "dead"]
    /\ UNCHANGED <<clientVars, pc, fieldVars, currentProcess, execVars,
                   pipe, pipeFill, outBuf, pump, outVars>>

KilledProcessDies(r) ==
    /\ proc[r] = "killed"
    /\ proc' = [proc EXCEPT ![r] = "dead"]
    /\ UNCHANGED <<clientVars, pc, fieldVars, currentProcess, execVars,
                   pipe, pipeFill, outBuf, pump, outVars>>

\* The pump flushes after every read, so each chunk is a message at once.
PumpOutput(r) ==
    /\ pump[r] = "draining"
    /\ outBuf[r] > 0
    /\ outBuf' = [outBuf EXCEPT ![r] = @ - 1]
    /\ lateOutput' = IF open /\ answer[r] = "sent" THEN lateOutput \cup {r}
                     ELSE lateOutput
    /\ UNCHANGED <<clientVars, pc, fieldVars, currentProcess, execVars,
                   proc, pipe, pipeFill, pump, answer>>

PumpEnds(r) ==
    /\ pump[r] = "draining"
    /\ outBuf[r] = 0
    /\ proc[r] = "dead"
    /\ pump' = [pump EXCEPT ![r] = "done"]
    /\ UNCHANGED <<clientVars, pc, fieldVars, currentProcess, execVars,
                   proc, pipe, pipeFill, outBuf, outVars>>

\* A message sent while the session closes throws an IllegalStateException,
\* which ends the pump and closes the output it was reading.
PumpThrows(r) ==
    /\ pump[r] = "draining"
    /\ outBuf[r] > 0
    /\ ~open
    /\ outBuf' = [outBuf EXCEPT ![r] = 0]
    /\ pump' = [pump EXCEPT ![r] = "done"]
    /\ UNCHANGED <<clientVars, pc, fieldVars, currentProcess, execVars,
                   proc, pipe, pipeFill, outVars>>

\* The stdin pump cannot write to a dead process and closes its end.
StdinPumpEnds(r) ==
    /\ proc[r] = "dead"
    /\ pipeFill[r] > 0
    /\ pipe[r] = "open"
    /\ pipe' = [pipe EXCEPT ![r] = "closed"]
    /\ UNCHANGED <<clientVars, pc, fieldVars, currentProcess, execVars,
                   proc, pipeFill, outBuf, pump, outVars>>

-----------------------------------------------------------------------------
Next ==
    \/ \E m \in Messages : ClientSend(m)
    \/ Disconnect
    \/ Handler
    \/ \E t \in {"handler", "closer"} : Cancel(t) \/ StopProcess(t)
    \/ \E t \in Threads : CloseInput(t)
    \/ Shutdown
    \/ Worker
    \/ \E r \in Runs :
          \/ ProcessWrites(r) \/ ProcessReads(r) \/ ProcessExits(r)
          \/ KilledProcessDies(r) \/ PumpOutput(r) \/ PumpEnds(r)
          \/ PumpThrows(r) \/ StdinPumpEnds(r)

\* Every thread of the server is scheduled, and a killed process dies.  The
\* client owes nothing, and a process need neither read, write nor exit.
Fairness ==
    /\ WF_vars(Handler)
    /\ \A t \in {"handler", "closer"} : WF_vars(Cancel(t) \/ StopProcess(t))
    /\ \A t \in Threads : SF_vars(CloseInput(t))
    /\ WF_vars(Shutdown)
    /\ WF_vars(Worker)
    /\ \A r \in Runs : /\ WF_vars(KilledProcessDies(r))
                       /\ WF_vars(PumpOutput(r) \/ PumpEnds(r))
                       /\ WF_vars(StdinPumpEnds(r))

Spec == Init /\ [][Next]_vars
FairSpec == Spec /\ Fairness

-----------------------------------------------------------------------------
(* What holds.                                                             *)

Live(r) == task[r] \in {"queued", "executing", "interrupted"}

\* One execution at a time: of the runs a session accepted at most one is
\* queued or executing, and no two processes run side by side, whatever the
\* order of start, stop, close and the worker (SessionState.start, its
\* finally block, and the engine's waitFor).
SingleFlight ==
    \A r, s \in Runs : r # s =>
        /\ ~(Live(r) /\ Live(s))
        /\ ~(proc[r] = "alive" /\ proc[s] = "alive")

\* When running is false nothing of an earlier run is left that the next
\* start could meet: it is over, answered, its process is not running, its
\* pipe is closed, and neither field still refers to it.
IdleIsClean ==
    ~running =>
        /\ currentProcess = Null /\ inputWriter = Null
        /\ \A r \in 1 .. started : /\ ~Live(r)
                                  /\ answer[r] # "none"
                                  /\ proc[r] # "alive"
                                  /\ pipe[r] = "closed"

\* The interrupt that stop() sends hits the run it was meant for, never one
\* that the same thread executes later; only shutdownNow interrupts any.
InterruptHitsItsRun ==
    (interrupted /\ workerRun # Null) => (task[workerRun] = "interrupted" \/ shutdown)

\* The result of a run is sent when its process is over or has been killed,
\* never beside a process that goes on.
AnswerAfterProcess == \A r \in Runs : answer[r] # "none" => proc[r] # "alive"

\* An output message that follows the result of its run is the mark of a
\* stop or a close: a run that ends by itself has all its output sent first
\* (the two joins of the engine).
LateOutputOnlyAfterStop ==
    \A r \in lateOutput : task[r] \in {"interrupted", "stopped", "crashed"} \/ shutdown

\* No thread of the session stands in an operation, and nothing is queued.
Quiescent ==
    /\ pc["handler"] = "idle" /\ pc["worker"] = "idle"
    /\ pc["closer"] \in {"idle", "done"}
    /\ \A r \in Runs : ~Live(r)

\* If a session at rest still says that an execution is in progress, that is
\* because stop() cancelled a run the worker had not begun, or because the
\* finally block was left by an exception; no other way leads there.
StuckOnlyAfterStop ==
    (open /\ running /\ Quiescent) =>
        \E r \in Runs : task[r] \in {"cancelled", "crashed"}

\* A run that stop() interrupted ends up without a process for good, even if
\* the process was launched but not yet handed to setProcess when stop() looked
\* for it.
StopEndsProcess ==
    \A r \in Runs : task[r] = "interrupted" ~> [](proc[r] \notin {"alive", "killed"})

\* The handler waits with inputLock in a pipe nobody will read or close: its
\* run was cancelled before it began, or refused, and never had a process.
Unread ==
    /\ pc["handler"] = "writing"
    /\ pipe[inputWriter] = "open"
    /\ proc[inputWriter] = "none"

\* The end of the connection ends the run, also one whose Future the handler
\* has not stored in currentTask yet; the executor thread itself may be left
\* waiting for inputLock behind an unread pipe, and in no other way.
CloseEndsRuns ==
    ~open ~> [](\A r \in Runs : proc[r] \notin {"alive", "killed"} /\ (Live(r) => Unread))

\* close() comes to its end although the handler may sit in writeInput with
\* the input lock and a full pipe: the run is interrupted before the lock is
\* asked for, and the end of its process closes the pipe's reading end.  The
\* one way to wait for ever is a pipe that is never read.
CloseTerminates ==
    ~open ~> []((pc["closer"] = "done" /\ pc["handler"] = "idle") \/ Unread)

\* Once the process of a run is over the run is answered, whether or not the
\* client ever ends its input (the stdin pump is joined for 200 ms only).
EndedRunIsAnswered == \A r \in Runs : proc[r] = "dead" ~> answer[r] # "none"

-----------------------------------------------------------------------------
(* The session as its client sees it.                                      *)

Service == INSTANCE RunService WITH
    up <- open,
    current <- IF running THEN started ELSE 0,
    accepted <- started

\* However its threads interleave, a session is the service RunService
\* describes: a start is accepted only when the last run has been answered
\* and released, each run gets one answer, and an answer is lost only with
\* the connection.
ImplementsService == Service!Spec

-----------------------------------------------------------------------------
(* What the documentation says and the code does not do.                   *)

\* "stop" is a message of the protocol during a run: it is handled once it
\* was sent, unless the connection ends.
StopIsHandled ==
    (\E i \in DOMAIN inbox : inbox[i] = "stop")
        ~> (~open \/ pc["handler"] = "cancel")
=============================================================================
