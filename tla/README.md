# Verification of webide-be

TLA+ models of the WebIDE (the Spring Boot back end in
`src/main/java/com/example/demo` and the two pages it serves from
`src/main/resources/static`), TLC runs that check them on small instances, and
TLAPS proofs that lift what matters most to every size. Java paths below are
relative to that package. `PROJECT.json` maps every definition to the lines it
models, and lists every hazard with the properties aimed at it.

## 1. Inventory

| Component | State | Operations | Interacts with |
|---|---|---|---|
| Realtime execution session (`execution/websocket/RealtimeCompileHandler`) | per connection: `running`, `currentTask`, `currentProcess`, a pipe, a one-thread executor | `start`, `input`, `stop`, end of the connection | engine (call on the executor), client (messages), pumps (callbacks) |
| Docker engine (`execution/execute/DockerExecutionEngine`), language executors | per call a process, three pump threads, a work directory | `execute` | session (`setProcess`, output streams, the pipe) |
| In-process compiler (`execution/builder/CompileBuilder`) | the JVM's `System.in/out/err` | `compileCode`, `runObjectWithStreams` | nobody calls it |
| Editor rooms (`websocket/manager/EditorSessionManager`) | three concurrent maps and a set per file | `addSession`, `removeSession`, lookups | editor handler |
| Editor messages (`websocket/handler/EditorWebSocketHandler`) | none of its own | `TEXT_CHANGE`, `CURSOR_MOVE`, begin and end of a connection | rooms, file contents, text difference, clients |
| Text difference (`websocket/util/TextDiffUtil`) | none | `calculateDiff` | editor handler |
| File contents (`filecontent`) | table of versions | save, three queries | the editor handler writes the same table |
| Files and folders (`file`) | tree with soft deletion | create, rename, delete, tree | contents, projects |
| Projects, members (`project`) | projects with invite codes, memberships | create, join, add, remove, delete | files, contents |
| Chat (`chat`) | rooms and messages; a Redis channel | publish, receive and store, forward | Redis, STOMP clients |
| Accounts, tokens (`auth`, `security`) | users | sign up, log in; stateless token checks | all controllers |
| Console page (`index.html`) | one socket, a `running` flag | connect, run, input, stop | execution session |
| IDE page: running (`assets/index-B7rUHONo.js`) | a socket, a queued run, `running`, `pending` | run, input, stop | execution session |
| IDE page: editor | tree, open file, its text, local copies, requests | open, edit, save, create, delete | files, contents over REST |
| IDE page: chat | the STOMP client with its handler, socket and timers | mount, leave, say, reconnect | chat, over a broker |
| Sign-in and projects pages | token and active project in the local storage of all tabs | log in, list, create, join, open | accounts, projects |

The two pages are part of the system: the bundle's own code is at the end of its
lines 16 and 23 (the rest of them is libraries), which is why the map names these
two long lines for every definition about the IDE page.

Where the difficulty lies:

* **Execution session.** Three threads (message delivery, executor, connection
  end) share plain fields. `running` is the only atomic one; `inputLock` covers
  writing and closing the pipe, not the test before writing. `Future.cancel`,
  the interrupt flag, `destroyForcibly` and the `finally` block race each other.
  Correct means: one run at a time; nothing of a run left when the flag goes
  down; a stop or close ends the run wherever it hits it; the result comes after
  the process and its output; nobody waits for ever.
* **Pages that run programs.** Callbacks of a socket the page has given up still
  change it, and replies do not say which run they are for. Correct means: the
  page says "running" only while something will end that, says "idle" only when
  nothing runs, and its Stop finds the run.
* **Editor rooms.** Each map call is atomic, no operation is. Correct means: who
  is connected is reached, who is gone is not, rooms are not mixed up and not kept.
* **Editor messages and contents.** Query, insert and broadcast of a change are
  separate; REST saves are snapshot transactions on the same rows. Correct means:
  versions without gaps, each TEXT_SYNC the step from a stored version to the
  next, clients that end up with the stored text.
* **Projects, files, members.** Checks and writes in one snapshot transaction
  without a constraint behind them; updates that write whole rows. Correct means: a
  whole tree, unique names, one membership, no content of what is deleted.
* **Pages and their requests.** Answers come late, in any order, after the user has
  gone on; tabs share a token and a project. Correct means: the editor shows the
  file it names, "saved" is true, no edit is lost, a project is one's own, and a
  session ends only when its token has.
* **Chat client.** Reconnection, goodbye, heartbeats and the end of a page race.
  Correct means: one connection, none after the page is left, and a listening page.

## 2. Modules

| Module | Models |
|---|---|
| `RunService` | what an execution session promises its client |
| `CompileSession` | one `/ws/compile` connection with its executor, the engine's `execute`, the process and the pumps; implements `RunService` |
| `RunPages` | the console and the IDE page with their sockets, in front of sessions that behave as `RunService` |
| `EditorSessions` | the constants that the next one and `EditorSync` share |
| `EditorRooms`, `MCEditorRooms` | `EditorSessionManager` as the handler drives it |
| `TextChange` | `calculateDiff` as a function, and the client's application of a change |
| `TextDiff` | the loops of `calculateDiff`, against that function |
| `EditorSync`, `MCEditorSync` | TEXT_CHANGE and CURSOR_MOVE for one file, with REST saves |
| `Workspace`, `MCWorkspace` | requests on projects, members, files and contents as snapshot transactions |
| `EditPage` | the files of the IDE page and their requests |
| `ChatLink` | the chat connection of the IDE page |
| `SignIn` | login, projects and tokens in the tabs of one browser |
| `..._proofs` | the theorems about the module of that name (`CompileSession_proofs` also has the refinement of `RunService`, `EditorSync_proofs` the rooms of `EditorRooms`) |
| `IdePage_proofs` | the theorems about the two halves of the IDE page, `EditPage` and `ChatLink` |

Composition: `CompileSession` implements `RunService`, and `RunPages` has a session behind
every socket whose `Accept`, `Answer`, `Release` and `HangUp` are those of `RunService` with
the frames they take and send. That the two agree is read side by side; it is not a
theorem, and one would hold whatever the pages do. `TextDiff` implements the function that `EditorSync` stores and
sends. `EditorSync` and `Workspace` share the table of contents: the first has the
editors and versions in detail, the second the deletions. `EditorRooms` shows whom the
lookup of a broadcast finds; `EditorSync` takes the room to be the open sessions.

### RunService and CompileSession

`RunService` is the abstract session: a current run or none, `Accept`, `Answer`,
`Release` and `HangUp`. In `CompileSession`, `pc` gives each of the threads `handler`,
`worker` and `closer` its place; every access to a shared field is a step of its own,
since nothing makes two of them atomic. A *run* is one accepted `start`; its number
stands for the Future, the Process and the pipe made for it.

| Action | Code |
|---|---|
| `StartRefused`, `StartAccepted`, `Submit`, `Assign` | `SessionState.start`: the compareAndSet, the pipe, `executor.submit`, the assignment of its result |
| `ReceiveInput`, `LockInput`, `WriteInput`, `WriteInputFails` | `writeInput`: the unlocked test, the read under the lock, the write that waits while the pipe is full |
| `Cancel`, `CheckProcess`, `KillProcess`, `NullProcess`, `ClearProcess`, `CloseInput` | `stop` of the handler and the closer; all but `Cancel` also the end of a task |
| `Disconnect`, `HandlerThrows`, `Shutdown` | `afterConnectionClosed`, an exception out of `handleTextMessage`, `shutdownNow` |
| `Take`, `Refuse`, `Prepare`, `Launch`, `Register`, `WaitExit`, `WaitInterrupted`, `Join`, `Finish`, `Answer`, `Release` | the submitted task, an executor's refusal, and `DockerExecutionEngine.execute` with its catch and finally blocks |
| `PumpOutput`, `PumpEnds`, `PumpThrows`, `StdinPumpEnds` | `pump` and `SessionOutputStream` |
| `Process...`, `KilledProcessDies`, `ClientSend` | the docker client process and the browser (external) |

Abstractions: a message is one of `start`, `input`, `stop`, `invalid` (anything
answered by an error alone); code, arguments and output text are left out; an
output chunk is one message because the pump flushes after every read; the two
output pumps of a run are one; the stdin pump's 200 ms join is a step that need
not wait; a send to the client does not block (the container gives up after its
timeout). Fields are sequentially consistent: a stale read of a plain field would
be one more behaviour of the JVM. Bounds: `MaxRuns` accepted starts, `MaxInbox`
frames, `PipeCapacity` inputs, `MaxOutput` chunks.

### RunPages

`page` says which of the two pages it is. `ref` is the socket the page refers to,
`queued` the start that waits for it to open, `running` and `pending` its flags. Every
socket keeps its callbacks after the page has gone on to another (`IdeOpens`,
`IdeCloses`, `IdeFails`, `OnReply`, `ConsoleCloses`), as the bundle's closures do.
`up` carries frames; replies are counted, since neither page can tell them apart.
`overlapped` and `crossed` are history variables: a start that may get another's
reply, and a socket made while one was closing. Those are the two situations in which
the pages do go wrong, and the properties except exactly them.

### EditorRooms

One action per call on a concurrent collection. A room is an object named after
the session whose `computeIfAbsent` made it, so that a room can live on after
`fileRooms` forgot it. A connection's end may be reported while its addition is
under way. `raced` is a history variable: the sessions whose addition overlapped
a removal from the same file, found empty or not. `GoneUnlessCutShort` is about the room
that the file has now, the one a broadcast looks up; a forgotten room is sent nothing.

### TextChange and TextDiff

`Diff` says what the change is (longest common prefix, then longest common suffix
of the rest); `TextDiff` runs the two loops and is checked against it, against the
client's `Apply`, and against every smaller change. Texts are sequences of
abstract UTF-16 units, with null apart.

### EditorSync

The room is the set of open sessions. A thread reads the latest row and checks the
version (`ReceiveChange`), stores and computes the difference (`Save`), looks the
room up (`Broadcast`) and sends session by session (`BeginSend`, `EndSend`). A send
is two steps because the container answers a concurrent send (`SendCollides`), or
one to a session closed since `isOpen()` (`SendToClosed`), with an
IllegalStateException; the loop catches only IOException, so it ends there, and the
history variable `missed` keeps the sessions it had still before it.
`SaveContent`/`CommitContent` are a REST save: its snapshot, then its commit. The
client (external) does what the message classes' comments say. Jackson's handling
of `type` is modelled by what it does: a message whose JSON has one `type` member
is dropped (`ReceiveUntyped`), one that has it twice gets through. Since that is how
any change gets through, `Edit` sends both kinds.

### Workspace

A request reads a snapshot and makes its checks (`CreateFile`, `UpdateFileName`,
`DeleteFile`, `SaveFileContent`, `CreateProject`, `DeleteProject`, `AddMember`,
`JoinByInviteCode`, `RemoveMember`, through `Prepare`) and later applies its writes to
what is stored by then (`Commit`) or fails (`RollBack`), as under MySQL's
REPEATABLE READ without a locking read. Hibernate writes every column of a changed row
(there is no `@DynamicUpdate`), so a renaming writes the `deleted` mark as it was read. `Begin` is the choice of such a
request.

`TextChange` is an editor storing a version, each repository call its own transaction.
`handleTextChange` compares the session's file with the message's and looks at versions
only, so it is possible for any id: a live file, a folder, a deleted file, one whose row
`deleteProject` removed, and an id that no file has yet. A row that is gone keeps the
project it was of (`GoneFrom`), for the history alone.

`races` is that history: *unsafe overlaps*, pair by pair of request kinds (`Unsafe`),
each with the project it happened in. A property excepts a row only for the pairs named
for it, in the project of that row's file. `ContentIsOfLive` says nothing of ids that
were never given out.

### EditPage

One page at work on a project without folders. `Click`, `Edit`, `Save`,
`ClickAndSave`, `NewFile` and `Delete` are the user; `ServeLoad` and `ServeSave` the
server; `On...` the continuations in the bundle, applied to whatever the page shows by
then. A text is known by the file it was made for. `slips` is a history variable of the
situations in which the page goes wrong; a property excepts those it lists. "Reopened"
is one: a file is opened while the server has not settled on its last text (`Settled`).
It counts saves that are under way, since two of one file may cross: the older one is
then stored for a moment, and the load brings it back over the newer copy.

### ChatLink

The effect of the page (`Mount`, `Leave`) and the bundled STOMP client: `_connect`,
`dispose`, the socket's callbacks, the reconnection timer, receipts, and heartbeats in
case a server agrees to them (`beats`; Spring's simple broker, configured here without
a scheduler, does not). The server takes frames in order, the network may fall silent
without either end knowing. What the page says is sent and has no effect: the body has
no user and its room is `p_<id>`, where `chat/controller/ChatController` wants numbers.
A slot whose socket is closed is used again, so reconnections have no bound.
The liveness properties except one situation only, `Unnoticed`: an open connection gone
silent, with no heartbeat watched and nothing sent in vain. Once the client has noticed a
silence and closed the socket, it must connect again.

### SignIn

Tabs share `token` and `project`. A request carries the token of the moment it was
sent (`Send`), keeps whether the server took it, and its answer is applied later
(`OnCreate`, `OnCode`, `OnJoin`, `Listed`, `NotListed`, `Created`, `Breaks`); a flow of
requests outlives its page but not a reload. `Intercept` is the 401 interceptor of the
project API, which does not compare tokens. A token names its user in `sub` only, so
that the page reads a user id from it only for users whose name is a number
(`Numbered`). `crossed` marks a project chosen from a list asked for another user.

## 3. Runs

| Run | Shows | Bounds and why they suffice |
|---|---|---|
| `CompileSession` | `SingleFlight`, `IdleIsClean`, `InterruptHitsItsRun`, `AnswerAfterProcess`, `LateOutputOnlyAfterStop`, `StuckOnlyAfterStop`; `ImplementsService`: the session implements `RunService` | two runs: every property relates a run to at most one earlier one; the proofs lift the bounds |
| `CompileSessionLive` | `StopEndsProcess`, `CloseEndsRuns`, `CloseTerminates`, `EndedRunIsAnswered` | one run, one input that fits and one that waits. `CloseEndsRuns` and `CloseTerminates` except the one state without a way out, `Unread`: the handler waits with `inputLock` in the pipe of a run that was refused, or cancelled before it began |
| `RunPages` | `RunningHasCause`, `IdleIsHonest`, `StopReaches`, `PendingEnds` | three sockets (one given up, one closing, one new), three effective clicks on Run, one on Stop or an input |
| `EditorRooms` | `ReachableUnlessRaced`, `GoneUnlessCutShort`, `RoomsCollected` | three sessions, two files: one that leaves, one that joins and one that stays, in the same or another room; the proofs lift the bounds |
| `TextDiff` | `ChangeGivesNewText`, `ChangeIsLeast`, `LoopsComputeDiff` | two units and length four: prefix and suffix overlap in every way; the proofs lift the bounds |
| `EditorSyncAlone` | `TextConverges` | one editor and two readers, one of which moves its cursor: a broadcast can meet another send with a session still before it; two rows: a change to follow, repeat or revert another |
| `EditorSyncRace` | `NoVersionGap`, `SyncLinksVersions` | two editors with a text each, and REST; two rows: any two of them can read before the other writes; the proofs lift the bounds |
| `Workspace` | `TreeIsWhole`, `NamesDiffer`, `MemberOnce`, `ContentIsOfLive`, `DeletedStays` | two requests at a time, since each exception is about a pair; three files: a folder in a folder with a file in it; no request begins after one unsafe overlap (`MaxRaces`), whose consequences are still played out; two projects, side by side: once the second is made, `SideBySide` of `MCWorkspace` keeps to one name in use (names are compared within a project) and to requests of different projects (two of one project are played on the first), so that what is shown of one is not disturbed by the other; the proofs lift the bounds |
| `EditPage` | `OpenText`, `CleanIsSaved`, `LastEditKept` | one file and one created meanwhile, one edit, two loads (an older and a newer answer), one save under way; one kind of slip at a time (`MaxSlips`), so that each property is checked against every kind it does not except; two saves that cross are left to the proofs, which lift the bounds |
| `ChatLink` | `OneLink`, `LeftForGood`, `ListensAgain`, `LeaveCompletes` | two slots, so that a second connection could be made beside the first; two frames and two messages, so that a send and a goodbye can be on the way together; the proofs of the first two lift the bounds |
| `SignIn` | `OwnProject`, `FreshTokenStays`, `NoLoginTrap` | two tabs, two users (one with a number for a name), two logins, one project, two flows at a time: an old token, user or tab against a new one |

One run refutes what the code's own documentation says (the finding in
`PROJECT.json` quotes it):

| Run | Property | What happens |
|---|---|---|
| `CompileStop` | `StopIsHandled` | a stop behind an input in an unread pipe is never handled; after a refused run the handler and the executor even wait on each other for ever |

Deadlock is not checked: a closed connection, an idle client, a page left alone, a call
that has returned, and a thread at the bound on rows may all stop.

More departures were met, each the limit of a property that holds:

* a stop before the worker has begun leaves `running` up for good (`StuckOnlyAfterStop`
  says nothing else does), and an input that meets the end of its run throws and ends
  the connection (`HandlerThrows`);
* output may follow the result of a run that was stopped (`LateOutputOnlyAfterStop`);
* a join that meets the last leave ends in a forgotten room (`ReachableUnlessRaced`);
* an ordinary editor message has no type when it is dispatched and is dropped; two rows
  may have one version (`NoVersionGap` says only that none is skipped); a broadcast that
  meets a concurrent send leaves sessions out (`missed` in `TextConverges`);
* an editor's change of a file that was deleted, even with its project, or of a folder,
  stores a row of content (`ContentIsOfLive`);
* a save of a file before its first load, or after one that failed, stores the empty
  editor over it; a late load puts one file's text under another's name; any save
  clears "unsaved", also one that failed; opening a file again erases its local copy,
  so that a text whose save failed, or is overtaken by an older one, is lost
  (the exceptions of `CleanIsSaved`, `OpenText` and `LastEditKept`);
* the console never hears that its socket closed (`RunningHasCause`); a reply of an
  earlier run can put the IDE page to idle (`IdleIsHonest`);
* a goodbye whose receipt is lost leaves the chat client deactivating for ever, and a
  silent connection is not noticed without heartbeats (`Unnoticed` in `LeaveCompletes` and
  `ListensAgain`).

### Fairness

* `TextDiff`: weak fairness of its next step, the code being sequential; no property needs it.
* `CompileSession`: weak fairness for the handler, for the two threads inside `stop`,
  for the worker, the pumps and the death of a killed process: each is a thread the JVM
  or the system schedules. `CloseInput` gets strong fairness for each thread: it waits
  for a monitor that the handler takes and gives back again and again, and the JVM's
  monitors grant it to a waiting thread eventually. The client and the process owe
  nothing: a process may run, stay silent and leave its input unread for ever.
* `RunPages`: a browser ends every attempt to connect, one way or the other. The user,
  the server and the network owe nothing.
* `ChatLink`: the browser runs the reconnection timer and finishes what it began to
  close; a connection on which something was sent in vain breaks in time (TCP gives up);
  the server takes and answers frames, and opening and connecting succeed again and
  again if tried again and again (strong fairness: the network is not down for ever).
* `SignIn`: a request for the list that stays under way is answered, and not every one
  of a page that is reloaded again and again is lost (strong fairness of the 401).
* The other modules state none: their properties are about safety.

## 4. Proofs

All theorems are about every value of the constants, from the assumptions their modules
name (bounds are natural numbers; texts are sequences of the units; there is a user;
no code, session or file is the `None` of its module).
Each has the form `Spec => []Inv` by an inductive invariant `IInv` (`Invariance` in its
module), or a step-by-step refinement.

| Module | Theorems | Inductive invariant |
|---|---|---|
| `CompileSession_proofs` | `TypeCorrect`, `OneAtATime`, `FlagDownMeansClean`, `InterruptConfined`, `ResultAfterProcess`, `OutputComplete`, `FlagStaysUpOnlyAfterStop`; `SessionIsService` (`Spec => ImplementsService`) | *Control*: where each thread can be, and when the flag is up. *Ownership*: only the latest started run can be live, and which fields refer to it. *Progress*: how far that run has come for each place of the worker, and that its pipe is closed or still the one `inputWriter` writes. *Past*: earlier runs are over and answered, with dead or killed processes and closed pipes. *Pumps*: a pump and its process. For the last but one, *Accounted*: what a raised flag stands for once the session is at rest |
| `RunPages_proofs` | `StopFindsItsRun`, `RunningIsCaused`, `IdleIsIdle` | *Counted*: accepted runs, starts on the way and the queued one are no more than the clicks, so that the runs a server takes are within the bound. *Unanswered*: a run not yet accepted has no answer. *Reference*: nothing connects or is open while a socket closes, unless `crossed`. *Caused*: `RunningHasCause` socket by socket. For `IdleIsIdle`: *OneOwed*, one reply at most is owed and while it is the page waits, with *Fresh* and *LastOnly*, nothing has happened on a socket that never opened, and the console makes one only after its last is closed |
| `EditorSync_proofs`, on `EditorRooms` | `RoomsTypeCorrect`, `RoomsApart`, `Reachable`, `RemovedIsGone`, `RoomsAreCollected` | *Naming*: which file a room is for. *Safe*: no removal that began later finds the room of an unraced session empty. *Removed*: a forgotten room is never named by that removal's file again. *Kept*: why a room is named |
| `TextChange_proofs` | `DiffGivesNewText` (for all texts) | none: a lemma about the function, used by the next two |
| `TextDiff_proofs` | `TypeCorrect`, `DiffIsRight`, `LoopsAreDiff`, `DiffIsLeast` | the texts agree before `start`, the rest after `oldEnd` and `newEnd` is equally long and equal, and the prefix cannot be made longer |
| `EditorSync_proofs` | `TypeCorrect`, `VersionsAreGapless`, `SyncsLeadOn`; `LoneEditorIsFollowed` (`Spec => []TextConverges` for one editor and no REST saves) | *Held*: the row a thread or transaction read is still stored when it inserts the next version, as rows are never deleted, though it need not be the latest. *Links*: every TEXT_SYNC being sent or on its way leads on. For `LoneEditorIsFollowed`, *LInv*: there is one row of each version, only the editor's thread holds a change, and what is on its way to a client leads from its text to the stored one, or the last broadcast is still to reach it (*Served*) |
| `IdePage_proofs`, on `ChatLink` | `OneSocket`, `LeavesForGood` | `OneLink` itself, and *Resting*: the client of a left page is not active and has no timer |
| `IdePage_proofs`, on `EditPage` | `OpenTextHolds`, `LastEditsKept`, `CleanTextsSaved` | three parts, each until a slip that breaks it. *Right*: every text, also in a request, is of its file and no newer than the last one. *Kept*: the last text is in the copy, or the server has settled on it, as it has while the file is loaded. *Clean*: a load brings what is stored, a save on its way carries what the editor shows |
| `Workspace_proofs` | `TypeCorrect`, `TreeStaysWhole`, `NamesStayApart`, `MembersOnce`, `ContentOfLive`, `DeletedFilesStay` | *Refs*: rows and plans refer to ids that were given out, so that nothing old refers to a new row by accident. *PlanOf*: what the checks of a pending request found is still so, unless a request it is not safe from has committed since, in which case its own commit is noted as an unsafe overlap |
| `SignIn_proofs` | `TypeCorrect`, `ProjectIsOwn`, `FreshTokenKept` | *Known*: a list is of projects of the user it was asked for, and a creation that waits for the list is about its creator's project; members never leave |

Why strengthening is needed: that two runs are never live at once, for instance, needs
that the flag stays up until the worker has let go of its run, that nothing but the
handler's own start raises it, and that a cancelled run never lowers it. And that a tree
stays whole is nothing a commit can see: it writes what was planned from an old
snapshot, so every pending plan needs a statement of its own on what is stored now.

Two proofs changed what is stated. With two saves of a file under way, `LastEditKept`
did not follow and TLC found why: an older save reaches the server after the file was
opened again. So "reopened" asks whether the server has settled, and `LastEditKept`
lost the disjunct for a text that is still on its way: it is in the copy until it is
stored. `Workspace` defines the subtree that a deletion marks as the least set that
holds the folder and the live children of its members, where the recursion of
`FileServiceImpl` collects them level by level, for finite trees the same.

`DiffIsRight` rests on `ReplacedRange`: two texts that agree outside a range differ by a
change of that range. That the longest common prefix exists (`Diff` chooses it) would
ask for induction; `HasLeast` gets it from the library's fact that strict inclusion of
finite sets is well-founded, applied to the intervals `0 .. n`. `DiffIsLeast` compares
any change that works with that prefix and suffix.

Only model-checked: the liveness properties (`StopEndsProcess`, `CloseEndsRuns`,
`CloseTerminates`, `EndedRunIsAnswered`, `PendingEnds`, `ListensAgain`,
`LeaveCompletes`, `NoLoginTrap`), which are out of the prover's reach. Every invariant
and action property of the runs has a theorem. The `TypeOK` of the modules without a
type theorem (`RunPages`, `EditPage`, `ChatLink`) states the shape of their variables for
the reader; their inductive invariants have as much of it as the proofs need.

## 5. Not modelled

* `CompileBuilder` and its swapping of the system streams: no code calls it.
* Controllers, DTOs, exception mapping, configuration: no state; the routes and refusals
  that the pages meet are in `SignIn`, `EditPage` and `ChatLink`.
* The language executors but for their refusal of a request, and the container behind
  the docker client: `destroyForcibly` ends the client, what becomes of the container
  is Docker's.
* The text of output: which bytes are in a chunk, and a character cut by its end.
* Chat's publishing and storing over Redis: a page's message is refused before it, so
  nothing of it happens in the program as it is; and delivery by Redis and by the broker
  is not in the repository. The coding of STOMP frames.
* Sign-up (one insert after one check), `updateProject` (a name nothing depends on), the
  drawing of invite codes, read-only queries, parents in another project.
* On the IDE page: new folders and renaming, which leave the open text alone.
* The database's locks beyond snapshots, and the memory model of plain fields.
