# Inference Lens: models and proofs of its concurrent core

TLA+ models of the parts of this repository where several actors meet: the run
core, the scheduler of a batch, the interactive sessions, the files of a project
folder, the tabs and windows that write them, and the service that runs tools.
TLC checks them on small instances; TLAPS proves their main safety properties
for every value of the constants. Paths below are relative to `src/`.

## The system

Inference Lens sends prompts to model providers, records every event of each
run as evidence, and repeats requests in batches ("experiments"). A user edits
a project in a browser or a desktop shell; a project is a folder that several
tabs, windows and other programs may have open. Personal drafts live beside the
shared document and are published into it. A local service holds credentials
and executes command and MCP tools; a command line runs the same batches.

| Component | State it keeps | Operations | Hard behaviour | What makes it correct | Modules |
|---|---|---|---|---|---|
| Run kernel: reducer (`packages/core/src/run-kernel/reducer.ts`) | one `RunState`: status, turns, attempts, tool executions and results, next number | one case per event type | events of several sources, refused events | status agrees with the record; calls served once; recorded content is final | `RunKernel` |
| Run kernel: coordinator (`coordinator.ts`, `events.ts`) | the state, a number factory, the active execution | start, accept, finishTurnStream, retry, continue, tool methods, fail, cancel | any order of calls; a refused event uses a number up | the stream accepted is the current attempt's | `RunCoordinator` |
| Chat repetition (`packages/runner/src/chat-cell-executor.ts`, `provider-turn-driver.ts`, `core/src/tool-execution.ts`) | where it is awaiting; the calls still to serve | a loop of provider turn, rate-limit wait, tool calls | abort at any await; transports that break late; failing tools | ends terminal with closed evidence, within its budgets | `ChatCell` |
| Decision run and repetition (`core/src/decision-run.ts`, `runner/src/decision-cell-executor.ts`) | the attempts of one decision | begin, apply event, retry, stop | stop racing the answer, streams that end early | one outcome, never changed, that a trace may hold | `DecisionRun`, `DecisionCell` |
| Experiment scheduler (`packages/runner/src/experiment-controller.ts`) | unstarted cells, counters, pauses, flags for cancel, stop and interruption | run, cancel, cell outcomes, pauses, saves | overlapping pauses and timers, stops with cells in flight, failing saves | limits; nothing outlives the run; result over complete evidence; it ends | `ExperimentScheduler` |
| Tool resource locks (`tool-resource-locks.ts`) | the tail of each resource's promise chain | acquire, release | a chain forgotten and begun anew while calls come | one holder, first come first served, no leak | `ToolResourceLocks` |
| Interactive run session (`app/run/use-run-session.client.ts`) | a generation counter over one coordinator | start, stop, supply results, continue | superseded work that resumes after an await | only the current run is shown, each ended run saved | `RunSession` |
| Interactive decision session (`app/decisions/use-decision-session.client.ts`) | a generation, one run, the wait of a 429 | start, retry, stop, autosave | late answers of superseded attempts | as above, and Retry waits | `DecisionSession` |
| Workbench store (`core/src/workbench-store.ts`, `app/workbench-directory.client.ts`, `src-tauri/src/workbench.rs`) | expected bytes, blocked paths, a queue | load, save, delete, retry, reconcile | a failed write that landed; two windows | no bytes are overwritten that the window has not seen | `WorkbenchStore` |
| Workbench publication (`core/src/workbench-publication.ts`, `app/workbench/personal-workbench-controller.ts`) | private records, intents, debounced writes | publish in four steps, settle, edit, discard | crash between steps; edits meanwhile | published exactly once, later edits kept | `WorkbenchPublication` |
| Tabs of a project (`app/project-tab-coordination.client.ts`, `use-project-workspace.client.ts`) | role, lock requests, channel messages | open, save, hand over, steal, adopt | lock stealing, late timers and answers | one editor writes; unsaved edits go only with consent | `ProjectTabs` |
| Workspace of one window (`use-project-workspace.client.ts`) | the document, its write queue, timers | edit, autosave, save, publish, replace the project | stale snapshots, writes that outlive their project | shown as saved is saved; no document in another folder | `ProjectWorkspace` |
| Migration (`core/src/migration-*.ts`, `src-tauri/src/workbench/completion.rs`, the controller) | staged backup, candidates, resolutions | stage, complete, finish, use, discard, tidy | crash between steps, partial writes | resumable, nothing lost, nothing back twice | `ProjectMigration` |
| Pinned baselines (`app/evaluations/use-evaluation-baselines.client.ts`) | the pins of one folder, as read | load, pin, unpin | whole-file writes from what is held; folders opened meanwhile | what is shown is saved; one change changes one pin | `EvaluationBaselines` |
| Command tools (`services/api/src/command-tool-runner.ts`) | a child process, two timers | run, stop | time limit, output limit, abort and exit race | settles once, result true | `CommandTool` |
| MCP discovery and execution (`services/api/src/mcp-discovery.ts`, `mcp-execution.ts`) | pooled clients, idle timers, turns | discover, execute, drop | a shared client closed under another request | every request answered, pool consistent | `McpPool` |
| Provider adapters and transports | a stream's parse state | decode a stream | streams that stop or lie | order of events | only as the events they may produce |
| The rest: project document, evaluations, traces, checks, templates, n8n import, API stores, command line, views | documents and small files | mostly pure functions, views, plain I/O | little concurrency | data conversions | not modelled |

### How they interact

The scheduler calls `executor.execute(context)` once per started cell and never
looks inside. A chat repetition owns one `RunCoordinator`; it pulls events from
the transport's stream, which the driver hands to `coordinator.accept`, and
calls the tool methods around each execution; the coordinator stamps each event
and reduces it. Back to the scheduler go only `report`, `afterRateLimit`
(pause the connection, wait, retry or not), `stop`, and the terminal run; down
go one abort signal per cell and the shared tool locks. `execute` is promised
to obey `Repetition`: the scheduler's cells, `ChatCell` and `DecisionCell` all
refine it. A tool execution reaches the service as a command or an MCP request.

The sessions are the browser's other clients of the same reducers. Their drafts
come from the workbench controller, whose records the store writes one by one
inside the project's write scope; publishing a record goes through the
workspace's write queue, and the workspace writes only while its tab is editor.

Everything is one JavaScript thread per process, so a step of a model is what
runs between two awaits, or a shorter stretch of it where something synchronous
may be observed or called back in between.

## The modules

| Module | What it is |
|---|---|
| `RunKernel` | `Accepts`, every check `reduceRunEvent` makes, and `Reduced`, every change; the predicates on a run's state |
| `RunCoordinator` | EXTENDS it; an action per method; `Next` is the most general client |
| `Repetition` | the abstract specification of one repetition: turns, retries, one outcome |
| `ChatCell` | EXTENDS `RunCoordinator`; the executor as one of its clients, with the transport, tools and abort signal around it; refines `Repetition` |
| `DecisionRun` | the functions a decision run moves by, and what its saved form accepts |
| `DecisionCell` | EXTENDS it; the executor of one decision repetition; refines `Repetition` |
| `DecisionSession` | EXTENDS `DecisionRun`; the interactive decision session |
| `ExperimentScheduler` | the controller and its cells, whose inside is abstract; each cell refines `Repetition` |
| `ToolResourceLocks` | the promise chains |
| `RunSession` | EXTENDS `RunCoordinator`; the interactive chat session |
| `WorkbenchStore` | one record, the windows that write it, a host that fails, programs outside |
| `WorkbenchPublication` | one Save from intent to cleared record, with everything that happens meanwhile |
| `ProjectTabs` | the editor role between tabs: lock manager, channel, handover, theft, adoption |
| `ProjectWorkspace` | one window's queue of writes, autosave, publication and replacement |
| `ProjectMigration` | upgrade, Finish, reconciliation and removal of the backup |
| `EvaluationBaselines` | the pins of folders opened one after another, and one page that writes them |
| `CommandTool`, `McpPool` | what the service runs tools with |
| `MC*` and `*.cfg` | instances for TLC |
| `*_proofs` | theorems about `RunCoordinator` and its `RunKernel`, `MCRepetitions` with its `ChatCell`, `DecisionCell` and `ToolResourceLocks` (these three in `Runs_proofs`), `MCSessions` with its `RunSession` and `DecisionSession`, `ExperimentScheduler`, `WorkbenchPublication`, `MCWorkbenchStore` with its `WorkbenchStore`, `ProjectMigration` and `EvaluationBaselines`, `MCServiceTools` with its `CommandTool` and `McpPool`, `MCProject` with its `ProjectWorkspace` and `ProjectTabs` |

An MC module that names several components (`MCRepetitions`, `MCSessions`,
`MCWorkbenchStore`, `MCProject`, `MCServiceTools`) puts them side by side: they share no
state, a variable says which one a behaviour is of, and the others stay as they
began. It is several instances in one run, not a product.

### RunKernel and RunCoordinator

`run` is `stateValue`. A turn is a sequence of attempts, an attempt its status,
how far its exchange got and its tool calls; turns, attempts, exchanges and
calls are named by position, as the coordinator's derived identifiers are
(`turn_…_N`, `…_attempt_A`), so duplicate-identifier checks become
position checks. `sequence` is the factory's counter and is increased whether or
not the event is accepted, as `create` does. Left out: text and arguments, usage
amounts, timestamps, event identifiers, the frames' own content (only whether a
frame is in order), and the guard against one call's identifier changing between
deltas (the model's identifier is the index). The most general client may call
any method at any time, and its provider may emit any event of the active
exchange in any order: it covers every real client, of which `ChatCell` and
`RunSession` are two.

### ChatCell, DecisionRun and DecisionCell

`pc` (of a decision `place`) names the await or synchronous stretch `execute` is in; each action is one
stretch of it and of what it calls. A coordinator method that raises sends `pc`
to wherever the exception is caught (`Leads`). `Abort` may happen between any two
steps. `MCRepetitions` EXTENDS both cells, so the names of the decision's operators
say so where the chat has one of the same kind (`DecisionStage`). `Quirks` says what a transport may do beyond the plain sequence, each one
found in an adapter: content after the finish reason, calls never named, an
error after the stream's own terminal event. A decision run keeps the times its
saved form compares; `ClockSteps` lets the wall clock be set back.

### ExperimentScheduler and ToolResourceLocks

`phase` is where `run()` is; the scan is one action per cell looked at, during
which no callback runs, but the clock may move at any step of it, for the code
reads it anew for each cell; `cancel()` may be called from a progress listener. A
cell is `running` (with its provider or a tool), in `backoff`, `saving` its trace,
or over. `embargo` is a history variable: the latest end of any pause a connection
was given. Timers never fire early. A controller is used for one `run()`, as all
its callers do.
`ToolResourceLocks` records every call that asked, with the tail it found; a tail
has resolved when its call was released, which hides the microtasks in between.

### RunSession and DecisionSession

Each follows one run, "this", from its start to after another has taken its
place. Every asynchronous command takes the next generation and goes on under
that number, superseded or not, until its next check; the guards of the commands
are those of the buttons that give them. `decided`, `asked`, `stopped`, `hasty`
and `due` are history variables.

### WorkbenchStore, WorkbenchPublication, ProjectMigration

`WorkbenchStore` has one record and several windows, each with its serialised
store; the host's check, write and read-back are separate steps inside the
project's write scope, each of which may throw, the write before or after the
bytes changed. `seen` and `writer` are ghosts. Programs that ignore the scope
act between any two steps; `OutsideRaces` says whether also between a check and
its write, which no host can exclude.
`WorkbenchPublication` has a scratch, a local child that branched from it and the
selections of one window, in memory and on disk, with debounce timers and the
store's queue, and the four steps of a Save; windows die at any step and the next
one settles. The shared write may be reported as failed before or after it changed
the document (`SharedRefused`): `writeShared` returns `failed` when the project was
replaced during its save (`use-project-workspace.client.ts:561-563`), and a host may
throw when it has written. The window's copy of the document is then older than
the document (`outdated`), so it writes no more until it is reopened. The user may
do anything at any time; ghosts tell which promises still hold: `calm` (nothing
discarded, nothing tried again, no selection of the request while its selection is
moved), `beside` (the last words were typed while the Save cleaned up), `standing`
(what is published and was not edited since, and whether its user was told that it
had failed).
`ProjectMigration` has the files of the backup, the manifest, the place of each
candidate, the resolutions, and the steps of the upgrade and of the controller
afterwards. `lapsed`, `lived`, `spent` and `kept` are history variables.

### EvaluationBaselines

`pins` is the file, `loaded` what the page holds with the folder it is of, one
read or write a record that goes on by itself. The code neither waits for a read
nor for a change on its way, so within one folder pins do get lost: the ghost
`raced` collects the folders whose users did not wait, and the properties speak of
the others. `Races` bounds which of these a run explores; no proof uses it.

### ProjectTabs and ProjectWorkspace

`ProjectTabs` separates what the lock manager decided (`holder`) from what a tab
believes (`tab[t].held`): steal, grant and loss travel as messages. A document is
the set of its edits. `ProjectWorkspace` has the write queue of one window: an
autosave and a Save take the document when queued, a publication when written;
a replacement waits for the queue or asks. A tab's `Habits` name what may happen to
it besides: `type` while a handover is saved, `stale` saves between its first read
and its lock, `cancel` a takeover, and `late`: a lost lock returns while the save of
its handover still runs. In `project` tabs may do all but `stale`. Words typed while
a handover is saved stay shown as unsaved (`ShownAsSavedIsSaved`); that they may go
unreported is a disagreement below. The ghost `returned` says that a lock came back
late; until then the properties of a tab hold, afterwards they do not (see below).
A window's user may `type`. `ScopeAssumption` says that a save in the
write scope, a record, is not the value that stands for none.

### CommandTool and McpPool

`leader` is the spawned process, `helper` what it starts itself, which may
outlive it, hold the output open or ignore SIGTERM. `McpPool` numbers clients as
they are made; an idle timer whose handle was overwritten still fires ("lost").

## What the runs check

| Run | Instance | Shows |
|---|---|---|
| `repetitions` (65 s) | chat: 2 turns, 1 retry, 2 calls, all quirks, 19 events; decision: 2 retries, clock to 2; locks: 2 resources, 5 calls | every return is a terminal run with closed evidence; each call executed once; a decision's outcome is final and saveable; Stop ends both; the chat refines `Repetition` (that the decision does is proved); one holder per resource, served in order, everyone served |
| `cell_refused_event` | one quirk | violation, finding 1 |
| `scheduler` (140 s) | 3 cells on one connection that takes 2, waits of 1 and 2, 1 retry, clock to 2, moving also inside a scan; 775,074 states | limits, drained exits, evidence before result, result accounting, pauses respected, nothing starts after a halt, cells start in turn and refine `Repetition`; a stopped run ends though no provider answers; no wakeup is lost |
| `sessions` (130 s) | chat: 2 turns, 2 calls, 3 generations; decision: 4 drives, clock to 2; a coordinator under its most general client: 2 turns, 2 attempts, 2 executions each, 13 events | executing means that something in flight can report; ended runs reach the disk; what is superseded stays gone; asked-for calls wait for their answer; Retry waits; Stop quiesces. No client brings a run into a state its own record contradicts: status fits the turns, turns follow answered turns, calls are served once, settled content stays, a refused event is the last |
| `sessions_double_continue` | 1 call, 4 generations | violation, finding 2 |
| `service_tools` (60 s) | 2 chunks, helpers of every nature; 3 requests, 2 versions, overlapping or not; 453,478 states | a command's result is true and it settles; every MCP request is answered |
| `files` (155 s) | 2 windows, 2 contents, 3 operations, 1 outside change; upgrade with 1 draft, a failure, a crash, 2 edits; baselines: 2 folders, 3 openings, 2 pins, 2 reads, 1 failure, also pins after a failed read or beside another pin; 2.1M states | nobody overwrites bytes he has not seen; no word is lost in an upgrade, nothing comes back; pins shown are saved, and change one at a time |
| `baselines_damaged` | 1 folder, 1 pin | violation, finding 3 |
| `publication` (115 s) | 2 Saves, 2 edits, 1 failed operation, 2 of failures and deaths, shared writes reported failed at any time; 952,599 states | published once unless reported failed, records lead to what replaced them, no edit lost but one typed beside the cleanup, every Save answers |
| `publication_beside_cleanup` | 1 Save, 2 edits | violation, finding 4 |
| `project` (106 s) | 2 tabs, 2 edits, 1 ask, 2 opens, a failure, typing during a handover, late locks; 1 window, 2 folders, 2 edits, a publication, 2 replacements | what is shown is true; no edit goes without consent |
| `project_progress` (66 s) | the same with nobody declining, and a record | handovers end, edits are saved or reported, operations answered |

**Why the bounds are enough.** Two tool calls are the least for one to be served
while the other is not; two turns and two attempts for a later one to meet an
earlier one's record; two executions for a failed one and its repetition. 13
events reach every status of the coordinator, and the proofs remove this bound
altogether. 19 is more than one chat repetition of those sizes uses before it
ends, apart from repeated deltas. Three cells on a connection that takes
two let a freed slot, a pause and a stop compete; two pauses of different
length overlap within a clock of 2. Five calls let a chain be forgotten and
begun anew beside another. Three generations are a run, its continuation and
what supersedes both. Two windows and one program outside are the parties of
every race on a record; three operations let a failure, its retry and another
window's write meet. Contents of a request can be renamed throughout a behaviour, so
`publication` begins with one of them. On one connection the overall limit of the
scheduler never binds before the connection's; the proofs cover both. Two Saves let the second meet what the first left behind.
Two tabs are the two sides of a handover; a third would only wait. Symmetry is
declared only in runs without liveness. `CHECK_DEADLOCK FALSE` is set where the
system ends (a terminal run, a closed tab, all requests served) or where a bound
ends the exploration.

**Fairness.** The code gives no provider and no tool a deadline, so no fairness
makes them answer: they are only assumed to end once their signal has aborted,
which transports and tool executors do. What runs on its own, timers, and writes
(which finish or fail) are weakly fair. Entering a write scope that others also
ask for, and a read another tab may invalidate, are strongly fair: the lock
managers are queues. In `CommandTool` a process obeys a signal it was sent, in
time. Of a user nothing is assumed, except in two named premises: "the user settles
nothing while a Finish runs" and "the drawer's user does not edit during Use" of
`ProjectMigration`, where dialogs cover the page.

### Findings

1. `cell_refused_event`: the factory numbers an event before the reducer checks
   it (`events.ts:125`). One refused event, such as content after the finish
   reason, which the chat-completions adapter passes on, puts the run out of step
   for good; even `fail` is refused, and `execute` rejects although "every exit
   path still produces a terminal trace" (`chat-cell-executor.ts:128-130`).
   `RefusalIsFinal` states it of every client, and is proved.
2. `sessions_double_continue`: Continue pressed again while a tool executes starts
   that execution a second time; the refused event has the same effect, and `stop()`,
   "idempotent" by its comment (`use-run-session.client.ts:89`), throws.

3. `baselines_damaged`: a baselines file that does not parse is reported "rather
   than quietly replaced on the next pin" (`project-workspace.client.ts:1074`), but
   the failed read leaves empty pins in the page, and the next pin writes them
   (`use-evaluation-baselines.client.ts:199, 219`).
4. `publication_beside_cleanup`: "Otherwise edits were made while saving; keep
   them" (`docs/SHARED_ASSETS_LEVEL_TWO_DESIGN.md:418-421`), but the cleanup is planned
   before the child and the selection are moved, and the words typed into the
   request meanwhile go with its record (`personal-workbench-controller.ts:1557`).

### Further disagreements the models show

The definitions named here are in the modules; giving a configuration the
constants in brackets makes TLC show the behaviour. They are not runs of their own.

- **Scheduler.** A scan asks the clock anew for every cell
  (`experiment-controller.ts:335`): a pause that ends between two cells of a
  connection starts the later one first, and `assertConnectionStartOrder`
  (`experiment.ts:1546`) refuses the finished result, though the comment at :309-311
  promises plan order. `StartedInTurn` says exactly that: a cell passes an earlier one
  only when a pause of their connection has just run out.
- **Repetitions.** A transport that throws after its own failed event makes
  `execute` reject (`EveryExitTerminal` with `late_break`;
  `chat-cell-executor.ts:145`). A wall clock set back during a decision gives a
  trace that its own schema refuses (`EndsSaveable`, `ClockSteps = TRUE`;
  `decision-run.ts:75`).
- **Sessions.** Continue goes on after the last tool without asking its
  generation (`ContinueWaits`; `use-run-session.client.ts:224`). Drafts are read when
  called (:223); exporting a decision's trace restores a stale note
  (`use-decision-session.client.ts:199`).
- **Publication.** A record discarded, retried, or selected while its Save
  cleans up (`~ calm`) may leave a child without its parent, a selection without its
  record, or never settle (`ChildKeepsParent`, `SelectionKeepsRecord`, `SettledOrReported`;
  `personal-workbench-controller.ts:561, 1564, 1570, 1686`, against
  `SHARED_ASSETS_LEVEL_TWO_DESIGN.md:416`). A selection whose rewrite fails names a record
  that is gone (`SelectionKeepsRecord`; :1637). A shared write that is reported failed
  though it landed drops the intent (:1550), and the next Save publishes the same
  words a second time (`standing.denied` in `NeverSavedTwice`;
  `use-project-workspace.client.ts:561`).
- **Tabs.** A tab adopts a file it read before the lock was its own (`stale`,
  `InitialBaseIsCurrent`; `use-project-workspace.client.ts:656`), loses what was
  typed during a handover's save without a banner, though it stays shown as unsaved
  until then (`type`; :458), and
  declines for another's request (`MaxAsks = 2`, `cancel`, `DeclinesForAnother`;
  `project-tab-coordination.client.ts:285`). A lock that is lost and comes back while
  the save of its handover still runs is handed over by that old handover, for the
  check after the save asks only whether some hold is there (:224), and the new hold
  began with `yielding` off. The next request of the tab itself then adopts at once,
  and the timer of the handover (:230) releases the lock with `handedOver` set, so
  nobody tells the tab (:198): it stays editor without the lock, and with its next
  lock over a file that others wrote (`late`, `MaxAsks = 2`, `MaxOpens = 3`,
  `ReloadedBaseIsCurrent`).
- **Workspace.** Typing beside a publication lets an older autosave overwrite the
  published document (`type`, `PublishedStays`; :1018); a failed autosave's own
  retry is dropped by the next edit's timer (`EditsGetSaved`; :1049); a draft recovered
  while its project is replaced lands in the new one (`recover` and `type`,
  `ProjectsApart`; :552).
- **Migration.** A Use this one that fails after the replaced draft was copied is
  refused for ever after a reopening (`personal-workbench-controller.ts:1379-1381`); one cut
  off under a new draft ID is not recognised, and its candidate can come back from
  the backup (`lapsed` exempts it).
- **Pinned baselines.** A pin before the pins were read replaces the file
  (`raced`); two changes in quick succession lose one, and a
  read beside a change shows the pins of before (`WritesDoOneThing` and
  `ShownPinsAreSaved` without their exception; `use-evaluation-baselines.client.ts:219`).
- **Command tools.** A helper that outlives its leader with the output open is not
  reached by `killTree` (`command-tool-runner.ts:69`): neither limit nor abort settles
  the call (`StopAlwaysSettles`), against :13, :57 and :130; the service's shutdown leaves it running.
- **MCP.** When requests overlap, the failure of one closes the client another
  uses (`CallsFailAlone`; `mcp-discovery.ts:203-206, 250-253`); a replaced idle timer may
  drop a newer client (:209); the pool's 300 s are shorter than the longest call; the
  byte budget is shared by overlapping requests (:187, :244, comment :218).
- **Seen while reading, not modelled.** Links from cases to their traces are read
  and written back without a check (`use-evaluation-case-source.client.ts:118-124`).
  Inserting a session's template edits an
  executed revision in place (`use-project-templates.client.ts:785`); imports adopt a document
  they read before an await (:968, :986, :1015).

## What is proved

All proofs are for arbitrary constants: any number of events, turns, attempts,
executions, calls, resources, windows, contents, requests and retries, any turn ceiling, plan,
limits and waits. The bounds of the MC configurations are guards that the proofs
never use, except where a type names one (`MaxChunks` in `CommandTypeOK`).

- **`Runs_proofs`, coordinator.** First the reducer (`ReducerKeepsRunSound`): for any
  run that satisfies `RunInv`, any event of a coordinator's making
  (`FromCoordinator`) that the reducer accepts leads to a run that satisfies it,
  whatever its number. `StatusFits`, `AnsweredInOrder` and `ServedOnce` are not
  inductive by themselves: a new attempt is unanswered only because no result can
  name an exchange that is unknown or still streams (`ResultsSettled`), and there is
  a current attempt only because begun turns are not empty (`TurnsBegun`).
  `RunInv` adds both, one lemma per kind of event shows it kept.
  Then the coordinator: `CoordinatorInv` is `RunInv` of the run, a next
  number that is never behind the run, and `StreamIsCurrent`. Each method
  applies one event of the kind the reducer's theorem is about (`Start` two),
  and either reduces it in step or drops it out of step. From it:
  `RunConsistent`, `TurnsAnsweredInOrder`, `CallsServedOnce`, and the action
  properties `RefusalIsFinal` and `SettledContentFixed`.
- **`Runs_proofs`, chat.** The executor is one of the coordinator's clients, so
  `CoordinatorInv` holds of its run. `ChatInv` adds where the executor is: no event
  is ever refused outside of `caught` and `thrown` (`PlaceInv`); a run that ended
  has no stream, and only the batch cancels it (`EndInv`); the calls still to serve
  are the ones the run waits for (`ServiceInv`); and none of them but the next was
  begun, an execution being open only while its answer is awaited (`ExecutionsInv`).
  There is one lemma per action. The next call exists because call indexes
  are well-founded. From it: `ChatEndsWithEvidence`, `ThrowsOnlyWhenCutOff`, and
  `PromisesKept`: every step is one of `Repetition` or stutters.
- **`ExperimentScheduler_proofs`.** `SchedulerInv`: the scan's counters are the
  numbers of busy cells (`CountersInv`), so limits hold and a drained schedule has
  nothing busy; the queue is what has not started (`QueueInv`); what is recorded of
  a cell follows from its stage, unless the run was interrupted (`EntriesInv`,
  `OutcomeInv`); and a connection's pause lasts to the end of its longest one
  until the run is aborted (`PausesInv`). From it: `SchedulerSafe`, `ResultIsTrue`,
  `StartsArePermitted`, and the step simulation of `Repetition` by each cell
  (`CellsKeepPromise`). `StartedInTurn` needs `TurnInv` as well: of the cells the scan
  has passed over, the connection is full or still paused (`Passed`); a full one stays
  full for the rest of the scan, and a paused one lets a later cell by only by its
  pause running out, which is the exception the property names. No assumption on the
  clock is used.
- **`Runs_proofs`, resource locks.** `ChainInv` adds to the type what the promises
  encode: each call found the call before it of its resource, or none that was
  open (`Linked`); everyone behind an open call waits (`OthersWait`); the tail is
  the last (`TailIsLast`). From it: `LocksSafe`, `ServedInOrder`.
- **`MCWorkbenchStore_proofs`, records.** `StoreInv` adds to the property that the last writer
  knows its bytes (`WriterIsRight`) that a closed window has nothing running, that
  host steps happen inside the scope, and that what a store expects is among the bytes
  its window saw. `WritesAreFounded` needs one thing more: between a check and its
  write the check still holds (`CheckStillHolds`), which is inductive only under
  `~ OutsideRaces` and because the scope has one owner.
- **`MCWorkbenchStore_proofs`, baselines.** `AccessInv`, of every folder that was not
  raced: reads have generations of their own and one write at a time is under way
  (`AccessesApart`); the read the page waits for finds a folder at rest
  (`ReadFindsPins`); what is shown as read is what the file held before a write
  lands (`ShownUntilWritten`), so the write will change the one pin it was asked for
  (`WritesAreSingle`). That folders do not harm each other, which is what the code
  promises, is the step of each lemma that compares two accesses.
- **`MCWorkbenchStore_proofs`, upgrade.** `MigrationInv` has one part per promise.
  `MigrationStages`: from its plan on an upgrade has a whole backup and activates only
  what is not settled. `MigrationCopies`: what a use replaces is copied before it is
  written, and a removal deletes only what is in place (`WordsSurvive`).
  `MigrationFiles`: a backup is staged in order, source first, and stands.
  `MigrationLives`: what is recorded as used was active. `MigrationSpent`,
  `MigrationSeen`, `MigrationShown`: what the user is done with is settled, what he may
  touch is settled or known to be lapsed, and what is not settled is offered or waits
  to be recorded, unless the backup is cut or being removed. One lemma per action of
  the upgrade, the controller and the crash shows it kept. From these:
  `FilesKeepWork` and `FilesKeepFaith`, without hypotheses on what fails.
- **`Runs_proofs`, decision.** `RunOK` says what a decision run looks like by each
  status, its last attempt's and its times; `CellInv` ties `pc` to it. Every
  transition keeps `RunOK` at the time it happens, and later times keep it
  (`LaterOK`) unless the clock is set back. From it: `EndsSaveable` under
  `~ ClockSteps`, and `OutcomeIsFinal`. `DecisionTurnInv` (the run has an attempt exactly when its
  cell has started) holds whatever the clock does and, with one lemma on which
  transitions add an attempt, gives `KeepsPromise`: the cell implements `Repetition`.
- **`MCSessions_proofs`, chat.** `SessionRun` is what a session relies on beyond
  `CoordinatorInv`: calls are pending only of a settled answer, and executions are
  numbered without gaps; all that a session makes of a coordinator keeps it, also
  from a superseded task. `SessionInv` adds three things that hold whatever the user does: a
  call that needs a word stays unserved until it is given, in every copy of the drafts
  (`Consent`); a run that is not live is over or gone (`Gone`); the autosave has had
  what ended (`Kept`). The rest (`Orderly`) holds until Continue is pressed
  while a request is in flight: a superseded task has only its last await left, or is
  aborted with the run ended (`StaleOver`), so that only the latest may move the run,
  and it stands where the run's status says (`LatestFits`, `ExecutionFits`); then no
  event is refused and Stop always finds an event it may make. From it: `SessionsTellTheTruth`,
  `ContinuesAsAsked`, `GoneStaysGone`, and the properties of the coordinator again.
- **`MCSessions_proofs`, decision.** `DrivesFit`: a drive that can still report is the
  last one begun and carries the run that is shown, so a late answer finds itself
  aborted or superseded. `DecisionHeld` is `RunOK` again, `DecisionKept` the truth of
  the storage notice, and `DecisionWaits` ties the wait the session shows to the one the
  last 429 asked for. From it: the decision's half of `SessionsTellTheTruth`, and
  `DecisionsKeepFaith`.
- **`WorkbenchPublication_proofs`.** Memory, files and queue agree only through what
  the queue still holds, so the invariants speak of it: `Elements` (what any
  operation will write), `SinceAwaited` (the operation a step waits for and those
  behind it), `LeavesS` and `InOrder` (where the selection ends after all of them).
  `IInv` holds whatever the user does: a step awaits one operation of its path, and
  no step none (`AwaitInv`); no two intents share a revision (`IntentsInv`); while a
  revision is on its way the file carries its intent or is about to (`KnownInv`); what
  was published as it stands is remembered as such by every copy (`OnceInv`).
  From it: `PublishedOnce`. `CalmInv` adds what a cleanup relies on: it finds the
  record it planned with (`CleanupInv`), the words typed last are in it or published
  (`EditsInv`, but for words typed beside a cleanup), the child has moved before its
  parent's file goes (`ChildInv`), so has the selection (`SelectionInv`), and who gives
  up reports it (`ReportInv`). The last three hold while the user is `calm`; for the
  other parts nothing is assumed of him. `PublishedOnce` needs that a Save cannot
  begin of a request that stands published unless its failure was told: after a
  write that landed and was reported failed, `standing.denied` says so, and `outdated`
  that this window publishes nothing more. From these: `RecordsLeadOn`, `NoLostEdit`.
- **`MCServiceTools_proofs`.** `CommandInv` adds to `CommandsEndTruly` what became of
  the processes by what was returned (`ProcessInv`: whoever is settled has reaped its
  leader, if it had one, and read all that was written) and that the reason to stop a
  command has happened by the time it is noted (`OutcomeInv`). `PoolInv` adds to
  `PoolIsSound` that a discovery that asks has the first turn (`TurnsInv`), without
  which giving it back would drop another's; that a client that connects belongs to
  one request and has no timer (`ClientsInv`), so a timer never closes it; and, while
  requests come one at a time (`AloneInv`), that only the pooled client is open, with
  its timer running exactly when nobody uses it and none lost. From them:
  `CommandsEndTruly`, `McpPoolSafe`.
- **`MCProject_proofs`, one window.** `WindowInv` speaks of each write in the queue, for
  what a window shows as saved is decided there long after its text was typed.
  `TruthInv`: writes that no later edit has outdated (fresh ones) stand behind those
  it has (`QueueInOrder`); a write that takes another's document acts only once it has
  read (`AsksBeforeItActs`); its document is of the project it lands in, and a
  publication takes the document of whichever project is open when it runs, so only
  a write that has read is held to that (`OwnDocuments`); and a window that shows
  nothing unsaved has its document in the file or in a fresh write (`SavedDocuments`).
  `KeptDocuments`: what the folder's file holds is in the document of every write
  behind it, up to revisions and what the user gave up, which makes landing in
  order safe. `OuterDocuments`: the same of what other programs wrote, that is known
  to a handle only after it was read. From it: `WindowTellsTheTruth`,
  `WindowKeepsEdits`, under `"recover" \notin WindowHabits`: a recovered draft
  saves whichever project is open (see the disagreements).
- **`ProjectTabs_proofs`, tabs.** Nothing holds of a tab alone: what it believes lags
  behind the lock manager, so `TabsInv` relates a tab's state, the answers on their way
  to it, the lock's holder, the queue of the waiting, and the file (`TabSound`).
  `Alternates`: between what the tab believes and what the lock manager knows, holds
  begin and end in turns. `Roles`, `Beginning`, `Answered`: an editor holds the lock or
  will hear that it ended, a handover saves once, and "adopt" reaches only a tab that
  still holds. `Growing`: from the file through the queued saves to the screen
  documents grow, which makes every save that passes the comparison keep what was
  there. `Agreed`: what an adoption throws away was agreed to, or is in the file.
  `Current` and `Alone`: what a tab read to become editor is the file as long as its
  hold lasts, because no other tab's save is past its fence. `OneSave`: the answer to
  the save in the write scope comes once, to its tab. One lemma per action shows
  `TabsInv` kept until a lock comes back late (`returned`), and every step keeps
  `returned`, so the invariant is `returned \/ TabsInv`; `MCProject_proofs` concludes
  `TabsTellTheTruth` for all habits and, with the windows', `EditsKept` (under
  `"late" \notin Habits` and `"recover" \notin WindowHabits`).

The assumptions are those the modules name on their constants
(`CallIndicesAssumption`, `BoundsAssumption`,
`StoreAssumption`, `NothingAssumption`, `MigrationAssumption`, `BaselinesAssumption`, `NoneAssumption`, `UnsetAssumption`,
`SessionAssumption`, `SessionsAssumption`, `DecisionCellAssumption`, `SchedulerAssumption`, `PublicationAssumption`,
`CommandAssumption`, `PoolAssumption`, `WindowAssumption`, `TabsAssumption`,
`ScopeAssumption`), and `~ OutsideRaces`
(of `WritesAreFounded`), `~ ClockSteps` (of `EndsSaveable`), `"recover" \notin WindowHabits`
(of a window) and `"late" \notin Habits` (of `EditsKept`) where said.

Only model-checked: all liveness properties, which are out of the prover's reach, as
is ENABLED.

## Plan

1. Done: every module above.
2. Next models: recovery of conflicting personal copies and the carry of an
   upgrade; session-only documents; the project document's edits against its parser.
3. Next proofs: `EditsKept` of tabs whose locks come late, as `TabsTellTheTruth` is.

## What is not modelled, and why

Parsing, serialisation, formatting, templates, pattern matching, checks and
evaluations are pure functions of data, better tested than modelled; they are
most of the repository's lines. Views and view state follow from the models'
state. The stores of the API service are sequential reads and writes of one small
file each. Overlapping calls of `run()` on one controller cannot happen in the
code's callers. The Windows branch of `killTree` is one external command.

## Running

    tlc -workers 2 -config MCSessions.cfg MCSessions
    tlapm Runs_proofs.tla

Operators whose name ends in an underscore and words (`Retry_same_attempt`) are
plausible slips in the operator they are named after; no specification uses
them. Putting one in its place makes the property it is paired with in
`PROJECT.json` fail, which shows that the property can.
