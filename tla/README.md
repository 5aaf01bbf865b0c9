# Verification of the diaodu dispatcher

diaodu dispatches robots: operators draw workflows in a browser, a C++ backend
(`backend/`) runs them against robots over rosbridge WebSockets and SSH, and
keeps its state in PostgreSQL.  This directory holds TLA+ models of the backend,
TLC configurations that check them and TLAPS proofs about them.

## The system

| component | state | operations | interacts with | hard behaviour |
| --- | --- | --- | --- | --- |
| WorkflowExecutor (`workflow/workflow_executor.cpp`) | timer queue, event gates, callback gate; everything else is in the database | start, bootstrap, activate, complete, fail, follow edges, repeat, retry, cancel, decide, inject | repository (one transaction per call), RobotRuntime and ControlledSshExecutor (commands, callbacks), itself (parent and child runs) | handlers of several threads work on copies of a run loaded once; timers and callbacks are in memory |
| Edge join (`workflow/edge_join.hpp`) | none | `evaluateJoin` | called by `followEdges` | states and traversals of the right cycle |
| Runs in WorkspaceRepository (`db/workspace_repository.cpp`) | workflow_runs, node_runs, command_runs, workflow_events | create, next cycle, update, transition, complete | PostgreSQL | unconditional updates; unique keys |
| Definitions and versions (same file) | workflow_definitions, workflow_versions, capability_templates | create, save, publish, delete | API | transactions of several statements that overlap; a row picked as the draft may be published before it is written |
| Scenes, maps, stations, robots (same file) | scenes, map versions and their files, scene_robots, stations | import, activate, archive, replace, delete | API, map import | what was read is old when it is used; files are not part of a transaction |
| ResourceArbiter (`domain/resource_arbiter.cpp`) | the lease table, under one mutex | tryAcquire, release | callers of the domain library | merged claims, exclusivity |
| ExecutionRuntime (`concurrency/execution_runtime.cpp`) | strands per robot, two pools, delayed timers, accepting flag | postRobot, postRobotAfter, postParallel, postBlocking, join | RobotRuntime | posting while joining, order per robot |
| RobotRuntime (`ros/robot_runtime.cpp`) | a session per robot, battery tasks, interface cache | refreshConnections, ensureRobot, dropRobot, dispatch, navigate, cancel, discoverInterfaces | sessions, executor callbacks | result, cancel and a lost connection of one goal; lock order |
| RosbridgeSession, ConnectionStateMachine (`ros/rosbridge_session.cpp`, `domain/connection_state.cpp`) | subscriptions, pending services and actions, connection state | subscribe, callService, sendActionGoal, handleIncoming, onTransportConnected, onTransportClosed | transport | calls pending when the connection drops |
| BeastTransport (`ros/beast_transport.cpp`) | worker thread, socket, flags stop and connected | start, stop, requestReconnect, sendText | session | handlers of an older connection, silent connections |
| ControlledSshExecutor (`remote/controlled_ssh_executor.cpp`) | the locals of a job on the blocking pool | execute | executor, ExecutionRuntime | one deadline for steps, checks and retries; shutdown |
| FeedbackTriggerGate, event specs (`workflow/feedback_trigger.cpp`, `event_spec.cpp`) | previous condition, firings, last firing | evaluate, reset | executor | rising edge, cooldown, limit |
| HTTP API (`api/register_routes.cpp`) | none | about eighty routes | all of the above | requests run concurrently |
| Pose cache and mapper, map import, type definitions, connection config, ops log, PgPool, start-up, frontend | small or none | parsing, geometry, formatting, CRUD | | sequential |

What makes each part correct: a run visits its graph in the order the edges say,
every node once per cycle, and comes to an end for a reason; a robot has at most
one open command per node run and retries are bounded; a decision, a
cancellation and an end are final; a parent learns how its child ended; no two
leases conflict; one completion per goal; every accepted task runs and no task
runs after shutdown; a robot has one connection and the database knows its state;
a workflow has one draft and its published versions never change; a robot is in
one scene.

## Modules

| module | models | of |
| --- | --- | --- |
| `WorkflowGraph` | the graph of a run, the join rule | `workflow/edge_join.hpp` |
| `WorkflowExecutor` | every handler that changes a run, on copies | `workflow/workflow_executor.cpp` with the run tables of the repository |
| `WorkflowPromise` | abstract: runs without threads, copies, commands or timers | implemented by `WorkflowExecutor` |
| `ResourceArbiter` | the lease table | `domain/resource_arbiter.cpp` |
| `ResourceLocks` | abstract: readers-writer locks taken all at once | implemented by `ResourceArbiter` |
| `ExecutionRuntime` | strands, two pools, delayed tasks, `join()` | `concurrency/execution_runtime.cpp` |
| `RobotQueues` | abstract: a queue per robot, served one task at a time | implemented by `ExecutionRuntime` |
| `SshExecutor` | SSH jobs, composed with `ExecutionRuntime` | `remote/controlled_ssh_executor.cpp` |
| `BeastTransport` | the transports of a robot and their worker threads | `ros/beast_transport.cpp` |
| `RosbridgeSession` | sessions on these: connection states, subscriptions, service calls | `ros/rosbridge_session.cpp`, `domain/connection_state.cpp` |
| `RobotConnection` | how a robot is kept connected, composed of both | the connection half of `ros/robot_runtime.cpp` |
| `FeedbackEvents` | event specs and trigger gates, as operators | `workflow/event_spec.cpp`, `workflow/feedback_trigger.cpp` |
| `RobotDispatch` | commands to robots and their answers, with the locks on the way | the dispatch half of `ros/robot_runtime.cpp`, the handlers of `rosbridge_session.cpp`, the callbacks of `workflow_executor.cpp` |
| `SceneCatalog` | scenes, map versions and files, robots in scenes, stations | `db/workspace_repository.cpp` and its routes, `maps/map_import_service.cpp` |
| `Catalog` | workflows and versions, capabilities, station actions, on top of `SceneCatalog` | the same |
| `MC...` | the instances TLC checks | |
| `..._proofs` | theorems and their lemmas | |

An operator defined just before one that it resembles (`LastCycleOffByOne` before
`LastCycle`) is a plausible mistake in that code; PROJECT.json says which property
finds it.  No specification uses it.

### WorkflowExecutor

Every handler of the executor loads a run by `getWorkflowRun` (one transaction)
and then works on that copy; each change is written back by a transaction of its
own and nothing is read again.  This is what the model keeps.  A thread (an HTTP
worker, the timer thread, the callbacks) has a stack of frames; a frame holds
the loaded copy (`snap`) and the calls still to be made on it (`todo`); a step
of a thread makes one call, and so accesses the database at most once.  Calls
into another run (a child, a parent, a run that waits for an event) push a frame
with a copy of their own.  The tables are `run`, `node`, `traversed`, `decided`
and `cmd`; the timer queue is a bag, since delays differ and any task may be the
next one due.  The callback gate (`callback_gate_->mutex`) is `gate`: ROS
results, SSH results and the DELAY task hold it from start to end, HTTP requests,
the retry task and the next-cycle task do not.

Each action is named after the function it models, or the part of `executeNode`
for one kind of node; PROJECT.json gives the lines.  `executeNode`'s node types
are classes of those with the same control: CONTEXT is ROBOT or STATION, INVALID
any node whose configuration is rejected, UNRENDERED a capability whose request
template does not render, SSH also stands for ROBOT_STARTUP and ROBOT_SSH (retry
0), ROBOT_CAPABILITY for STATION_ACTION too.

The robot and the SSH worker are the environment here (`RobotDispatch` and
`SshExecutor` have their inside): they take or refuse a command, and a command
they took may be answered once (`cmd[i].live`).  A restart empties stacks,
timers and live commands and leaves the tables.

Left out: `advance()`, which nothing calls; `start_workflows` of FEEDBACK specs;
exceptions of the database; filters of injected events (business key, target
run), the signals' own deduplication, `completed_cycles`, payloads and times.
The slots of `Run` bound how many runs are created; an event whose slots are all
taken starts nothing.  The pre-check of the next-cycle task and
`createNextWorkflowCycle` are one step.

### ResourceArbiter

`leases` maps the ids of active leases to their owner, robot, blocking type and
merged claims; one mutex makes each operation a step.  `Request` enumerates
valid and invalid requests; `Refuse` is `tryAcquire` returning without a lease.

### ExecutionRuntime and SshExecutor

The pools, strands and timers of Boost.Asio are modelled by what the runtime
relies on: a strand runs its tasks one at a time and in order, a pool has so many
threads, `thread_pool::join()` returns when nothing is left.  A post function
holds the lifecycle mutex, so it is one step; `join()` is the four it makes
outside of it (`BeginJoin`, `CancelTimers`, `JoinProtocol`, `JoinBlocking`).
`status` follows a task from `new` to `done`, `refused` or `dropped`; the last is
a delayed task whose timer `join()` cancelled.

`SshExecutor` extends the runtime: its jobs are tasks of the blocking pool, and
while such a task runs, `Attempt` is one process of `runProcess`, with its
outcome and the time it took.  `elapsed` stands for the steady clock since the
start of the job; a process that is killed takes its time and `Grace` for the
SIGTERM.  What the tests on hosts, keys and command texts accept is the Booleans
`target` and `safe`; scripts, output capture and environment are left out.

### BeastTransport, RosbridgeSession, RobotConnection

One robot, which `POST /robots` has just added.  Its row may change (`ChangeRow`),
which posts a refresh to the blocking pool; `refreshConnections`, `ensureRobot` and
`dropRobot` are the steps of a `Manager` thread between the locks they take.  The
pool has two threads (`app_state.cpp:35`), and every thread that sends a command
calls `ensureRobot` with the copy of the row that it has read (`robot_runtime.cpp:732`,
`:1148`): these are the `Dispatcher` threads, and `BeginCommand` the call.  It does not
look whether the robot is enabled.  Each session that was ever
opened has a transport whose worker resolves, connects, shakes hands, reads,
reports and starts again until it is stopped.  What the worker reports is posted
to the robot's `strand`, which outlives sessions; hence the question in which
order the reports of an old session and of its successor arrive.  `alive` says
whether the network carries what is written: a connection can be silently dead
until the keep-alive pings end it.  `peer` is the set of topics the robot serves
on this connection, to compare with `subs`, what the session counts on.
A scan of the robot's interfaces is a `Scanner` thread: two service calls that
wait, and one forced reconnect.

The handler that the connection timer leaves in the io_context refers to locals
of a scope that was left: `RunLeftover` lets it end the next cycle or not.
`tick` and the session's own reconnect timer have no caller and are left out;
`max_attempts` is 0 everywhere.

### FeedbackEvents and RobotDispatch

`FeedbackEvents` has the pure part of events: which specs are valid, which apply
to a node, when a condition holds, and how a gate goes on.

`RobotDispatch` follows one run's commands on every thread that takes part: the
HTTP thread that starts or cancels the run, the timer thread with a DELAY, and the
protocol pool's workers that handle messages.  A dispatch writes the rows, then
sends under `mutex[robot]` (`session_mutex`), then marks the command; an answer
that arrives in between is handled by another thread.  A worker that handles a
message holds the robot's mutex for as long as it calls handlers, and each
handler takes the callback `gate`; that is the order `callback_deadlock` is about.
`listening` and `pending` are the session's tables of handlers.  Messages of a
strand are in order; a service response is a task of its own.  The robots and
rosbridge are external: they report a verdict, repeat it, send feedback late,
send navigation results that are not terminal, or lose the connection with all
that was due.  `Anonymous` servers put no goal id into their results.

A run in `RobotDispatch` has one command per node and no joins, since
`WorkflowExecutor` has those; `Starts` says what a success dispatches.  A `link`
that goes down and up stands for all of `RobotConnection`.

### SceneCatalog and Catalog

The HTTP threads run transactions at READ COMMITTED.  A request is a sequence of
steps at its statements: the reads before it writes, each write that others can
meanwhile interfere with, and the commit.  What was read stays in the thread's
locals (`thread[t]`) and may be old when it is used.  Unique keys and foreign keys
are conditions of the writing step, deletions follow the `ON DELETE` rules of the
migrations.  Saving a workflow updates the definition and then the draft,
publishing updates the draft and then the definition: they are the two requests
that hold row locks (`deflock`, `rowlock`) over several statements, and
`AbortVictim` is PostgreSQL breaking the deadlock they may run into.  `file` is
the directory of map files, which no transaction protects.

Identifiers are never reused (`Unused`, `Deleted`), a version number of a map may
be.  `spent` numbers the requests, so that a graph or an import can be named by
the request that made it.

## Properties

| property | says |
| --- | --- |
| `PromiseKept` | each write to the run tables is a step of `WorkflowPromise`: nodes start when all success and event edges of their cycle, or a failure edge, lead to them, end once, edges are taken after their source, cycles follow an END, runs succeed in the last cycle after an END and fail after a node failed |
| `NoStrandedJoin` | when nothing is left to do, no node of a running run is PENDING with its incoming edges satisfied |
| `OneOpenCommand`, `RetriesBounded` | one open command per node run, at most retry_count + 1 commands |
| `OnePlace` | a run whose workflow has no parallel branches is carried on by one thing at a time: one call of one thread, one timer task, one command at a robot or one open confirmation; a command is open only while it is what carries the run on |
| `EndedRunStaysEnded` | no handler brings an ended run back |
| `CyclesBounded` | at most loop_count cycles |
| `RunEnds` | every run comes to an end |
| `DecisionRecorded`, `DecideOnce` | confirmations end by a decision, of which only the death of the process between the two transactions loses the record; a recorded decision stands |
| `SubflowSettled`, `ParentTold` | a SUBFLOW node ends as its child did; a running parent does not wait for an ended child, unless the process died before it was told |
| `TypeOK` | types, and every pending call addresses rows that exist |
| `NoConflict`, `BlockingTypesRespected`, `LocksSpec` | leases exclude each other by claims and by blocking types; the arbiter is a set of readers-writer locks |
| `Drained` | when `join()` returns, every accepted task has run or was a cancelled timer |
| `RobotQueuesSpec` | the tasks of a robot run one at a time in the order they became due |
| `SuccessIsEarned`, `StartedOnce`, `DeadlineKept` | an SSH job succeeds only after all steps and checks in order, repeats no startup step, and holds its thread no longer than its timeout and one SIGKILL |
| `JobsAnswered` | every SSH job that was accepted is answered, during shutdown too |
| `OneConnection` | at most one transport is at work for a robot |
| `SubscriptionsRestored` | while a connection is up and nothing is under way, the robot serves what the session counts on |
| `StatusSettles` | when nothing is under way, the row says ONLINE exactly while a connection is up, unless a scan wrote it last |
| `PendingHasCaller` | no service call stays pending without a thread that waits for it |
| `DroppedIsQuiet` | a delayed battery task does not revive the sampling of a dropped session |
| `RefreshTakesEffect` | the last change of a row takes effect and leaves nothing of its predecessors at work |
| `LostOnlyByInstall` (proved, in no run) | however many threads replace sessions, a transport at work loses its owner only where one installs its session over another's |
| `InstalledIsKept` (proved, in no run) | however many threads replace sessions, none is ever shutting down the one that is installed |
| `OwnVerdict` | a handler gets at most one verdict, that of its own goal, and no later write of the dispatching thread hides it |
| `FiringsEarned` | events fire on rising edges only and no more than `max_firings` times in the life of a command (of the first spec with the event's name), messages after the result included |
| `OutboxSettles` | the outbox row of a decided navigation goal that was sent under the gate tells how it ended |
| `NoLockCycle` | a message handler that waits for the callback gate is not waited for by its holder |
| `NoVerdictLost` | while no connection is lost, no verdict is |
| `OneScenePerRobot`, `PlacesAgree` | a robot is in one scene; robots, scenes, maps and stations refer to each other consistently |
| `NewestIsOnlyDraft`, `SaveKept`, `PublishedFrozen` | a workflow has one draft, its newest version; a save is in some version; a published version never changes |

## Runs

Each run is an instance built for its question; slots, threads and requests are
the smallest numbers at which the racing actors exist.

| run | instance | shows |
| --- | --- | --- |
| `calls` | a parent with two cycles, a delay, a call, two ENDs; children with a retried capability, a navigation and a join by a result event and a success edge | cycles, subflows, joins and retries keep the promise under all interleavings of HTTP thread, callbacks and timer; every run ends |
| `operators` | one of five workflows: confirmations in sequence; a confirmation beside a waiting branch; an SSH job that a confirmation leads back to; a capability, a navigation, a topic and a delay with a way back; a parent and a navigating child; two operators, two decisions, one cancellation of the parent or the child, one restart | decisions are recorded, unless the process dies between writing and recording one, and recorded ones are final; a run without parallel branches is in one place at a time, whatever is decided twice, retried, answered or lost; cancelling at any moment does not bring a run back, and parents are told |
| `events` | four runs linked by a signal and an SSH result | waiting runs, triggered runs, topics, feedback and failure events, broken nodes |
| `arbiter` | three leases, two robots, a lift | exclusivity with merged claims |
| `ssh` | two robots, two protocol threads, one blocking thread; two SSH jobs, one of them invalid, and two other tasks | the runtime is drained, jobs are answered in time and honestly, robots are served in order |
| `connection` | one robot with two endpoints, two sessions, one thread that refreshes and dispatches and one that scans, one change of the row or one command, one scan | while refreshes do not overlap, sessions are replaced, connections lost and restored without a trace |
| `dispatch` | two robots, two workers, a topic, a service, three actions, a navigation, one lost connection, one cancellation | answers reach their own command, once, whatever their order |
| `catalog` | two HTTP threads, any three requests on two scenes and a third one to create, two robots and a third, two stations, two workflows, two capabilities | the tables agree and versions stay what they are under overlapping transactions |
| `lost_join`, `callback_deadlock`, `two_refreshes`, `navigation_retries` | the smallest instance that shows it | what the program does against what its documents and its user interface say |

Bounds, and why they are enough:

* slots of `Run`, `Budget`: one run per graph; a second of any would not share
  rows with the first except by events, which `events` has.
* `Requests = 3`, two threads: the races of the repository are between a request
  that has read and one that writes; the third request sets up, or follows, such a
  pair.  `api/main.cpp` starts two HTTP threads.
* `StrandBound = 2`: a transport that reports an end waits while two lifecycle
  events are due, so that the strand cannot grow for ever; two are enough for the
  end of an old session and the start of its successor to be there together.
* `Changes = 1`, `Scans = 1`: one replacement of a session while it is connected,
  scanned and sampled.  With two endpoints and `Off` the change is any of the
  three kinds.  `Changes` also counts commands: there is one of them, or a change of
  the row, beside the refresh of the robot that was just added.  A command then
  finds the row enabled; one that follows a change to `Off` connects the robot until
  the next refresh, and `RefreshTakesEffect` says nothing of the time between.
* One `Manager` in `connection`, which is the `Dispatcher` too: with two of them the
  properties about the session that is at work do not hold, which `two_refreshes`
  shows.  The theorems are about any number of them, and say what is missing.
* `Says`: besides its verdict a robot sends two messages about one action, enough
  for feedback before and after a result, and for a result that is repeated.
  The other commands are answered once.
* `Drops = 1`; `DelayAfter = b`: the DELAY begins when the second action is done,
  so the navigation overlaps what is still under way of the actions and not all of
  the run.  In `callback_deadlock` it begins with the run, on one robot.
* `operators`: two operators decide on copies of their own; the second decision is the
  one that comes too late.  One of the five workflows is started.  Only the parent and
  its child are cancelled (`Cancellable`), since with the others the instance grows
  beyond minutes: `OnePlaceHolds` has cancellations of any run.  They have no ROBOT or
  STATION node, which would undo a cancellation (see Findings).
* No passing run with a bound on retries retries a NAVIGATION: `navigation_retries`
  shows why.
* `calls` does not name `ParentTold`: there `RunEnds` fails without it, and `operators`
  checks it.
* SSH times are small numbers: two attempts fit into the timeout of job `j1` and
  all it asks for do not.

### Findings

PROJECT.json quotes the documents.

* `lost_join`: a join loses its last arrival when two branches complete on copies
  that do not contain each other's completion.  The join in `calls` is safe
  because its branches are both completed under the callback gate; one branch in
  `lost_join` is completed by an HTTP thread, which does not take it.
* `callback_deadlock`: a message handler holds its robot's session mutex and takes
  the callback gate; a DELAY task holds the gate and dispatches to the robot.  In
  `dispatch` the DELAY dispatches to another robot.
* `two_refreshes`: a refresh that read the row before it was disabled installs its
  session after a later one has swept; the robot stays connected.  The same overlap, of
  two refreshes or of a refresh and a command, leaves a transport without an owner where
  the second session is installed over the first (`robot_runtime.cpp:544`), and that one
  reconnects for ever.
* `navigation_retries`: the dispatch of a NAVIGATION node replaces the output that has
  `command_attempt` (`workflow_executor.cpp:1459`); a node with one retry is dispatched
  a third time, and so on.

Two more follow from the modelled steps, and no run is about them:

* a ROBOT or STATION node writes the state of the run that its copy has
  (`workflow_executor.cpp:1182`, `:1196`), and a run that was cancelled since the copy
  was loaded is RUNNING again and goes on, though the operator was told "运行已取消"
  (`RunsView.vue:459`: the run has been cancelled);
* two imports into a scene may be given one version number (`register_routes.cpp:1866`);
  the files are written before UNIQUE (scene_id, version) refuses one of them, so those
  of the other version may be replaced, though README.md:21 speaks of immutable map
  versions.

### Behaviour that is modelled and may surprise

No document promises otherwise, or one says they are unfinished:

* a result is matched by node run and applied by node key
  (`workflow_executor.cpp:814`): with `loop_count` above 1 a late one completes a
  node of the next cycle;
* a rejected confirmation fails a child run without telling its parent
  (`:1939`);
* a rejection cancels other confirmations by an old copy (`:1929`), one that was
  approved meanwhile included;
* a decision is applied to a copy that may have been loaded before the node became
  PAUSED (`:1867`); the rest of the run then goes on from that copy, and a node it
  shows as PENDING is dispatched although it had been;
* a lost connection loses the answers that were due, and nothing times them out
  (`rosbridge_session.cpp:51`; README.md:381 lists reconciliation as missing);
* results without a goal id count for any goal of their topic
  (`robot_runtime.cpp:1093`): two navigations of one robot share a verdict;
* a scan that found no answer writes DISCONNECTED even if the connection has
  recovered (`robot_runtime.cpp:1398`);
* a command to a robot that is disabled connects it until the next refresh
  (`robot_runtime.cpp:732`, `:1148`);
* a scene can come to show an archived map, a graph can keep the id of a deleted
  capability (`workspace_repository.cpp:762`, `:2108`).

### Deadlock and fairness

Deadlock is not checked: in all these systems the environment makes a bounded
number of requests, and when they are answered nothing is left to do.
`NoStrandedJoin`, `ParentTold`, `RunEnds`, `JobsAnswered`, `NoVerdictLost` and
`NoLockCycle` say what must hold then.

Two specifications state fairness.  `WorkflowExecutor!FairSpec` (run `calls`):
threads that can go on do, due timer tasks fire, and a command that was accepted
is answered.  The first two are the operating system and the timer thread.  The
third is an assumption about the robots: an SSH job does have a deadline
(`DeadlineKept`, `JobsAnswered`), but the robot runtime has no timeout for
services, actions or navigation goals, so `RunEnds` is about robots that answer
while they are connected.  Operators are never forced to act: the run has no
confirmations, no cancellation and no restart (timers lost by a restart are a
documented limitation).  `SshExecutor!FairSpec` (run `ssh`): pool threads take
tasks as long as there are any, timers fire, tasks end, `join()` goes on once
called; that it is called is not assumed.

## Proofs

Every theorem holds for every value of the constants that satisfies the named
assumptions.

`ResourceArbiter_proofs`: from `ArbiterAssumption` alone (additional claims are
sets of claims, the empty name is no name), for any number of leases, robots and
claims.  The inductive invariant `IInv` joins `TypeOK`, `NoConflict` and
`Grounded`, which says that the claims of a lease are merged and contain the
default claims of its type, possibly made exclusive.  `Grounded` is needed
because `NoConflict` alone says nothing about what a lease of a blocking type
must claim: `BlockingTypesRespected` follows from the two together.
`ImplementsLocks` maps each step to taking all locks of a lease, dropping them,
or a stutter.

`WorkflowExecutor_proofs`: from `GraphAssumption` (edges join nodes of their graph,
`loop_count` is at least 1, attributes are of their types) and
`ExecutorAssumption` (what operators start and cancel are runs, HTTP threads are not the
timer or callback thread, budgets are numbers), for any number of runs, graphs,
HTTP threads and requests.

* `Typing`: `TypeOK` is inductive.  It says more than that rows have their fields:
  each call that a frame of some stack, or a timer task, still has to make
  addresses a node run, an edge or a command that exists, although the copy the
  frame works on may be older than the tables.  The tables alone do not make the
  next step type correct, hence the typing of stacks by frames (`StackFrames`)
  and the fact everything rests on: node runs and commands are never deleted and
  never change hands (`Grow`), so frames of other threads stay well typed
  whatever a step writes (`FramesGrow`).  A step replaces the stack of its own
  thread only (`StackSet`; `Returned`, `Entered`, `Thrown`, `Started` for the
  ways it does), and one lemma per action (`Step...`) gives the frames and rows
  it writes.
* `CyclesBoundedHolds`: the strengthening `CyclesOK` adds that a task for the next
  cycle is scheduled for a cycle of at most `loop_count`.  `CyclesBounded` alone is
  not inductive, since the task that creates the cycle looks at the number of
  attempts and not at `loop_count`; that `finishOrRepeatWorkflow` compares an old
  copy with it does no harm, because the task is scheduled for that copy's cycle
  and gives up if the attempt exists.
* `DecisionRecordedHolds`: the invariant `HandlersSuit` says that nothing which could
  complete or fail a confirmation ever addresses one: no call that a frame still has
  to make, however old the frame's copy, no command, no timer task, no parent of a
  child run, no list of waiting nodes.  `activateNode` pauses such a node whatever
  else is stale, so the invariant does not depend on copies being current, which is
  why it is inductive where the invariants about joins and children are not.  What
  remains is that a step takes no record away (`StepRecords`); a restart may.
* `SinglePassStaysEnded`, `EndedRunStaysEndedHolds`: `EndedRunStaysEnded` is not true
  of every graph (a ROBOT or STATION node writes back the state it loaded, and so does
  an END of an earlier cycle), and the theorem says that these two are all there is: a
  run whose graph has neither, in any company, stays ended.  Cancellations, failures,
  late results, the end of a child, a second END: whatever else writes the state of an
  old copy writes an end.  `HandlersSuit` has the two facts this needs, of every frame of every thread:
  `updateRunContext` is called for nodes with a robot or a station only, and no copy is
  of a cycle before the first, so `finishOrRepeatWorkflow` takes the cycle
  of a single pass for the last one, however old its copy is.

`TypeOK` and `HandlersSuit` carry three more facts for the module that follows: the
commands that a frame's calls name are of its run (`CallsOn`), a timer task is of a run
that exists (`TimerOK`), and only nodes of the types that wait are made to wait.

`SequentialRuns_proofs`: from the same assumptions, for any number of runs, threads and
requests.  Nothing in the executor keeps two handlers of a run apart: there is no lock
per run, and what a handler loaded is not read again.  For a workflow without parallel
branches nothing has to, and these theorems say why.

* `OnePlaceHolds`: `OnePlace` is true of every reachable state, and `Alone`, which is
  `OnePlace` of one run, is inductive given `Typing` and `HandlersStaySuited`.  Whatever
  can carry a run on is a token: a call in some stack that is not yet made, a timer
  task, a command the robot still has, a PAUSED row.  A token in a stack is named
  by its place counted from the bottom of the stack and from the end of its list of
  calls, so that what is pushed above it or made before it does not rename it
  (`PlacesKept`).  A step of another run leaves the tokens of a run alone; a step of its
  own either uses up the token it is at and leaves one at most (`Goes`), or was not at a
  token and leaves those there are or fewer (`Fades`).  An edge that is followed leaves
  one token because no two edges of a kind leave a node.
* `OneOpenCommandHolds`: hence, if all runs are such, no node run has two open commands.
* `Sequential` is their hypothesis: at most one edge of each kind leaves a node, no
  event edges, no EVENT_WAIT and no SUBFLOW nodes.  It excludes what can make the
  statement false: two branches work on copies that do not contain each
  other (`lost_join`), and events and children bring in handlers that the run
  did not call.  Retries, cycles, confirmations, failure edges that lead back,
  cancellations, restarts and any number of other runs of any kind are in it.
* `RetriesBoundedHolds`: `RetriesBounded`, if all runs are `Counted`, and
  `CountedRetriesBoundedHolds`, which has the same for the counted runs among others of
  any kind.  `RetriesBounded` speaks of a table of commands that `scheduleNodeRetry` never
  reads: it looks at `command_attempt` in its copy.  The inductive invariant `Counts`
  closes the gap.  A row bounds its commands by its attempt (`RowCounts`), a retry task
  is of a node that has an attempt left (`TasksCount`), and the copy of every call that
  carries the run on has the attempts of the rows and knows which nodes have not
  started; a call that is going to dispatch has an attempt without a command
  (`CallCounts`).  Copies of other handlers may be as old as they like.  `Alone` is
  needed where an attempt is counted: `dispatch` and `again` write the row, and a second
  handler of the run would be left with the count before (`TurnCounts`); every other
  step leaves attempts and commands as they are (`Steady`).
* `Counted` is `Sequential` without confirmations and without retries of NAVIGATION
  nodes.  Both can break the bound: a decision is recorded on a copy loaded before
  it, with the old `command_attempt`, and a navigation that is dispatched replaces the
  output that holds it.

`SshExecutor_proofs`, first half, about the runtime alone: from `RuntimeAssumption` (there are threads, the names of
strands, robots and pools are apart), for any robots, tasks and threads.  The
invariant joins `RuntimeTypeOK` with three facts: no two robots have one strand and
a task is on the strand of its robot (`StrandsOwned`), a queue holds exactly the
queued tasks of its lane, once (`QueuesHold`), and a strand runs one task
(`OneTaskPerStrand`).  The first and the last give `RobotsSerialized`, all of them
the refinement `RuntimeImplementsQueues`, where a task enters the abstract queue
when its timer fires and not when it is armed.  `ShutdownDrains` needs
`DrainedInOrder`: timers are gone before the protocol pool is joined and that is
idle before the blocking pool is, and since `accepting` is off nothing is added.

Second half, about its jobs: from this and `SshAssumption`, `ProfileAssumption` (the types
of a profile's fields).  `JobsOnRuntime` shows that jobs move the runtime only by
its own steps, so the theorems above hold in the composition.  The invariant `JobInv` about
a job says where it is in its plan (`Placed`), that its results are its attempts in
the order they were made, none twice (`Ordered`), that it leaves a step behind only
with a result that is ok (`Earned`), and its time (`InTime`).  `Ordered` is needed
for `StartedOnce`: a step with one permitted attempt has one result only because
no attempt is recorded twice.  `OnlyValid` says that a job that was posted is one
that `validateRequest` let through; all the others are about such jobs.

`Catalog_proofs`: from `SceneAssumption` and `CatalogAssumption` (the rows there are
at first are rows, `None` is no thread, no id and no number, the marks of missing rows
are two and are no rows).  `RobotsInOneScene` is inductive by itself.  `NewestDrafted`,
`NoSaveLost` and `PublishedStays` come
from one invariant `IInv`: every version list is `Sealed` (a draft at its end and
nowhere else) and `Kept` (it contains the last save), and a thread that saves or
publishes holds the row lock it took and the number it read is still the newest
version (`LocksHeld`).  The last part is what makes `PublishedFrozen` true and needs
all requests that could interfere: a publication completes only when nobody holds
the definition, and a deletion only when nobody holds either row.

`OneStory` states `PlacesAgree`.  Its invariant has two halves.  `TablesAgree` is the
property with the types of the rows.  `Remembered` is what makes the writes safe
although they use what an earlier statement read: the map that a request will activate,
or give to robots, either is still of the scene it read it for or is gone (`Tells`); the
rows a replacement closes are of its scene; the two stations of an action are in one
scene as long as both exist (`Together`); an import has a number that no map has yet
and no other import (`NumbersAhead`, `ImportsDiffer`).  They last because a map
never changes its scene nor a station its map, and no id is used again: `Grows`, proved
of every step.  The conditions of the writes (foreign keys, the unique index on open
rows) do the rest, and `OneScenePerRobot` is not needed.  `LargestExists` (a bounded set
of numbers has a largest) comes from the well-foundedness of the order of the numbers.

`RobotConnection_proofs`: from `ConnectionAssumption` (the marks of no session and
of a row that is off are neither sessions nor endpoints), for any number of
sessions, threads, calls, scans and changes.

* `DroppedStaysQuiet`: both places that subscribe to the battery look at the stop
  flag under the mutex under which `dropRobot` sets it.  The invariant only adds
  that both are kept for each session.
* `NoCallLeftPending`: a pending call is the one of a scan that waits for it or is
  about to forget it.
* `InstalledStaysUp` and `OnlyInstallsLose`: what holds unconditionally of any number
  of threads that refresh or send commands.  The invariant `OwnersOK` names the owners of
  sessions: `sessions_` has one, and a thread has the one that it has taken out and is
  stopping, or has opened and not yet installed.  No session has two owners, and what is
  installed, or will be, has a transport that works and is not to stop (`WorkingStays`:
  only `StopSession` ever tells one to).  `Install` is the one step that forgets an owned
  session.
* `OneConnectionAtRest`: hence, if no thread installs its session over another's
  (`NoOverwrite`), at most one transport is at work whenever no thread is replacing
  one.  Nothing in the code ensures `NoOverwrite`, and the theorem says that it is all
  that is missing; while threads are at it there can be two even then.
* `LastRefreshWins`: `RefreshTakesEffect`, for any number of threads, if they are
  `InOrder`: `NoOverwrite`, and once the last refresh has read the row no thread drops or
  installs a session on an older copy of it.  This is what a second look at the row, under
  the mutex of `sessions_`, would give, and `two_refreshes` is the trace without it.  The
  invariant `RefreshOK`: when no refresh is due, the session that is installed is what the
  row asks for, or some thread works on the present row and will install it.
* `SubscriptionsSurvive`, for any number of threads.  The promise cannot be
  kept at every moment: between the announcement of a connection and its handling by
  the strand the robot serves nothing, and a silent or closing connection carries
  nothing.  `Restored` says it of the other times; it is inductive with `Wired`: a
  connection in use is known as one unless it is about to be closed, and on the strand
  each of its losses is followed by a connection (`Followed`), so that handling an old
  loss never takes the state from Online for good.  `StopJoined` excludes at rest a
  transport that was told to stop.
* `RowTellsConnection`: `StatusSettles`, for any number of threads, as long as
  `OneConnection` is true.  `Said` is the last word on the connection: of the last event
  that waits on the strand, or of the row if none does.  While a connection is up it is
  not "down", and if it is "up" a transport is reading or has not yet reported its end.
  That two sessions never are at work together is needed, and `NoOverwrite` would not be
  enough: or the end of one would be said after the connection of the other.

`RobotDispatch_proofs`: from `DispatchAssumption` (adapters, specs and servers are of
their types, workers are neither the HTTP thread nor the timer, only goals that are
answered on topics lack ids) and `StartedOnce` (the lists of nodes that the run, the
delay and each success start name each node once, so there are no joins: those are
`WorkflowExecutor`'s), for any robots, servers, commands, workers and messages.
`DispatchSafe` is the invariant the others use: what a thread is still to start has no
command row, no two threads are to start or are sending the same command (`Dues`,
`TodosApart`, `Senders`, `SendersApart`); a goal is made after its row, and its handler
is installed with it and given up with its verdict (`Commands`); a worker holds the
mutex of the robot of its message from taking it to leaving it, so what it has in hand
is in no other worker's (`Holders`).

* `OwnVerdictHolds` adds that every message in a queue or in hand was rightly said of
  some goal of its server.  It has the hypothesis `AnonymousAlone`: a server that
  answers without goal ids is used by one command.  Without it the theorem is false,
  since the result handler (`robot_runtime.cpp:1093`) takes a result without an id for
  its own; this is one of the hazards in `PROJECT.json`.
* `FiringsEarnedHolds` has no hypothesis about specs: several of one name share a gate,
  which has the limit of the first enabled one (`try_emplace` keeps what is there), and
  the limit is that one.  The invariant keeps the tally in step with the gate for as
  long as the gate lives; that its end is final is `CurrentShrinks`.
  `AfterSpecs` is recursive; that each spec keeps gate and tally in step is carried over
  the list by the well-foundedness of the order of the numbers (`Counting`).
* `OutboxSettlesHolds` needs `GateHeld`: a worker or the timer that dispatches has the
  callback gate.  Before a dispatch is recorded its answer can be in a queue or in the
  hand of a worker, but not applied.  The HTTP thread starts nodes outside the gate,
  and for those the property does not hold, hence `UnderGate`.
* `NoVerdictLostHolds`: the invariant `AwaitInv` says of each goal that it is answered,
  or the answer is in hand, or its handler waits and the answer, once decided, is in a
  queue, as long as no connection was lost.

Only model-checked: the executor's other properties, and all liveness (`RunEnds`,
`JobsAnswered`), which TLAPS has no rules for here.  Of the executor's, `SubflowSettled`,
`ParentTold`, `NoStrandedJoin` and `DecideOnce` are true of the graphs and the numbers of
requests of their runs and not of all: copies grow stale, and with enough handlers at once
(two failure edges into one node, a second cancellation, a result of an earlier cycle)
each of them is lost.  The hazards in `PROJECT.json` name the lines.  `OneOpenCommand` and
`RetriesBounded` are lost in the same way, and are proved for the workflows where they are
not.  For the others the line is not drawn by the graph alone: the first three are about
parents, children and joins, which `Sequential` excludes, and `DecideOnce` is about a node
that handlers with older copies, of a cancellation or of another rejection, write again.
`PromiseKept` has a refinement mapping, and is checked step by step on
the instances of the runs; on a copy that is stale enough a step of the executor is none
of `WorkflowPromise`, so there is no theorem of it for every graph.

## Not modelled

* `updateRobot`, `updateStation` and other updates that change no reference,
  listings, startup profiles, capability test routes, `enqueueNavigationGoal` of the
  map view: CRUD, or the same steps as what is modelled.
* The refusal to delete a definition that has runs or a robot with open commands;
  archiving of runs.
* Station action lists of more than one entry; renaming a workflow; validation of
  graphs when they are published.
* `DELETE /robots`, which drops the session and then deletes the row
  (`register_routes.cpp:1434`), and the interface cache.
* Poses, map geometry, parsing of PGM and YAML, ROS type definitions, addresses:
  sequential computation on texts and floating point numbers.
* PgPool, ops log, the legacy server's main, the frontend.

## Next

1. `PromiseKept` for the runs of `Counted`, whose copies are current where it matters.
2. `RetriesBounded` with confirmations that are decided once.
3. Larger instances: two changes of a row; a second loop cycle with branches that
   are still at work.
