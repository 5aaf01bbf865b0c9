---------------------------- MODULE RobotDispatch ----------------------------
(***************************************************************************)
(* Commands on their way to robots and back: RobotRuntime's dispatch of    *)
(* services, actions, topics and navigation goals (ros/robot_runtime.cpp), *)
(* the handlers a rosbridge session keeps for their answers                *)
(* (ros/rosbridge_session.cpp), and what WorkflowExecutor does with them   *)
(* (workflow/workflow_executor.cpp).  Every thread that may dispatch or    *)
(* apply an answer is here, with the two locks it takes: the mutex of a    *)
(* robot's session and the executor's callback gate.  One run of a         *)
(* workflow, one command for each node; WorkflowExecutor has the runs, and *)
(* RobotConnection how a session comes to be connected.                    *)
(***************************************************************************)
EXTENDS FeedbackEvents, FiniteSets, TLC

CONSTANTS
  Robot,
  Server,      \* action servers, services and topics of the robots
  Command,
  RobotOf,     \* server -> robot
  ServerOf,    \* command -> server
  Adapter,     \* command -> how it is sent
  Specs,       \* command -> its resolved event specs
  Anonymous,   \* servers whose messages carry no goal id
  Initial,     \* the commands of the nodes a new run starts, in order
  Starts,      \* command -> the commands its success starts
  Delayed,     \* the commands a DELAY node starts when its time is over
  DelayAfter,  \* the command whose success starts the DELAY, or NoGoal: the run
  Worker,      \* threads of the protocol pool
  Nobody,
  NoGoal,
  Says,        \* bound: command -> messages about it besides its first result
  Drops        \* bound: losses of a connection

Adapters == {"SERVICE", "ACTION", "ACTIONLIB", "NAVIGATION", "TOPIC"}

Api == "api"       \* an HTTP thread: starts the run, or cancels it
Timer == "timer"   \* the executor's timer thread
Thread == Worker \cup {Api, Timer}

RobotFor(c) == RobotOf[ServerOf[c]]
OnTopics(c) == Adapter[c] \in {"ACTIONLIB", "NAVIGATION"}
KeyOf(spec) == <<spec.source, spec.event_name>>
Key(c) == {KeyOf(Specs[c][i]) : i \in DOMAIN Specs[c]}

ASSUME DispatchAssumption ==
  /\ RobotOf \in [Server -> Robot]
  /\ ServerOf \in [Command -> Server]
  /\ Adapter \in [Command -> Adapters]
  /\ \A c \in Command : /\ Specs[c] \in Seq(Range(Specs[c]))
                        /\ ValidForOperation(
                             IF Adapter[c] \in {"ACTION", "ACTIONLIB"} THEN "ACTION"
                             ELSE Adapter[c], Specs[c])
  /\ Says \in [Command -> Nat] /\ Drops \in Nat
  /\ NoGoal \notin Command /\ Nobody \notin Thread \cup Robot
  /\ Worker \cap {Api, Timer} = {}
  \* Services and actions are answered by id.
  /\ \A c \in Command : ServerOf[c] \in Anonymous => OnTopics(c)

\* There is one way to start a node, and one command for it: no joins, no cycles.
ASSUME StartedOnce ==
  LET Starter == {Initial, Delayed} \cup {Starts[c] : c \in Command} IN
    /\ Initial \in Seq(Command) /\ Delayed \in Seq(Command)
    /\ Starts \in [Command -> Seq(Command)]
    /\ \A s \in Starter : IsInjective(s)
    /\ ToSet(Initial) \cap ToSet(Delayed) = {}
    /\ \A c \in Command : ToSet(Starts[c]) \cap (ToSet(Initial) \cup ToSet(Delayed)) = {}
    /\ \A c, d \in Command : c # d => ToSet(Starts[c]) \cap ToSet(Starts[d]) = {}

VARIABLES
  run,        \* state of the workflow run
  node,       \* command -> state of its node
  row,        \* command -> state of its command_runs row
  outbox,     \* command -> state of its command_outbox row
  link,       \* robot -> its session is online
  drops,
  listening,  \* <<command, topic kind>>: handlers in subscriptions_
  pending,    \* commands in pending_services_ and pending_actions_
  finished,   \* commands whose complete() has run
  goal,       \* command -> what the robot made of it
  said,       \* command -> messages the robot sent about it
  strand,     \* robot -> messages posted on its strand
  responses,  \* service responses posted on the pool
  mutex,      \* robot -> the thread that holds session_mutex
  gate,       \* the thread that holds the callback gate
  gates,      \* command -> key -> event_gates_, for the keys it holds
  thread,     \* thread -> where it is, and its locals
  applied,    \* command -> results its handler was called with
  tally       \* command -> key -> firings, and rises of the condition

world == <<link, drops, goal, said>>
queues == <<strand, responses>>
handlers == <<listening, pending, finished>>
rows == <<run, node, row, outbox>>
locks == <<mutex, gate>>
events == <<gates, tally>>
vars == <<world, queues, handlers, rows, locks, events, thread, applied>>

NoMessage == [server |-> Nobody, kind |-> "none", about |-> NoGoal, value |-> 0,
              outcome |-> "none"]
Rested == [pc |-> "idle", msg |-> NoMessage, strand |-> Nobody, calls |-> {}, open |-> {},
           cmd |-> NoGoal, done |-> NoGoal, todo |-> << >>, back |-> "idle"]

At(t, pc) == thread[t].pc = pc
Move(t, rec) == thread' = [thread EXCEPT ![t] = rec]
Go(t, pc) == Move(t, [thread[t] EXCEPT !.pc = pc])
Cmd(t) == thread[t].cmd

\* The next node to start, or back to what started them.
Resume(t, rec) ==
  Move(t, [rec EXCEPT !.pc = IF rec.todo = << >> THEN rec.back ELSE "dispatch"])

Verdict(ok) == IF ok THEN "SUCCEEDED" ELSE "FAILED"

\* session_mutex is recursive: a handler may dispatch to its own robot.
MutexFree(r, t) == mutex[r] \in {Nobody, t}
GateFreeAlways(t) == TRUE
GateFree(t) == gate \in {Nobody, t}

-----------------------------------------------------------------------------
(* Dispatch: dispatchCapabilityNode and the NAVIGATION branch of           *)
(* executeNode, on any thread that starts nodes.                           *)

\* The rows are written, then the connection is looked at.
CreateCommand(t) ==
  /\ At(t, "dispatch")
  /\ LET c == Head(thread[t].todo)
         rest == [thread[t] EXCEPT !.todo = Tail(@), !.cmd = c]
     IN
       /\ row' = [row EXCEPT ![c] = "CREATED"]
       /\ node' = [node EXCEPT ![c] = "RUNNING"]
       /\ outbox' = [outbox EXCEPT ![c] =
                       IF Adapter[c] = "NAVIGATION" THEN "PENDING" ELSE @]
       /\ Move(t, [rest EXCEPT !.pc = IF link[RobotFor(c)] THEN "send" ELSE "refused"])
  /\ UNCHANGED <<run, world, queues, handlers, locks, events, applied>>

\* The handlers go in before the goal is published, under one hold of the
\* mutex; when publishing fails they are taken out again.
Subscriptions(c) ==
  CASE Adapter[c] = "ACTIONLIB" -> {<<c, "feedback">>, <<c, "result">>}
    [] Adapter[c] = "NAVIGATION" -> {<<c, "result">>}
    [] OTHER -> {}

Send(t) ==
  /\ At(t, "send")
  /\ LET c == Cmd(t)
         r == RobotFor(c)
     IN
       /\ MutexFree(r, t)
       /\ IF link[r]
            THEN /\ listening' = listening \cup Subscriptions(c)
                 /\ pending' = IF Adapter[c] \in {"SERVICE", "ACTION"}
                                 THEN pending \cup {c} ELSE pending
                 /\ goal' = [goal EXCEPT ![c] = IF Adapter[c] = "TOPIC" THEN @ ELSE "working"]
                 /\ Go(t, IF Adapter[c] = "NAVIGATION" THEN "record" ELSE "mark")
            ELSE /\ Go(t, "refused")
                 /\ UNCHANGED <<listening, pending, goal>>
  /\ UNCHANGED <<link, drops, said, finished, queues, rows, locks, events, applied>>

RecordSent(t) ==
  /\ At(t, "record")
  /\ outbox' = [outbox EXCEPT ![Cmd(t)] = "SENT"]
  /\ Go(t, "mark")
  /\ UNCHANGED <<run, node, row, world, queues, handlers, locks, events, applied>>

\* A result that came first keeps its state.
Marked(state) == IF state = "CREATED" THEN "ACTIVE" ELSE state
MarkDispatched(t) ==
  /\ At(t, "mark")
  /\ row' = [row EXCEPT ![Cmd(t)] = Marked(@)]
  /\ IF Adapter[Cmd(t)] = "TOPIC" THEN Go(t, "published") ELSE Resume(t, thread[t])
  /\ UNCHANGED <<run, node, outbox, world, queues, handlers, locks, events, applied>>

\* Not accepted: the node fails, and without a failure edge its run.
Refused(t) ==
  /\ At(t, "refused")
  /\ row' = [row EXCEPT ![Cmd(t)] = "FAILED"]
  /\ outbox' = [outbox EXCEPT ![Cmd(t)] = IF @ = "none" THEN @ ELSE "FAILED"]
  /\ node' = [node EXCEPT ![Cmd(t)] = "FAILED"]
  /\ run' = "FAILED"
  /\ Resume(t, thread[t])
  /\ UNCHANGED <<world, queues, handlers, locks, events, applied>>

-----------------------------------------------------------------------------
(* evaluateAndEmitEventSpecs and clearEventGates.                          *)
NoGate == [previous |-> FALSE, count |-> 0, held |-> FALSE]

\* A gate has the limits of the spec it was made for: the first enabled one.
FirstSpec(c, k) ==
  Specs[c][CHOOSE i \in DOMAIN Specs[c] :
    /\ Specs[c][i].enabled /\ KeyOf(Specs[c][i]) = k
    /\ \A j \in 1..i-1 : ~Specs[c][j].enabled \/ KeyOf(Specs[c][j]) # k]

\* One spec against a payload; acc is the command's gates and tallies, cooled the
\* keys whose cooldown is over.
EvaluateSpec(acc, c, spec, source, payload, ok, cooled) ==
  LET k == KeyOf(spec)
      condition == EvaluateWhen(spec, payload, ok)
      held == acc.gates[k]
      old == IF held.held THEN [previous |-> held.previous, count |-> held.count]
             ELSE NewGate
      new == Evaluated(old, FirstSpec(c, k), condition, k \in cooled)
      seen == acc.tally[k]
  IN IF ~spec.enabled \/ spec.source # source THEN acc
     ELSE [gates |-> [acc.gates EXCEPT ![k] =
             [previous |-> new.previous, count |-> new.count, held |-> TRUE]],
           tally |-> [acc.tally EXCEPT ![k] =
             [fired |-> @.fired + (new.count - old.count),
              rises |-> @.rises + (IF condition /\ ~@.last THEN 1 ELSE 0),
              last |-> condition]]]

AfterSpecs(c, source, payload, ok, cooled) ==
  LET after[i \in 0..Len(Specs[c])] ==
        IF i = 0 THEN [gates |-> gates[c], tally |-> tally[c]]
        ELSE EvaluateSpec(after[i-1], c, Specs[c][i], source, payload, ok, cooled)
  IN after[Len(Specs[c])]

Evaluate(c, source, payload, ok) ==
  \E cooled \in SUBSET Key(c) :
    LET acc == AfterSpecs(c, source, payload, ok, cooled) IN
      /\ gates' = [gates EXCEPT ![c] = acc.gates]
      /\ tally' = [tally EXCEPT ![c] = acc.tally]

\* The last evaluation of a command; its gates are given up.
NoGatesOf(c) == [k \in Key(c) |-> NoGate]
EvaluateAndClear(c, source, payload, ok) ==
  \E cooled \in SUBSET Key(c) :
    /\ tally' = [tally EXCEPT ![c] = AfterSpecs(c, source, payload, ok, cooled).tally]
    /\ gates' = [gates EXCEPT ![c] = NoGatesOf(c)]
ClearEventGates(c) ==
  /\ gates' = [gates EXCEPT ![c] = NoGatesOf(c)]
  /\ UNCHANGED tally

Payload(m) == [progress |-> m.value]

\* completeNode starts the next nodes on the same thread.
FollowEdges(t, c, rec) == Resume(t, [rec EXCEPT !.todo = Starts[c] \o @])

\* A topic has no answer: it has succeeded once it is published.
TopicPublished(t) ==
  /\ At(t, "published")
  /\ LET c == Cmd(t) IN
       /\ row' = [row EXCEPT ![c] = "SUCCEEDED"]
       /\ node' = [node EXCEPT ![c] = "SUCCEEDED"]
       /\ EvaluateAndClear(c, "RESULT", [published |-> 1], TRUE)
       /\ FollowEdges(t, c, thread[t])
  /\ UNCHANGED <<run, outbox, world, queues, handlers, locks, applied>>

-----------------------------------------------------------------------------
(* The robot and its bridge (external): they report on the goals they got. *)
(* A topic is sent to those who listen, an answer to the one who asked.    *)
Message(c, kind, value, outcome) ==
  [server |-> ServerOf[c], kind |-> kind, value |-> value, outcome |-> outcome,
   about |-> IF ServerOf[c] \in Anonymous THEN NoGoal ELSE c]

Heard(c, kind) ==
  IF OnTopics(c)
    THEN \E d \in Command : ServerOf[d] = ServerOf[c] /\ <<d, kind>> \in listening
    ELSE TRUE

Deliver(c, m) ==
  IF ~link[RobotFor(c)] \/ ~Heard(c, m.kind) THEN UNCHANGED queues
  ELSE IF Adapter[c] = "SERVICE"
    THEN responses' = responses \cup {m} /\ UNCHANGED strand
    ELSE /\ strand' = [strand EXCEPT ![RobotFor(c)] = Append(@, m)]
         /\ UNCHANGED responses

RobotSteps == <<link, drops, handlers, rows, locks, events, thread, applied>>

\* The verdict on a goal; its result message is published once by then.
RobotFinishes(c) ==
  /\ goal[c] = "working"
  /\ \E verdict \in {"SUCCEEDED", "FAILED"} :
       /\ goal' = [goal EXCEPT ![c] = verdict]
       /\ Deliver(c, Message(c, "result", 0, verdict))
  /\ UNCHANGED <<said, RobotSteps>>

\* Feedback, a navigation result that is not terminal, or a result once more;
\* topics are not ordered among each other, so feedback may follow a result.
RobotReports(c) ==
  /\ goal[c] # "none" /\ said[c] < Says[c]
  /\ said' = [said EXCEPT ![c] = @ + 1]
  /\ \/ /\ Adapter[c] \in {"ACTION", "ACTIONLIB"}
        /\ \E v \in 0..1 : Deliver(c, Message(c, "feedback", v, "none"))
     \/ /\ Adapter[c] = "NAVIGATION" /\ goal[c] = "working"
        /\ Deliver(c, Message(c, "result", 0, "none"))
     \/ /\ OnTopics(c) /\ goal[c] # "working"
        /\ Deliver(c, Message(c, "result", 0, goal[c]))
  /\ UNCHANGED <<goal, RobotSteps>>

\* Subscriptions are kept and sent again; answers that were due are lost.
LinkDown(r) ==
  /\ link[r] /\ drops < Drops
  /\ link' = [link EXCEPT ![r] = FALSE]
  /\ drops' = drops + 1
  /\ UNCHANGED <<goal, said, queues, handlers, rows, locks, events, thread, applied>>

LinkUp(r) ==
  /\ ~link[r]
  /\ link' = [link EXCEPT ![r] = TRUE]
  /\ UNCHANGED <<drops, goal, said, queues, handlers, rows, locks, events, thread,
                 applied>>

-----------------------------------------------------------------------------
(* Messages: handleIncoming under the session's mutex, on the strand for   *)
(* what robots publish, on any thread of the pool for service responses.   *)
\* The handlers of a topic are copied before the first is called; a pending
\* call is forgotten with its result.
Handlers(m) ==
  {c \in Command : /\ ServerOf[c] = m.server
                   /\ IF OnTopics(c) THEN <<c, m.kind>> \in listening
                      ELSE c \in pending /\ c = m.about}

\* A thread that waits for the mutex does nothing else meanwhile.
HandleIncoming(w, m, r) ==
  /\ mutex[RobotOf[m.server]] = Nobody
  /\ mutex' = [mutex EXCEPT ![RobotOf[m.server]] = w]
  /\ pending' = IF m.kind = "result" THEN pending \ Handlers(m) ELSE pending
  /\ Move(w, [Rested EXCEPT !.pc = "calls", !.msg = m, !.strand = r,
                            !.calls = Handlers(m)])
  /\ UNCHANGED <<world, listening, finished, rows, gate, events, applied>>

HandlePublished(w) ==
  /\ At(w, "idle")
  /\ \E r \in Robot :
       /\ strand[r] # << >>
       /\ \A v \in Worker : thread[v].strand # r
       /\ strand' = [strand EXCEPT ![r] = Tail(@)]
       /\ HandleIncoming(w, Head(strand[r]), r)
  /\ UNCHANGED responses

HandleResponse(w) ==
  /\ At(w, "idle")
  /\ \E m \in responses : /\ responses' = responses \ {m}
                         /\ HandleIncoming(w, m, Nobody)
  /\ UNCHANGED strand

\* The filters of a topic's handlers: another goal's message, or no verdict.
ConcernsAny(m, c) == TRUE
ConcernsNamed(m, c) == m.about = c
Concerns(m, c) == m.about \in {NoGoal, c}
Terminal(m) == m.kind = "result" => m.outcome # "none"

\* complete(): the first verdict counts, and both subscriptions end with it.
FinishKeepingFeedback(c) ==
  /\ finished' = finished \cup {c}
  /\ listening' = listening \ {<<c, "result">>}
Finish(c) ==
  /\ finished' = finished \cup {c}
  /\ listening' = listening \ {<<c, "feedback">>, <<c, "result">>}

CallHandler(w) ==
  /\ At(w, "calls")
  /\ \E c \in thread[w].calls :
       LET m == thread[w].msg
           called == [thread[w] EXCEPT !.calls = @ \ {c}, !.cmd = c]
       IN IF OnTopics(c) /\ (~Concerns(m, c) \/ ~Terminal(m)
                               \/ (m.kind = "result" /\ c \in finished))
            THEN Move(w, called) /\ UNCHANGED handlers
            ELSE /\ Move(w, [called EXCEPT !.pc = "gate"])
                 /\ IF OnTopics(c) /\ m.kind = "result"
                      THEN Finish(c) /\ UNCHANGED pending
                      ELSE UNCHANGED handlers
  /\ UNCHANGED <<world, queues, rows, locks, events, applied>>

EndMessage(w) ==
  /\ At(w, "calls") /\ thread[w].calls = {}
  /\ mutex' = [mutex EXCEPT ![RobotOf[thread[w].msg.server]] = Nobody]
  /\ Move(w, Rested)
  /\ UNCHANGED <<world, queues, handlers, rows, gate, events, applied>>

-----------------------------------------------------------------------------
(* makeRosCommandHandler and handleRosCommandEvent, under the gate.        *)
ApplyFeedback(w) ==
  /\ At(w, "gate") /\ GateFree(w) /\ thread[w].msg.kind = "feedback"
  /\ IF run = "RUNNING"
       THEN Evaluate(Cmd(w), "FEEDBACK", Payload(thread[w].msg), TRUE)
       ELSE UNCHANGED events
  /\ Go(w, "calls")
  /\ UNCHANGED <<world, queues, handlers, rows, locks, applied>>

\* The row takes the verdict, whatever it held; the rest is for a node at work.
ApplyResult(w) ==
  /\ At(w, "gate") /\ GateFree(w) /\ thread[w].msg.kind = "result"
  /\ LET c == Cmd(w)
         m == thread[w].msg
         ok == m.outcome = "SUCCEEDED"
         open == run = "RUNNING" /\ node[c] = "RUNNING"
     IN
       /\ applied' = [applied EXCEPT ![c] = Append(@, m.outcome)]
       /\ row' = [row EXCEPT ![c] = Verdict(ok)]
       /\ outbox' = [outbox EXCEPT ![c] =
            IF ~open \/ @ = "none" THEN @ ELSE IF ok THEN "ACKNOWLEDGED" ELSE "FAILED"]
       /\ node' = [node EXCEPT ![c] = IF open THEN Verdict(ok) ELSE @]
       /\ run' = IF open /\ ~ok THEN "FAILED" ELSE run
       /\ \/ /\ open /\ ok
             /\ FollowEdges(w, c, [thread[w] EXCEPT !.back = "evaluate", !.done = c])
             /\ gate' = w
             /\ UNCHANGED events
          \/ /\ open /\ ~ok
             /\ EvaluateAndClear(c, "RESULT", Payload(m), FALSE)
             /\ Go(w, "calls") /\ UNCHANGED gate
          \/ /\ ~open
             /\ ClearEventGates(c)
             /\ Go(w, "calls") /\ UNCHANGED gate
  /\ UNCHANGED <<world, queues, handlers, mutex>>

\* After the next nodes have been started.
EvaluateResult(w) ==
  /\ At(w, "evaluate")
  /\ LET c == thread[w].done IN
       EvaluateAndClear(c, "RESULT", Payload(thread[w].msg), TRUE)
  /\ gate' = Nobody
  /\ Go(w, "calls")
  /\ UNCHANGED <<world, queues, handlers, rows, mutex, applied>>

-----------------------------------------------------------------------------
(* The threads that start nodes and are not called by a robot.             *)
StartRun ==
  /\ run = "CREATED" /\ At(Api, "idle")
  /\ run' = "RUNNING"
  /\ Resume(Api, [Rested EXCEPT !.todo = Initial])
  /\ UNCHANGED <<node, row, outbox, world, queues, handlers, locks, events, applied>>

\* The task of a DELAY: under the gate, if the run is still going.
DelayOver ==
  /\ run # "CREATED" /\ At(Timer, "idle") /\ GateFree(Timer)
  /\ DelayAfter # NoGoal => node[DelayAfter] = "SUCCEEDED"
  /\ IF run = "RUNNING"
       THEN /\ gate' = Timer
            /\ Resume(Timer, [Rested EXCEPT !.todo = Delayed, !.back = "leave"])
       ELSE /\ Go(Timer, "over")
            /\ UNCHANGED gate
  /\ UNCHANGED <<world, queues, handlers, rows, mutex, events, applied>>

LeaveDelay ==
  /\ At(Timer, "leave")
  /\ gate' = Nobody
  /\ Go(Timer, "over")
  /\ UNCHANGED <<world, queues, handlers, rows, mutex, events, applied>>

\* cancel() has loaded the run: the open navigation commands and the open
\* nodes of its copy.
OpenNavigation ==
  {c \in Command : Adapter[c] = "NAVIGATION" /\ row[c] \in {"CREATED", "ACTIVE"}}
OpenNodes == {c \in Command : node[c] \in {"idle", "RUNNING"}}
BeginCancel ==
  /\ run = "RUNNING" /\ At(Api, "idle")
  /\ Move(Api, [Rested EXCEPT !.pc = "cancel", !.calls = OpenNavigation, !.open = OpenNodes])
  /\ UNCHANGED <<world, queues, handlers, rows, locks, events, applied>>

\* cancelNavigation: an empty goal id stops whatever the robot navigates to;
\* an offline robot is not told.  The robot says so in a result, or not at all.
CancelNavigation ==
  /\ At(Api, "cancel")
  /\ \E c \in thread[Api].calls :
       /\ ~link[RobotFor(c)] \/ MutexFree(RobotFor(c), Api)
       /\ row' = [row EXCEPT ![c] = "CANCELLED"]
       /\ Move(Api, [thread[Api] EXCEPT !.calls = @ \ {c}])
  /\ UNCHANGED <<run, node, outbox, world, queues, handlers, locks, events, applied>>

EndCancel ==
  /\ At(Api, "cancel") /\ thread[Api].calls = {}
  /\ node' = [c \in Command |->
                IF c \in thread[Api].open THEN "CANCELLED" ELSE node[c]]
  /\ run' = "CANCELLED"
  /\ Move(Api, Rested)
  /\ UNCHANGED <<row, outbox, world, queues, handlers, locks, events, applied>>

-----------------------------------------------------------------------------
Init ==
  /\ run = "CREATED"
  /\ node = [c \in Command |-> "idle"]
  /\ row = [c \in Command |-> "none"]
  /\ outbox = [c \in Command |-> "none"]
  /\ link = [r \in Robot |-> TRUE]
  /\ drops = 0
  /\ listening = {} /\ pending = {} /\ finished = {}
  /\ goal = [c \in Command |-> "none"]
  /\ said = [c \in Command |-> 0]
  /\ strand = [r \in Robot |-> << >>]
  /\ responses = {}
  /\ mutex = [r \in Robot |-> Nobody]
  /\ gate = Nobody
  /\ gates = [c \in Command |-> NoGatesOf(c)]
  /\ thread = [t \in Thread |-> Rested]
  /\ applied = [c \in Command |-> << >>]
  /\ tally = [c \in Command |->
                [k \in Key(c) |-> [fired |-> 0, rises |-> 0, last |-> FALSE]]]

Dispatch(t) ==
  \/ CreateCommand(t) \/ Send(t) \/ RecordSent(t) \/ MarkDispatched(t)
  \/ Refused(t) \/ TopicPublished(t)

Receive(w) ==
  \/ HandlePublished(w) \/ HandleResponse(w) \/ CallHandler(w) \/ EndMessage(w)
  \/ ApplyFeedback(w) \/ ApplyResult(w) \/ EvaluateResult(w)

Next ==
  \/ \E t \in Thread : Dispatch(t)
  \/ \E w \in Worker : Receive(w)
  \/ \E c \in Command : RobotFinishes(c) \/ RobotReports(c)
  \/ \E r \in Robot : LinkDown(r) \/ LinkUp(r)
  \/ StartRun \/ DelayOver \/ LeaveDelay
  \/ BeginCancel \/ CancelNavigation \/ EndCancel

Spec == Init /\ [][Next]_vars

-----------------------------------------------------------------------------
(* What dispatch promises.                                                 *)

\* However messages of several goals on one server are ordered, a handler is
\* called with at most one verdict, that of its own goal, and no later write
\* of the dispatching thread hides it: only a cancellation may replace it.
OwnVerdict ==
  \A c \in Command :
    applied[c] # << >> => /\ applied[c] = <<goal[c]>>
                          /\ row[c] \in {goal[c], "CANCELLED"}

\* An event fires on rising edges of its condition only, and never more often
\* than its spec allows in the life of a command, even for messages that come
\* after the result (README: rising edge and maximum number of firings).
FiringsEarned ==
  \A c \in Command : \A i \in DOMAIN Specs[c] :
    LET k == KeyOf(Specs[c][i])
        seen == tally[c][k]
        limit == FirstSpec(c, k).max_firings
    IN Specs[c][i].enabled => /\ seen.fired <= seen.rises
                              /\ limit # 0 => seen.fired <= limit

\* The callback gate orders a dispatch and its answer: once a navigation goal
\* sent under the gate is decided, its outbox row tells how, for good.
UnderGate == ToSet(Delayed)
               \cup UNION {ToSet(Starts[c]) : c \in {d \in Command : Adapter[d] # "TOPIC"}}
OutboxSettles ==
  \A c \in UnderGate :
    Adapter[c] = "NAVIGATION" /\ node[c] \in {"SUCCEEDED", "FAILED"}
      => outbox[c] \in {"ACKNOWLEDGED", "FAILED"}

\* Two threads that wait for each other: a handler for the gate, with the
\* mutex of its robot, and the holder of the gate for that mutex.
WaitsForMutex(t, r) == At(t, "send") /\ RobotFor(Cmd(t)) = r
NoLockCycle ==
  \A w \in Worker, t \in Thread : \A r \in Robot :
    ~ (At(w, "gate") /\ mutex[r] = w /\ gate = t /\ WaitsForMutex(t, r) /\ t # w)

\* With the connections up throughout, no verdict is lost: when everything that
\* was sent has been handled, each decided goal has had its handler called.
Quiet == /\ \A r \in Robot : strand[r] = << >>
         /\ responses = {}
         /\ \A t \in Thread : thread[t].pc \in {"idle", "over"}
NoVerdictLost ==
  Quiet /\ drops = 0 =>
    \A c \in Command : goal[c] \in {"SUCCEEDED", "FAILED"} => applied[c] # << >>
=============================================================================
