-------------------------- MODULE WorkflowExecutor --------------------------
(***************************************************************************)
(* The workflow executor of the dispatcher: HTTP threads, the timer thread *)
(* and the ROS/SSH callbacks advance workflow runs that live in PostgreSQL.*)
(*                                                                         *)
(* Every handler loads a run once (getWorkflowRun, one transaction) and    *)
(* then works on that copy, writing each change back by a transaction of   *)
(* its own; nothing is re-read.  The model keeps exactly this: a thread    *)
(* has a stack of frames, a frame has the loaded copy (snap) and the calls *)
(* still to be made on it (todo), and one step of a thread is one database *)
(* access.  Nested handlers (a child run, the parent's notification, an    *)
(* injected event) load a copy of their own: they push a frame.            *)
(*                                                                         *)
(* Callbacks (ROS command events, SSH results, the DELAY task) run under   *)
(* the callback gate; HTTP requests, the retry task and the next-cycle     *)
(* task do not take it.                                                    *)
(***************************************************************************)
EXTENDS WorkflowGraph, FiniteSets, Bags, BagsExt

CONSTANTS
  Http,     \* the HTTP worker threads
  Manual,   \* the run slots an operator may start
  Cancellable,  \* those an operator may cancel
  Budget    \* [request kind -> how many of them the environment makes]

Timer == "timer"
Callback == "callback"
Thread == Http \cup {Timer, Callback}
NoThread == "nobody"
NoParent == <<>>

RequestKind == {"start", "cancel", "decide", "inject", "restart"}
ASSUME ExecutorAssumption ==
  /\ Manual \subseteq Run /\ Cancellable \subseteq Run
  /\ Http \cap {Timer, Callback, NoThread} = {}
  /\ Budget \in [RequestKind -> Nat]

Terminal == {"SUCCEEDED", "FAILED", "CANCELLED"}
OpenNode == {"PENDING", "RUNNING", "WAITING_EVENT", "PAUSED"}
OpenCommand == {"CREATED", "ACTIVE"}

VARIABLES
  run,        \* workflow_runs: state, context_data (cycle, next), parent
  node,       \* node_runs: node[r][attempt][key], with output command_attempt
  traversed,  \* workflow.edge.traversed events: <<edge, attempt>>
  decided,    \* deduplication keys of the manual decision events
  cmd,        \* command_runs, with live: the robot still owes a result
  stack,      \* the frames of each thread
  timer,      \* the bag of scheduled timer tasks
  gate,       \* the thread holding callback_gate_->mutex
  budget      \* requests the environment may still make

db == <<run, node, traversed, decided, cmd>>
vars == <<run, node, traversed, decided, cmd, stack, timer, gate, budget>>

-----------------------------------------------------------------------------
(* Frames, calls and the copies they work on *)

\* A pending call: op on node key k of attempt c, command i or edge i.
Op(op) == [op |-> op, c |-> 0, k |-> "", i |-> 0, ok |-> TRUE, ev |-> NoEvent]
OnKey(op, k) == [Op(op) EXCEPT !.k = k]
OnNode(op, c, k) == [Op(op) EXCEPT !.c = c, !.k = k]
OnIndex(op, i) == [Op(op) EXCEPT !.i = i]
WithOutcome(call, ok) == [call EXCEPT !.ok = ok]

\* The copy getWorkflowRun returns.  commands and waiting are the rows a
\* cancellation or an injected event still has to visit.
Load(r) == [state |-> run[r].state, cycle |-> run[r].cycle,
            next |-> run[r].next, node |-> node[r], traversed |-> traversed[r],
            commands |-> {}, waiting |-> {}]
Frame(r, snap, todo) == [run |-> r, snap |-> snap, todo |-> todo]

Top(t) == Head(stack[t])
Call(t) == Head(Top(t).todo)
Snap(t) == Top(t).snap
RunOf(t) == Top(t).run
Idle(t) == stack[t] = <<>>
Calls(t, op) == ~Idle(t) /\ Call(t).op = op

\* A frame with nothing left to do returns to its caller, and the gate's
\* lock_guard ends with the outermost one.
SetStack(t, frames) ==
  /\ stack' = [stack EXCEPT ![t] = frames]
  /\ gate' = IF gate = t /\ frames = <<>> THEN NoThread ELSE gate
Push(frame, frames) == IF frame.todo = <<>> THEN frames ELSE <<frame>> \o frames
Caller(t) == Frame(RunOf(t), Snap(t), Tail(Top(t).todo))

Return(t, snap, calls) ==
  SetStack(t, Push(Frame(RunOf(t), snap, calls \o Tail(Top(t).todo)),
                   Tail(stack[t])))
Enter(t, frame) ==
  SetStack(t, Push(frame, Push(Caller(t), Tail(stack[t]))))
Skip(t) == Return(t, Snap(t), <<>>)
Throw(t) == SetStack(t, <<>>)

\* findNode searches the loaded nodes backwards: the newest attempt.
NewestSearchedForwards(snap) == 1
Newest(snap) == Len(snap.node)
Latest(snap) == snap.node[Newest(snap)]

\* updateNodeRun and updateWorkflowRunState write whatever the row holds now.
SetNode(snap, c, k, state) == [snap EXCEPT !.node[c][k].state = state]
UpdateNodeRun(r, c, k, state) ==
  node' = [node EXCEPT ![r][c][k].state = state]
UpdateWorkflowRunState(r, state, snap) ==
  run' = [run EXCEPT ![r].state = state, ![r].cycle = snap.cycle,
                     ![r].next = snap.next]

\* The next iteration of followEdges after edge i, and what executeNode turns
\* into for each node type.
FollowFrom(r, src, kind, event, i) ==
  LET ids == OutEdges(r, src, kind, event, i)
  IN IF ids = {} THEN <<>>
     ELSE <<OnIndex("edge", CHOOSE j \in ids : \A n \in ids : j <= n)>>
FollowEdges(r, src, kind, event) == FollowFrom(r, src, kind, event, 0)
ImmediateUnattended == {"START", "END", "OTHER", "MANUAL_CONFIRM"}
Immediate == {"START", "END", "OTHER"}
ExecuteNode(r, c, k) ==
  LET type == TypeOf(r, k)
  IN CASE type \in Immediate -> OnKey("complete", k)
       [] type = "INVALID" -> OnKey("fail", k)
       [] type = "UNRENDERED" -> OnNode("retry", c, k)
       [] type = "DELAY" -> OnNode("delay", c, k)
       [] type = "MANUAL_CONFIRM" -> OnNode("pause", c, k)
       [] type = "CONTEXT" -> OnKey("context", k)
       [] type = "EVENT_WAIT" -> OnNode("await", c, k)
       [] type = "SUBFLOW" -> OnNode("subflow", c, k)
       [] OTHER -> OnNode("dispatch", c, k)

\* evaluateAndEmitEventSpecs for the RESULT source: event edges first, then
\* the workflows the event starts or wakes.
EmitResult(r, k, ok) ==
  LET a == Graph[r].node[k]
      ev == IF ok THEN a.result ELSE a.fault
  IN IF ev = NoEvent THEN <<>>
     ELSE FollowEdges(r, k, "event", ev)
          \o IF a.starts THEN <<[Op("inject") EXCEPT !.ev = ev]>> ELSE <<>>

NotifyParentOfSuccess(ok) == Op("notify")
NotifyParent(ok) == WithOutcome(Op("notify"), ok)

-----------------------------------------------------------------------------
(* completeNode, failNode, followEdges, activateNode and the end of a run *)

CompleteNode(t) ==
  /\ Calls(t, "complete")
  /\ LET r == RunOf(t)  k == Call(t).k  c == Newest(Snap(t))
     IN /\ UpdateNodeRun(r, c, k, "SUCCEEDED")
        /\ Return(t, SetNode(Snap(t), c, k, "SUCCEEDED"),
                  IF TypeOf(r, k) = "END" THEN <<Op("finish")>>
                  ELSE FollowEdges(r, k, "success", NoEvent)
                       \o <<Op("maybeFinish")>>)
  /\ UNCHANGED <<run, traversed, decided, cmd, timer, budget>>

FailNodeSilently(t) ==
  /\ Calls(t, "fail")
  /\ LET r == RunOf(t)  k == Call(t).k  c == Newest(Snap(t))
     IN /\ UpdateNodeRun(r, c, k, "FAILED")
        /\ Return(t, SetNode(Snap(t), c, k, "FAILED"),
                  IF HasFailureEdge(r, k)
                    THEN FollowEdges(r, k, "failure", NoEvent)
                         \o <<Op("maybeFinish")>>
                    ELSE <<Op("failRun")>>)
  /\ UNCHANGED <<run, traversed, decided, cmd, timer, budget>>

FailNode(t) ==
  /\ Calls(t, "fail")
  /\ LET r == RunOf(t)  k == Call(t).k  c == Newest(Snap(t))
     IN /\ UpdateNodeRun(r, c, k, "FAILED")
        /\ Return(t, SetNode(Snap(t), c, k, "FAILED"),
                  IF HasFailureEdge(r, k)
                    THEN FollowEdges(r, k, "failure", NoEvent)
                         \o <<Op("maybeFinish")>>
                    ELSE <<Op("failRun"), NotifyParent(FALSE)>>)
  /\ UNCHANGED <<run, traversed, decided, cmd, timer, budget>>

\* The run is marked FAILED; nodes of other branches stay as they are.
FailRun(t) ==
  /\ Calls(t, "failRun")
  /\ UpdateWorkflowRunState(RunOf(t), "FAILED", Snap(t))
  /\ Return(t, [Snap(t) EXCEPT !.state = "FAILED"], <<>>)
  /\ UNCHANGED <<node, traversed, decided, cmd, timer, budget>>

\* One iteration of followEdges: the traversal is recorded, then the join of
\* the target is evaluated on the loaded copy (a failure edge needs no join).
TraverseEdge(t) ==
  /\ Calls(t, "edge")
  /\ LET r == RunOf(t)
         e == Graph[r].edges[Call(t).i]
         others == FollowFrom(r, e.src, e.kind, e.event, Call(t).i)
         mark == <<Call(t).i, Snap(t).cycle>>
         snap == [Snap(t) EXCEPT !.traversed = @ \cup {mark}]
         ready == \/ e.kind = "failure"
                  \/ EvaluateJoin(r, e.dst, snap.cycle, Latest(snap),
                                  snap.traversed)
     IN /\ traversed' = [traversed EXCEPT ![r] = @ \cup {mark}]
        /\ Return(t, snap,
             (IF ready THEN <<OnKey("activate", e.dst)>>
              ELSE IF Latest(snap)[e.dst].state = "PENDING"
                THEN <<OnNode("park", Newest(snap), e.dst)>>
                ELSE <<>>) \o others)
  /\ UNCHANGED <<run, node, decided, cmd, timer, budget>>

ActivateNode(t) ==
  /\ Calls(t, "activate")
  /\ LET r == RunOf(t)  k == Call(t).k  c == Newest(Snap(t))
     IN IF Latest(Snap(t))[k].state = "PENDING"
          THEN /\ UpdateNodeRun(r, c, k, "RUNNING")
               /\ Return(t, SetNode(Snap(t), c, k, "RUNNING"),
                         <<ExecuteNode(r, c, k)>>)
          ELSE Skip(t) /\ UNCHANGED node
  /\ UNCHANGED <<run, traversed, decided, cmd, timer, budget>>

\* The END of cycle loop_count is the last one.
LastCycleOffByOne(r, snap) == snap.cycle > Graph[r].loop
LastCycle(r, snap) == snap.cycle >= Graph[r].loop

\* finishOrRepeatWorkflow: the END of the last cycle ends the run whatever
\* the other branches do; an earlier END schedules the next cycle once.
FinishOrRepeat(t) ==
  /\ Calls(t, "finish")
  /\ LET r == RunOf(t)  snap == Snap(t)
     IN \/ /\ LastCycle(r, snap)
           /\ UpdateWorkflowRunState(r, "SUCCEEDED", snap)
           /\ Return(t, [snap EXCEPT !.state = "SUCCEEDED"],
                     <<NotifyParent(TRUE)>>)
           /\ UNCHANGED timer
        \/ /\ ~LastCycle(r, snap) /\ snap.next
           /\ Skip(t)
           /\ UNCHANGED <<run, timer>>
        \/ /\ ~LastCycle(r, snap) /\ ~snap.next
           /\ LET again == [snap EXCEPT !.next = TRUE]
              IN /\ UpdateWorkflowRunState(r, "RUNNING", again)
                 /\ Return(t, again, <<>>)
           /\ timer' = BagAdd(timer, [kind |-> "cycle", run |-> r,
                                      c |-> snap.cycle + 1, k |-> ""])
  /\ UNCHANGED <<node, traversed, decided, cmd, budget>>

\* maybeFinishRun looks at the loaded copy, all attempts of all nodes.
MaybeFinishRun(t) ==
  /\ Calls(t, "maybeFinish")
  /\ LET r == RunOf(t)
         snap == Snap(t)
         states(type) == {snap.node[c][k].state :
                            c \in DOMAIN snap.node,
                            k \in {key \in Key(r) : TypeOf(r, key) \in type}}
         done == /\ snap.state = "RUNNING" /\ ~snap.next
                 /\ "SUCCEEDED" \in states({"END"})
                 /\ states(NodeType) \cap OpenNode = {}
     IN IF done
          THEN /\ UpdateWorkflowRunState(r, "SUCCEEDED", snap)
               /\ Return(t, [snap EXCEPT !.state = "SUCCEEDED"],
                         <<NotifyParent(TRUE)>>)
          ELSE Skip(t) /\ UNCHANGED run
  /\ UNCHANGED <<node, traversed, decided, cmd, timer, budget>>

-----------------------------------------------------------------------------
(* executeNode, by node type *)

\* DELAY: the timer task carries the node run id and takes the gate.
ExecuteDelay(t) ==
  /\ Calls(t, "delay")
  /\ LET r == RunOf(t)  c == Call(t).c  k == Call(t).k
     IN /\ UpdateNodeRun(r, c, k, "RUNNING")
        /\ timer' = BagAdd(timer, [kind |-> "delay", run |-> r, c |-> c, k |-> k])
        /\ Skip(t)
  /\ UNCHANGED <<run, traversed, decided, cmd, budget>>

\* MANUAL_CONFIRM pauses its branch, EVENT_WAIT waits for a signal.
ExecuteWait(t) ==
  /\ Calls(t, "pause") \/ Calls(t, "await")
  /\ LET c == Call(t).c  k == Call(t).k
         state == IF Call(t).op = "pause" THEN "PAUSED" ELSE "WAITING_EVENT"
     IN /\ UpdateNodeRun(RunOf(t), c, k, state)
        /\ Return(t, SetNode(Snap(t), c, k, state), <<>>)
  /\ UNCHANGED <<run, traversed, decided, cmd, timer, budget>>

\* ROBOT and STATION store the current robot or station in context_data, and
\* with it the state of the run as it was loaded.
ExecuteContext(t) ==
  /\ Calls(t, "context")
  /\ UpdateWorkflowRunState(RunOf(t), Snap(t).state, Snap(t))
  /\ Return(t, Snap(t), <<OnKey("complete", Call(t).k)>>)
  /\ UNCHANGED <<node, traversed, decided, cmd, timer, budget>>

\* SUBFLOW: wait first, then create the child, store its id, bootstrap it.
ExecuteSubflow(t) ==
  /\ Calls(t, "subflow")
  /\ LET c == Call(t).c  k == Call(t).k
     IN /\ UpdateNodeRun(RunOf(t), c, k, "WAITING_EVENT")
        /\ Return(t, SetNode(Snap(t), c, k, "WAITING_EVENT"),
                  <<OnNode("spawn", c, k)>>)
  /\ UNCHANGED <<run, traversed, decided, cmd, timer, budget>>

\* createWorkflowRun: the run and a PENDING node run per node, one transaction.
FreshNodes(r) == [k \in Key(r) |-> [state |-> "PENDING", tries |-> 1]]
CreateWorkflowRun(r, parent) ==
  /\ run[r].state = "NONE"
  /\ run' = [run EXCEPT ![r] = [state |-> "RUNNING", cycle |-> 1,
                                next |-> FALSE, parent |-> parent]]
  /\ node' = [node EXCEPT ![r] = <<FreshNodes(r)>>]

\* A called workflow without a published version throws: the node fails.
SpawnChild(t) ==
  /\ Calls(t, "spawn")
  /\ LET c == Call(t).c  k == Call(t).k
         slots == Graph[RunOf(t)].node[k].calls
     IN \/ /\ slots = {}
           /\ Return(t, Snap(t), <<OnKey("fail", k)>>)
           /\ UNCHANGED <<run, node>>
        \/ \E child \in slots :
             /\ CreateWorkflowRun(child, <<RunOf(t), c, k>>)
             /\ SetStack(t, <<Frame(RunOf(t), Snap(t), <<OnNode("link", c, k)>>),
                             Frame(child, Load(child), <<Op("boot")>>)>>
                            \o Push(Caller(t), Tail(stack[t])))
  /\ UNCHANGED <<traversed, decided, cmd, timer, budget>>

\* Storing output only (join_waiting, child_run_id, the dispatch_state or the
\* result of an SSH command) is a write of the state the handler believes in.
StoreOutput(t) ==
  /\ Calls(t, "park") \/ Calls(t, "link") \/ Calls(t, "stamp")
  /\ UpdateNodeRun(RunOf(t), Call(t).c, Call(t).k,
                   CASE Call(t).op = "park" -> "PENDING"
                     [] Call(t).op = "link" -> "WAITING_EVENT"
                     [] Call(t).op = "stamp" -> "RUNNING")
  /\ Skip(t)
  /\ UNCHANGED <<run, traversed, decided, cmd, timer, budget>>

BootstrapStaleCopy(t) ==
  /\ Calls(t, "boot")
  /\ LET r == RunOf(t)  starts == {k \in Key(r) : TypeOf(r, k) = "START"}
     IN Return(t, Snap(t),
               IF starts = {} THEN <<Op("orphan")>>
               ELSE <<OnKey("complete", CHOOSE k \in starts : TRUE)>>)
  /\ UNCHANGED <<db, timer, budget>>

\* bootstrapFromStart on a freshly loaded run; without START it is FAILED,
\* its context_data is replaced, and nobody is told.
Bootstrap(t) ==
  /\ Calls(t, "boot")
  /\ LET r == RunOf(t)  starts == {k \in Key(r) : TypeOf(r, k) = "START"}
     IN Return(t, Load(r),
               IF starts = {} THEN <<Op("orphan")>>
               ELSE <<OnKey("complete", CHOOSE k \in starts : TRUE)>>)
  /\ UNCHANGED <<db, timer, budget>>

FailWithoutStart(t) ==
  /\ Calls(t, "orphan")
  /\ UpdateWorkflowRunState(RunOf(t), "FAILED",
                            [cycle |-> 1, next |-> FALSE])
  /\ Skip(t)
  /\ UNCHANGED <<node, traversed, decided, cmd, timer, budget>>

-----------------------------------------------------------------------------
(* Commands: dispatch, result, retry *)

\* createCommandRun, then the node is written RUNNING with the command's id
\* and command_attempt.
CreateCommand(t, tries) ==
  LET r == RunOf(t)  c == Call(t).c  k == Call(t).k
  IN /\ cmd' = Append(cmd, [run |-> r, c |-> c, k |-> k, state |-> "CREATED",
                            live |-> FALSE, fired |-> FALSE])
     /\ node' = [node EXCEPT ![r][c][k] = [state |-> "RUNNING", tries |-> tries]]
     /\ Return(t, [Snap(t) EXCEPT !.node[c][k].tries = tries],
               <<[OnNode("send", c, k) EXCEPT !.i = Len(cmd) + 1]>>)
     /\ UNCHANGED <<run, traversed, decided, timer, budget>>
Tries(t) == Snap(t).node[Call(t).c][Call(t).k].tries
Dispatches(t, type) ==
  Calls(t, "dispatch") /\ TypeOf(RunOf(t), Call(t).k) \in type

DispatchCapability(t) ==
  Dispatches(t, {"ROBOT_CAPABILITY", "TOPIC"}) /\ CreateCommand(t, Tries(t))
DispatchSsh(t) == Dispatches(t, {"SSH"}) /\ CreateCommand(t, Tries(t))
\* A NAVIGATION node's output is replaced, and command_attempt with it.
DispatchNavigation(t) == Dispatches(t, {"NAVIGATION"}) /\ CreateCommand(t, 1)

\* The robot runtime (or the SSH worker) takes the command.  An SSH command is
\* marked ACTIVE, and its node written RUNNING once more, before that.
After(t, op) == [Call(t) EXCEPT !.op = op]
SendCommand(t) ==
  /\ Calls(t, "send") \/ Calls(t, "hand")
  /\ LET type == TypeOf(RunOf(t), Call(t).k)
         ssh == Calls(t, "send") /\ type = "SSH"
     IN /\ cmd' = [cmd EXCEPT ![Call(t).i].live = ~ssh /\ type # "TOPIC"]
        /\ Return(t, Snap(t),
             CASE ssh -> <<After(t, "mark"),
                           OnNode("stamp", Call(t).c, Call(t).k), After(t, "hand")>>
               [] type = "TOPIC" -> <<After(t, "mark"), After(t, "published")>>
               [] type \in {"ROBOT_CAPABILITY", "NAVIGATION"} -> <<After(t, "mark")>>
               [] OTHER -> <<>>)
  /\ UNCHANGED <<run, node, traversed, decided, timer, budget>>

\* Or refuses it: it is FAILED, the node is retried, a NAVIGATION node fails.
RefuseCommand(t) ==
  /\ Calls(t, "send") \/ Calls(t, "hand")
  /\ cmd' = [cmd EXCEPT ![Call(t).i].state = "FAILED"]
  /\ Return(t, Snap(t),
            <<After(t, IF TypeOf(RunOf(t), Call(t).k) = "NAVIGATION" THEN "fail"
                       ELSE "retry")>>)
  /\ UNCHANGED <<run, node, traversed, decided, timer, budget>>

MarkDispatched(t) ==
  /\ Calls(t, "mark")
  /\ LET i == Call(t).i
     IN cmd' = [cmd EXCEPT ![i].state = IF @ = "CREATED" THEN "ACTIVE" ELSE @]
  /\ Skip(t)
  /\ UNCHANGED <<run, node, traversed, decided, timer, budget>>

\* A TOPIC is done once published: its RESULT events precede its completion.
TopicPublished(t) ==
  /\ Calls(t, "published")
  /\ LET k == Call(t).k
     IN /\ cmd' = [cmd EXCEPT ![Call(t).i].state = "SUCCEEDED"]
        /\ Return(t, Snap(t), EmitResult(RunOf(t), k, TRUE) \o <<OnKey("complete", k)>>)
  /\ UNCHANGED <<run, node, traversed, decided, timer, budget>>

\* A result arrives for a command the robot still owes one: under the gate,
\* the command is completed whatever its state ...
CommandResult(i, ok) ==
  /\ gate = NoThread /\ Idle(Callback) /\ cmd[i].live
  /\ cmd' = [cmd EXCEPT ![i].live = FALSE,
                        ![i].state = IF ok THEN "SUCCEEDED" ELSE "FAILED"]
  /\ gate' = Callback
  /\ stack' = [stack EXCEPT ![Callback] =
       <<Frame(cmd[i].run, Load(cmd[i].run),
               <<WithOutcome(OnIndex("result", i), ok)>>)>>]
  /\ UNCHANGED <<run, node, traversed, decided, timer, budget>>

\* ... then the run is loaded, and only a RUNNING node of a RUNNING run moves.
Applies(t, ssh) ==
  Calls(t, "result") /\ ssh = (TypeOf(RunOf(t), cmd[Call(t).i].k) = "SSH")
ApplyTo(t, calls) ==
  /\ LET r == RunOf(t)
         n == cmd[Call(t).i]
     IN IF run[r].state = "RUNNING" /\ node[r][n.c][n.k].state = "RUNNING"
          THEN Return(t, Load(r), calls)
          ELSE Skip(t)
  /\ UNCHANGED <<db, timer, budget>>

\* handleRosCommandEvent completes the node before the RESULT events.
ApplyResult(t) ==
  /\ Applies(t, FALSE)
  /\ LET c == cmd[Call(t).i].c  k == cmd[Call(t).i].k
     IN ApplyTo(t, IF Call(t).ok
                     THEN <<OnKey("complete", k)>> \o EmitResult(RunOf(t), k, TRUE)
                     ELSE EmitResult(RunOf(t), k, FALSE) \o <<OnNode("retry", c, k)>>)

\* handleStartupResult emits first, and not at all for a failure.
ApplySshResult(t) ==
  /\ Applies(t, TRUE)
  /\ LET c == cmd[Call(t).i].c  k == cmd[Call(t).i].k
     IN ApplyTo(t, IF Call(t).ok
                     THEN EmitResult(RunOf(t), k, TRUE) \o <<OnKey("complete", k)>>
                     ELSE <<OnNode("stamp", c, k), OnNode("retry", c, k)>>)

\* A feedback message whose condition rises: the gate of the event spec lets
\* it through max_firings times (here once per command).
CommandFeedback(i) ==
  /\ gate = NoThread /\ Idle(Callback) /\ cmd[i].live /\ ~cmd[i].fired
  /\ LET r == cmd[i].run
         todo == FollowEdges(r, cmd[i].k, "event",
                             Graph[r].node[cmd[i].k].feedback)
     IN /\ run[r].state = "RUNNING"
        /\ todo # <<>>
        /\ gate' = Callback
        /\ stack' = [stack EXCEPT ![Callback] = <<Frame(r, Load(r), todo)>>]
  /\ cmd' = [cmd EXCEPT ![i].fired = TRUE]
  /\ UNCHANGED <<run, node, traversed, decided, timer, budget>>

\* command_attempt counts the commands of a node run.
ExhaustedOffByOne(r, row, k) == row.tries > Graph[r].node[k].retry + 1
Exhausted(r, row, k) == row.tries > Graph[r].node[k].retry

\* scheduleNodeRetry: the node stays RUNNING until the timer task, or fails
\* when command_attempt exceeds retry_count.
ScheduleRetry(t) ==
  /\ Calls(t, "retry")
  /\ LET r == RunOf(t)  c == Call(t).c  k == Call(t).k
     IN IF Exhausted(r, Snap(t).node[c][k], k)
          THEN /\ Return(t, Snap(t), <<OnKey("fail", k)>>)
               /\ UNCHANGED <<node, timer>>
          ELSE /\ node' = [node EXCEPT ![r][c][k] =
                    [state |-> "RUNNING", tries |-> Snap(t).node[c][k].tries]]
               /\ timer' = BagAdd(timer, [kind |-> "retry", run |-> r,
                                          c |-> c, k |-> k])
               /\ Skip(t)
  /\ UNCHANGED <<run, traversed, decided, cmd, budget>>

RetryNode(t) ==
  /\ Calls(t, "again")
  /\ LET r == RunOf(t)  c == Call(t).c  k == Call(t).k
         tries == Snap(t).node[c][k].tries + 1
     IN /\ node' = [node EXCEPT ![r][c][k] =
                      [state |-> "RUNNING", tries |-> tries]]
        /\ Return(t, [Snap(t) EXCEPT !.node[c][k].tries = tries],
                  <<ExecuteNode(r, c, k)>>)
  /\ UNCHANGED <<run, traversed, decided, cmd, timer, budget>>

-----------------------------------------------------------------------------
(* The timer thread runs one due task at a time; delays differ, so any task  *)
(* of the bag may be the next one.  Each task loads the run and gives up     *)
(* unless it is RUNNING.                                                     *)

FireTaskAndKeep(task) ==
  /\ Idle(Timer) /\ task \in DOMAIN timer
  /\ UNCHANGED <<timer, traversed, decided, cmd, budget>>

FireTask(task) ==
  /\ Idle(Timer) /\ task \in DOMAIN timer
  /\ timer' = BagRemove(timer, task)
  /\ UNCHANGED <<traversed, decided, cmd, budget>>

StillRunning(task) ==
  /\ run[task.run].state = "RUNNING"
  /\ node[task.run][task.c][task.k].state = "RUNNING"

FireDelay(task) ==
  /\ task.kind = "delay" /\ gate = NoThread
  /\ FireTask(task)
  /\ IF StillRunning(task)
       THEN /\ gate' = Timer
            /\ stack' = [stack EXCEPT ![Timer] =
                 <<Frame(task.run, Load(task.run),
                         <<OnKey("complete", task.k)>>)>>]
       ELSE UNCHANGED <<stack, gate>>
  /\ UNCHANGED <<run, node>>

FireRetry(task) ==
  /\ task.kind = "retry"
  /\ FireTask(task)
  /\ IF StillRunning(task)
       THEN stack' = [stack EXCEPT ![Timer] =
              <<Frame(task.run, Load(task.run),
                      <<OnNode("again", task.c, task.k)>>)>>]
       ELSE UNCHANGED stack
  /\ UNCHANGED <<run, node, gate>>

\* createNextWorkflowCycle locks the run row and re-checks RUNNING; the unique
\* (run, key, attempt) index rejects an attempt that exists.  Either throws,
\* and the timer loop goes on.
FireCycle(task) ==
  /\ task.kind = "cycle"
  /\ FireTask(task)
  /\ LET r == task.run
     IN IF run[r].state = "RUNNING" /\ Len(node[r]) = task.c - 1
          THEN /\ node' = [node EXCEPT ![r] = Append(@, FreshNodes(r))]
               /\ run' = [run EXCEPT ![r].cycle = task.c, ![r].next = FALSE]
               /\ stack' = [stack EXCEPT ![Timer] =
                             <<Frame(r, Load(r), <<Op("boot")>>)>>]
          ELSE UNCHANGED <<run, node, stack>>
  /\ UNCHANGED gate

-----------------------------------------------------------------------------
(* notifyParentRun: the child's end settles the node that waits for it, by a *)
(* compare-and-set, on a copy of the parent loaded now.                      *)

Notify(t) ==
  /\ Calls(t, "notify")
  /\ LET up == run[RunOf(t)].parent
     IN IF \/ up = NoParent
           \/ run[up[1]].state # "RUNNING"
           \/ node[up[1]][up[2]][up[3]].state # "WAITING_EVENT"
          THEN Skip(t)
          ELSE Enter(t, Frame(up[1], Load(up[1]),
                 <<WithOutcome(OnNode("settle", up[2], up[3]), Call(t).ok)>>))
  /\ UNCHANGED <<db, timer, budget>>

\* Without a failure edge the parent becomes FAILED and notifies nobody.
SettleSubflow(t) ==
  /\ Calls(t, "settle")
  /\ LET r == RunOf(t)  c == Call(t).c  k == Call(t).k
         state == IF Call(t).ok THEN "SUCCEEDED" ELSE "FAILED"
         kind == IF Call(t).ok THEN "success" ELSE "failure"
     IN IF node[r][c][k].state # "WAITING_EVENT"
          THEN Skip(t) /\ UNCHANGED node
          ELSE /\ UpdateNodeRun(r, c, k, state)
               /\ Return(t, SetNode(Snap(t), c, k, state),
                         IF Call(t).ok \/ HasFailureEdge(r, k)
                           THEN FollowEdges(r, k, kind, NoEvent)
                                \o <<Op("maybeFinish")>>
                           ELSE <<Op("failRun")>>)
  /\ UNCHANGED <<run, traversed, decided, cmd, timer, budget>>

-----------------------------------------------------------------------------
(* HTTP requests *)

\* An idle HTTP thread takes one more request of this kind.
Request(h, kind, frame) ==
  /\ Idle(h) /\ budget[kind] > 0
  /\ budget' = [budget EXCEPT ![kind] = @ - 1]
  /\ stack' = [stack EXCEPT ![h] = <<frame>>]
  /\ UNCHANGED <<timer, gate>>

StartManual(h, r) ==
  /\ CreateWorkflowRun(r, NoParent)
  /\ Request(h, "start", Frame(r, Load(r), <<Op("boot")>>))
  /\ UNCHANGED <<traversed, decided, cmd>>

\* cancel: the open NAVIGATION commands, the open nodes, then the run, all as
\* loaded; the parent learns that its child did not succeed.  There is no
\* check of the run's state.
Cancel(h, r) ==
  /\ run[r].state # "NONE"
  /\ LET commands == {i \in DOMAIN cmd : /\ cmd[i].run = r
                                         /\ TypeOf(r, cmd[i].k) = "NAVIGATION"
                                         /\ cmd[i].state \in OpenCommand}
     IN Request(h, "cancel",
                Frame(r, [Load(r) EXCEPT !.commands = commands],
                      <<Op("cancelCommands"), Op("cancelNodes"),
                        Op("cancelRun"), NotifyParent(FALSE)>>))
  /\ UNCHANGED db

CancelCommand(t) ==
  /\ Calls(t, "cancelCommands")
  /\ \/ /\ Snap(t).commands = {}
        /\ Skip(t)
        /\ UNCHANGED cmd
     \/ \E i \in Snap(t).commands :
          /\ cmd' = [cmd EXCEPT ![i].state = "CANCELLED"]
          /\ Return(t, [Snap(t) EXCEPT !.commands = @ \ {i}], <<Call(t)>>)
  /\ UNCHANGED <<run, node, traversed, decided, timer, budget>>

OpenNodes(snap) ==
  {n \in (DOMAIN snap.node) \X (DOMAIN Latest(snap)) :
     snap.node[n[1]][n[2]].state \in OpenNode}

CancelNode(t) ==
  /\ Calls(t, "cancelNodes")
  /\ \/ /\ OpenNodes(Snap(t)) = {}
        /\ Skip(t)
        /\ UNCHANGED node
     \/ \E n \in OpenNodes(Snap(t)) :
          /\ UpdateNodeRun(RunOf(t), n[1], n[2], "CANCELLED")
          /\ Return(t, SetNode(Snap(t), n[1], n[2], "CANCELLED"), <<Call(t)>>)
  /\ UNCHANGED <<run, traversed, decided, cmd, timer, budget>>

CancelRun(t) ==
  /\ Calls(t, "cancelRun")
  /\ UpdateWorkflowRunState(RunOf(t), "CANCELLED", Snap(t))
  /\ Return(t, [Snap(t) EXCEPT !.state = "CANCELLED"], <<>>)
  /\ UNCHANGED <<node, traversed, decided, cmd, timer, budget>>

\* decideManualConfirmation: load and check, then transition the node from
\* PAUSED; whoever finds it in another state is told it was decided already.
DecideManual(h, r, c, k, ok) ==
  /\ TypeOf(r, k) = "MANUAL_CONFIRM"
  /\ run[r].state = "RUNNING"
  /\ Request(h, "decide",
             Frame(r, Load(r), <<WithOutcome(OnNode("decide", c, k), ok)>>))
  /\ UNCHANGED db

\* transitionNodeRun changes a row that is in the expected state.
UndecidedUnchecked(r, c, k) == TRUE
Undecided(r, c, k) == node[r][c][k].state = "PAUSED"

ApplyDecision(t) ==
  /\ Calls(t, "decide")
  /\ LET r == RunOf(t)  c == Call(t).c  k == Call(t).k  ok == Call(t).ok
         state == IF ok THEN "SUCCEEDED" ELSE "FAILED"
     IN IF ~Undecided(r, c, k)
          THEN Throw(t) /\ UNCHANGED node
          ELSE /\ UpdateNodeRun(r, c, k, state)
               /\ Return(t, SetNode(Snap(t), c, k, state),
                         <<WithOutcome(OnNode("record", c, k), ok)>>)
  /\ UNCHANGED <<run, traversed, decided, cmd, timer, budget>>

\* The decision's event is another transaction, and its deduplication key is
\* unique: a second decision of the same node run throws after it has changed
\* the node.  A rejection without a failure edge cancels the other open nodes
\* and fails the run; the parent of a child run is not notified.
RecordDecision(t) ==
  /\ Calls(t, "record")
  /\ LET r == RunOf(t)  c == Call(t).c  k == Call(t).k  ok == Call(t).ok
     IN /\ decided' = decided \cup {<<r, c, k>>}
        /\ IF <<r, c, k>> \in decided THEN Throw(t)
           ELSE Return(t, Snap(t),
                  IF ok \/ HasFailureEdge(r, k)
                    THEN FollowEdges(r, k, IF ok THEN "success" ELSE "failure",
                                     NoEvent)
                         \o <<Op("maybeFinish")>>
                    ELSE <<Op("cancelNodes"), Op("failRun")>>)
  /\ UNCHANGED <<run, node, traversed, cmd, timer, budget>>

\* injectEvent: the waiting node runs are listed once, each is completed on a
\* copy of its run loaded later; then the workflows the event triggers start.
InjectEvent(h, ev) ==
  /\ LET r == CHOOSE r \in Run : TRUE   \* the frame loads no run
     IN Request(h, "inject",
                Frame(r, Load(r), <<[Op("inject") EXCEPT !.ev = ev]>>))
  /\ UNCHANGED db

Events == ({Graph[r].trigger : r \in Run} \cup
           UNION {{Graph[r].node[k].event : k \in Key(r)} : r \in Run})
          \ {NoEvent}

WaitingRuns(ev) ==
  {n \in UNION {{r} \X (DOMAIN node[r]) \X Key(r) : r \in Run} :
     /\ node[n[1]][n[2]][n[3]].state = "WAITING_EVENT"
     /\ Graph[n[1]].node[n[3]].event = ev}

ListWaiting(t) ==
  /\ Calls(t, "inject")
  /\ LET ev == Call(t).ev
     IN Return(t, [Snap(t) EXCEPT !.waiting = WaitingRuns(ev)],
               <<Op("wake"), [Op("startRun") EXCEPT !.ev = ev]>>)
  /\ UNCHANGED <<db, timer, budget>>

\* Only the run's state is checked; the node is completed whatever its state.
WakeRun(t) ==
  /\ Calls(t, "wake")
  /\ \/ Snap(t).waiting = {} /\ Skip(t)
     \/ \E n \in Snap(t).waiting :
          LET left == Frame(RunOf(t), [Snap(t) EXCEPT !.waiting = @ \ {n}],
                            Top(t).todo)
          IN SetStack(t,
               (IF run[n[1]].state = "RUNNING"
                  THEN <<Frame(n[1], Load(n[1]), <<OnKey("complete", n[3])>>)>>
                  ELSE <<>>)
               \o <<left>> \o Tail(stack[t]))
  /\ UNCHANGED <<db, timer, budget>>

\* The slots an event triggers are those of one workflow; when all are taken
\* the bound on runs is reached and no run starts.
StartByEvent(t) ==
  /\ Calls(t, "startRun")
  /\ LET slots == {r \in Run : /\ Graph[r].trigger = Call(t).ev
                               /\ run[r].state = "NONE"}
     IN \/ slots = {} /\ Skip(t) /\ UNCHANGED <<run, node>>
        \/ \E r \in slots :
             /\ CreateWorkflowRun(r, NoParent)
             /\ Enter(t, Frame(r, Load(r), <<Op("boot")>>))
  /\ UNCHANGED <<traversed, decided, cmd, timer, budget>>

-----------------------------------------------------------------------------
(* The process dies: frames, timer tasks and result handlers are in memory   *)
(* only; a new process does not resume them.                                 *)

Restart ==
  /\ budget["restart"] > 0
  /\ budget' = [budget EXCEPT !["restart"] = @ - 1]
  /\ stack' = [t \in Thread |-> <<>>]
  /\ timer' = EmptyBag
  /\ gate' = NoThread
  /\ cmd' = [i \in DOMAIN cmd |-> [cmd[i] EXCEPT !.live = FALSE]]
  /\ UNCHANGED <<run, node, traversed, decided>>

Init ==
  /\ run = [r \in Run |-> [state |-> "NONE", cycle |-> 1, next |-> FALSE,
                           parent |-> NoParent]]
  /\ node = [r \in Run |-> <<>>]
  /\ traversed = [r \in Run |-> {}]
  /\ decided = {}
  /\ cmd = <<>>
  /\ stack = [t \in Thread |-> <<>>]
  /\ timer = EmptyBag
  /\ gate = NoThread
  /\ budget = Budget

Step(t) ==
  \/ CompleteNode(t) \/ FailNode(t) \/ FailRun(t) \/ TraverseEdge(t)
  \/ ActivateNode(t) \/ FinishOrRepeat(t) \/ MaybeFinishRun(t)
  \/ ExecuteDelay(t) \/ ExecuteWait(t) \/ ExecuteContext(t)
  \/ ExecuteSubflow(t) \/ SpawnChild(t) \/ StoreOutput(t) \/ Bootstrap(t)
  \/ FailWithoutStart(t) \/ DispatchCapability(t) \/ DispatchSsh(t)
  \/ DispatchNavigation(t) \/ SendCommand(t) \/ RefuseCommand(t)
  \/ MarkDispatched(t) \/ TopicPublished(t) \/ ApplyResult(t)
  \/ ApplySshResult(t) \/ ScheduleRetry(t) \/ RetryNode(t)
  \/ Notify(t) \/ SettleSubflow(t)
  \/ CancelCommand(t) \/ CancelNode(t) \/ CancelRun(t) \/ ApplyDecision(t)
  \/ RecordDecision(t) \/ ListWaiting(t) \/ WakeRun(t) \/ StartByEvent(t)

Fire(task) == FireDelay(task) \/ FireRetry(task) \/ FireCycle(task)
Result(i) == CommandResult(i, TRUE) \/ CommandResult(i, FALSE)

HttpRequest(h) ==
  \/ \E r \in Manual : StartManual(h, r)
  \/ \E r \in Cancellable : Cancel(h, r)
  \/ \E r \in Run : \E c \in DOMAIN node[r], k \in Key(r), ok \in BOOLEAN :
       DecideManual(h, r, c, k, ok)
  \/ \E ev \in Events : InjectEvent(h, ev)

Next ==
  \/ \E t \in Thread : Step(t)
  \/ \E task \in DOMAIN timer : Fire(task)
  \/ \E i \in DOMAIN cmd : Result(i) \/ CommandFeedback(i)
  \/ \E h \in Http : HttpRequest(h)
  \/ Restart

Spec == Init /\ [][Next]_vars

\* The threads and the timer keep going, and a command that was accepted is
\* answered: an SSH job before its deadline, a robot as long as it is connected.
Fairness ==
  /\ \A t \in Thread : WF_vars(Step(t))
  /\ WF_vars(\E task \in DOMAIN timer : Fire(task))
  /\ WF_vars(\E i \in DOMAIN cmd : Result(i))

FairSpec == Spec /\ Fairness

-----------------------------------------------------------------------------
(* Type correctness *)

RunState == {"NONE", "RUNNING"} \cup Terminal
NodeState == OpenNode \cup Terminal
NodeRow == [state : NodeState, tries : Nat]
NodeRows(r) == Seq([Key(r) -> NodeRow])
Traversal(r) == EdgeIds(r) \X Nat

\* Node runs are never deleted and commands never change hands, so what exists
\* is given by the number of attempts of each run and the run of each command.
Attempts == [r \in Run |-> Len(node[r])]
Owner == [i \in DOMAIN cmd |-> cmd[i].run]
NodeRun(attempts) == {n \in Run \X Nat \X NodeKey :
                        n[2] \in 1..attempts[n[1]] /\ n[3] \in Key(n[1])}

RunRow(attempts) == [state : RunState, cycle : Nat, next : BOOLEAN,
                     parent : {NoParent} \cup NodeRun(attempts)]
CommandRow == [run : Run, c : Nat, k : NodeKey, state : OpenCommand \cup Terminal,
               live : BOOLEAN, fired : BOOLEAN]
Task == [kind : {"delay", "retry", "cycle"}, run : Run, c : Nat, k : NodeKey \cup {""}]

\* A copy is no newer than its run.
Snapshot(r, owner, attempts) ==
  {s \in [state : RunState, cycle : Nat, next : BOOLEAN, node : NodeRows(r),
          traversed : SUBSET Traversal(r), commands : SUBSET DOMAIN owner,
          waiting : SUBSET NodeRun(attempts)] :
     /\ Len(s.node) <= attempts[r]
     /\ s.state = "NONE" <=> s.node = <<>>}

\* What a call may address, by its op.
KeyOps == {"complete", "fail", "activate", "context"}
RowOps == {"delay", "pause", "await", "subflow", "spawn", "park", "link",
           "stamp", "dispatch", "send", "hand", "mark", "published", "retry",
           "again", "settle", "decide", "record"}
CommandOps == {"result", "send", "hand", "mark", "published"}
FreeOps == {"boot", "inject", "wake", "startRun"}
OtherOps == {"edge", "finish", "maybeFinish", "failRun", "notify", "orphan",
             "cancelCommands", "cancelNodes", "cancelRun"}
OpRecord == [op : KeyOps \cup RowOps \cup CommandOps \cup FreeOps \cup OtherOps,
             c : Nat, k : NodeKey \cup {""}, i : Nat, ok : BOOLEAN,
             ev : EventName]
CallsOn(r, loaded, owner, attempts) ==
  {call \in OpRecord :
     /\ call.op \notin FreeOps => loaded > 0
     /\ call.op = "boot" => attempts[r] > 0
     /\ call.op \in KeyOps \cup RowOps => call.k \in Key(r)
     /\ call.op \in RowOps => call.c \in 1..loaded
     /\ call.op \in CommandOps => call.i \in DOMAIN owner /\ owner[call.i] = r
     /\ call.op = "edge" => call.i \in EdgeIds(r)}

FrameOK(f, owner, attempts) ==
  /\ f = Frame(f.run, f.snap, f.todo)
  /\ f.run \in Run
  /\ f.snap \in Snapshot(f.run, owner, attempts)
  /\ f.todo \in Seq(CallsOn(f.run, Len(f.snap.node), owner, attempts))
  /\ f.todo # <<>>

FramesOf(s) == {s[n] : n \in DOMAIN s}
StackOK(s, owner, attempts) ==
  /\ s \in Seq(FramesOf(s))
  /\ \A f \in FramesOf(s) : FrameOK(f, owner, attempts)

\* Every row has its fields, and every call a handler or a timer task still has
\* to make addresses a node run, an edge or a command that exists: no handler
\* runs into a row that is not there.
RunsOK ==
  /\ run \in [Run -> RunRow(Attempts)]
  /\ DOMAIN node = Run /\ DOMAIN traversed = Run
  /\ \A r \in Run : /\ node[r] \in NodeRows(r)
                    /\ traversed[r] \subseteq Traversal(r)
                    /\ run[r].state = "NONE" <=> node[r] = <<>>
  /\ decided \subseteq NodeRun(Attempts)
CommandsOK ==
  /\ cmd \in Seq(CommandRow)
  /\ \A i \in DOMAIN cmd :
       <<cmd[i].run, cmd[i].c, cmd[i].k>> \in NodeRun(Attempts)
StacksOK ==
  /\ DOMAIN stack = Thread
  /\ \A t \in Thread : StackOK(stack[t], Owner, Attempts)
TimerOK ==
  \A task \in DOMAIN timer :
    /\ task \in Task /\ Attempts[task.run] > 0
    /\ task.kind # "cycle" => <<task.run, task.c, task.k>> \in NodeRun(Attempts)
TypeOK ==
  /\ RunsOK /\ CommandsOK /\ StacksOK /\ TimerOK
  /\ gate \in {NoThread, Timer, Callback}
  /\ budget \in [RequestKind -> Nat]

-----------------------------------------------------------------------------
(* Joins and commands *)

StateOf(n) == node[n[1]][n[2]][n[3]].state
CommandsOf(n) == {i \in DOMAIN cmd : <<cmd[i].run, cmd[i].c, cmd[i].k>> = n}
Existing == UNION {{r} \X (DOMAIN node[r]) \X Key(r) : r \in Run}

\* What the tables say of the edges that converge on n.
IncomingDone(n) ==
  \A i \in JoinIncomingEdges(n[1], n[3]) :
    LET e == Graph[n[1]].edges[i]
    IN IF e.kind = "success"
         THEN StateOf(<<n[1], n[2], e.src>>) = "SUCCEEDED"
         ELSE <<i, n[2]>> \in traversed[n[1]]

\* No thread, timer task or robot has anything left to do.
Quiescent == /\ \A t \in Thread : Idle(t)
             /\ timer = EmptyBag
             /\ \A i \in DOMAIN cmd : ~cmd[i].live

\* A join does not sleep through its last arrival: when nothing is left to do,
\* no node of a RUNNING run is PENDING with all its incoming edges satisfied.
NoStrandedJoin ==
  Quiescent =>
    \A n \in Existing :
      /\ run[n[1]].state = "RUNNING" /\ n[2] = Len(node[n[1]])
      /\ JoinIncomingEdges(n[1], n[3]) # {} /\ StateOf(n) = "PENDING"
      => ~IncomingDone(n)

\* A robot is never given two commands for one node run at a time, whatever
\* the order of results, retries and joins.
OneOpenCommand ==
  \A n \in Existing : \A i, j \in CommandsOf(n) :
    cmd[i].state \in OpenCommand /\ cmd[j].state \in OpenCommand => i = j

\* Failure retries are finite: at most retry_count + 1 commands per node run.
RetriesBounded ==
  \A n \in Existing :
    Cardinality(CommandsOf(n)) <= Graph[n[1]].node[n[3]].retry + 1

-----------------------------------------------------------------------------
(* Runs without parallel branches *)

\* The nodes that wait for an event or the end of a child run.
Waits(r, k) == TypeOf(r, k) \in {"EVENT_WAIT", "SUBFLOW"}

\* Every node of such a run leads to at most one node for each outcome, and
\* neither event edges, EVENT_WAIT nor SUBFLOW nodes bring in another handler.
Sequential(r) ==
  /\ \A i \in EdgeIds(r) : Graph[r].edges[i].kind # "event"
  /\ \A i, j \in EdgeIds(r) :
       /\ Graph[r].edges[i].src = Graph[r].edges[j].src
       /\ Graph[r].edges[i].kind = Graph[r].edges[j].kind
       => i = j
  /\ \A k \in Key(r) : ~Waits(r, k)
SequentialRuns == {r \in Run : Sequential(r)}

\* The calls that carry a run on.
TokenOps == {"complete", "fail", "activate", "context", "edge", "boot", "delay",
             "pause", "park", "dispatch", "send", "hand", "published", "retry",
             "again", "result", "finish", "record"}

\* Places in a stack are counted from its bottom, and places in the list of a
\* frame from its end: what a handler pushes moves none of the others.
Nth(s, n) == s[Len(s) + 1 - n]
ListToken(calls, g, call) ==
  g \in 1..Len(calls) /\ call = Nth(calls, g) /\ call.op \in TokenOps
FrameToken(f, r, g, call) == f.run = r /\ ListToken(f.todo, g, call)
StackToken(s, r, h, g, call) == h \in 1..Len(s) /\ FrameToken(Nth(s, h), r, g, call)

\* The call at place g of the frame at place h, and the places of a stack.
CallAt(s, h, g) == Nth(Nth(s, h).todo, g)
PlacesOf(s) == UNION {{h} \X (1..Len(Nth(s, h).todo)) : h \in 1..Len(s)}

\* Where a run may be: at such a call, with a timer task, with a robot or an SSH
\* worker, or at a confirmation that is PAUSED.
CallTokens(stacks, r) ==
  UNION {{<<"call", t, q[1], q[2], CallAt(stacks[t], q[1], q[2])>> :
            q \in {q \in PlacesOf(stacks[t]) :
                     StackToken(stacks[t], r, q[1], q[2], CallAt(stacks[t], q[1], q[2]))}} :
         t \in Thread}
TaskTokens(tasks, r) == {<<"task", task>> : task \in {x \in DOMAIN tasks : x.run = r}}
LiveTokens(cmds, r) ==
  {<<"cmd", i>> : i \in {j \in DOMAIN cmds : cmds[j].run = r /\ cmds[j].live}}
RowTokens(rows, r) ==
  {<<"row", n[1], n[2]>> :
     n \in {m \in (DOMAIN rows) \X Key(r) : rows[m[1]][m[2]].state = "PAUSED"}}
Tokens(r) == CallTokens(stack, r) \cup TaskTokens(timer, r)
             \cup LiveTokens(cmd, r) \cup RowTokens(node[r], r)

Sole(S) == \A p, q \in S : p = q
OpenOf(cmds, r) == {i \in DOMAIN cmds : cmds[i].run = r /\ cmds[i].state \in OpenCommand}
HandOps == {"send", "hand", "published"}
\* The robot has command i, or it is being given to it.
Concerns(p, i) ==
  p = <<"cmd", i>> \/ (p[1] = "call" /\ p[5].op \in HandOps /\ p[5].i = i)
Once(tasks, r) == \A task \in DOMAIN tasks : task.run = r => tasks[task] = 1

\* A run is in one place, its timer tasks are scheduled once, and a command is
\* open only while it is the command's turn.
Alone(r) ==
  /\ Sole(Tokens(r)) /\ Once(timer, r) /\ Sole(OpenOf(cmd, r))
  /\ \A p \in Tokens(r) : \A i \in OpenOf(cmd, r) : Concerns(p, i)

\* A run without parallel branches is carried on by one call, one timer task,
\* one robot or one confirmation at a time, whatever requests, late answers and
\* restarts come in between: no lock keeps two handlers of a run apart, only
\* that each of them is brought in by the one before.
OnePlace == \A r \in SequentialRuns : Alone(r)

-----------------------------------------------------------------------------
(* The end of runs *)

\* A run that ended stays ended: no handler working on a copy loaded while it
\* was RUNNING brings it back.
EndedRunStaysEnded ==
  [][\A r \in Run : run[r].state \in Terminal => run'[r].state \in Terminal]_vars

\* No run gets more cycles than run_policy.loop_count.
CyclesBounded == \A r \in Run : Len(node[r]) <= Graph[r].loop

\* With threads that go on and robots that answer, every run comes to an end.
RunEnds ==
  \A r \in Run : (run[r].state = "RUNNING") ~> (run[r].state \in Terminal)

-----------------------------------------------------------------------------
(* Manual confirmation *)

\* The confirmations whose decision is on record, or whose decider is about to
\* record it.
Recording(t) ==
  IF Calls(t, "record") THEN {<<RunOf(t), Call(t).c, Call(t).k>>} ELSE {}
Recorded == decided \cup UNION {Recording(t) : t \in Thread}
Unrecorded ==
  {n \in Existing : /\ TypeOf(n[1], n[3]) = "MANUAL_CONFIRM"
                    /\ StateOf(n) \in {"SUCCEEDED", "FAILED"}
                    /\ n \notin Recorded}

\* A MANUAL_CONFIRM node is passed or failed by a recorded decision only; the
\* record is lost only if the process dies between transitionNodeRun and
\* insertWorkflowEvent.
DecisionRecorded == [][Restart \/ Unrecorded' \subseteq Unrecorded]_vars

\* A decision stands: neither a second one nor any handler changes the node.
DecideOnce == [][\A n \in decided : StateOf(n)' = StateOf(n)]_vars

-----------------------------------------------------------------------------
(* Subflows *)

ChildrenOf(n) == {r \in Run : run[r].parent = n}

\* A SUBFLOW node ends the way its child ended; it only ends without a child
\* when there is no published version to call.
SubflowSettled ==
  \A n \in Existing :
    TypeOf(n[1], n[3]) = "SUBFLOW" =>
      /\ StateOf(n) = "SUCCEEDED"
           => \E r \in ChildrenOf(n) : run[r].state = "SUCCEEDED"
      /\ StateOf(n) = "FAILED"
           => \A r \in ChildrenOf(n) : run[r].state \in {"FAILED", "CANCELLED"}

\* A RUNNING parent waits for the end of its child and no longer, unless the
\* process died in between.
ParentTold ==
  Quiescent /\ budget["restart"] = Budget["restart"] =>
    \A r \in Run : /\ run[r].state \in Terminal
                   /\ run[r].parent # NoParent
                   /\ run[run[r].parent[1]].state = "RUNNING"
                   => StateOf(run[r].parent) # "WAITING_EVENT"

-----------------------------------------------------------------------------
(* What the tables show of a run implements the promise made for it, as long *)
(* as nobody cancels it.                                                     *)

Status(state) == CASE state = "PENDING" -> "waiting"
                   [] state \in {"RUNNING", "WAITING_EVENT", "PAUSED"} -> "active"
                   [] OTHER -> state
Promise == INSTANCE WorkflowPromise WITH
  outcome <- [r \in Run |-> run[r].state],
  status <- [r \in Run |-> [c \in DOMAIN node[r] |->
                             [k \in Key(r) |-> Status(node[r][c][k].state)]]],
  taken <- traversed

\* Snapshots, callbacks, retries and timers are invisible in the tables: each
\* write is a step of the promise.
PromiseKept == Promise!Spec
=============================================================================
