-------------------------- MODULE ExecutionRuntime --------------------------
(***************************************************************************)
(* The execution runtime (concurrency/execution_runtime.cpp): a protocol   *)
(* pool that runs the strands of the robots and parallel tasks, a blocking *)
(* pool, delayed tasks, and the shutdown that drains both.  The pools,     *)
(* strands and timers are Boost.Asio's: a strand runs its tasks one at a   *)
(* time, in order, on any thread of its pool.                              *)
(***************************************************************************)
EXTENDS Naturals, Sequences, FiniteSets

CONSTANTS
  Robot,            \* robot ids
  Task,             \* the functions callers submit, each once
  Strand,           \* strand objects strandFor may allocate
  NoStrand,
  ProtocolThreads,
  BlockingThreads

ASSUME RuntimeAssumption ==
  /\ ProtocolThreads \in Nat \ {0}      \* validThreadCount
  /\ BlockingThreads \in Nat \ {0}
  /\ NoStrand \notin Strand
  /\ {"parallel", "blocking"} \cap (Strand \cup Robot) = {}

VARIABLES
  accepting,  \* accepting_
  joiner,     \* where the call of join() is
  strandOf,   \* robot_strands_
  queue,      \* lane -> tasks posted to it and not begun
  lane,       \* the lane a task was bound to
  group,      \* the task_group its guard reports: a robot, or a pool
  status      \* what has become of a task

runtime == <<accepting, joiner, strandOf, queue, lane, group, status>>

Lane == Strand \cup {"parallel", "blocking"}
Status == {"new", "refused", "armed", "queued", "running", "done", "dropped"}

Running(l) == {t \in Task : status[t] = "running" /\ lane[t] = l}
ProtocolTasks == {t \in Task : status[t] = "running" /\ lane[t] # "blocking"}

\* strandFor: the strand of the robot, allocated by its first task.
StrandForEach(r) == Strand \ {strandOf[q] : q \in Robot}
StrandForUnset(r) == {strandOf[r]}
StrandFor(r) == IF strandOf[r] # NoStrand
                  THEN {strandOf[r]}
                  ELSE Strand \ {strandOf[q] : q \in Robot}

Bind(r, s) == strandOf' = [strandOf EXCEPT ![r] = s]

Enqueue(t, l) ==
  /\ queue' = [queue EXCEPT ![l] = Append(@, t)]
  /\ status' = [status EXCEPT ![t] = "queued"]

Submit(t, l, g) ==
  /\ status[t] = "new"
  /\ lane' = [lane EXCEPT ![t] = l]
  /\ group' = [group EXCEPT ![t] = g]
  /\ Enqueue(t, l)

PostRobot(r, t) ==
  /\ accepting
  /\ \E s \in StrandFor(r) : Bind(r, s) /\ Submit(t, s, r)
  /\ UNCHANGED <<accepting, joiner>>

\* The timer is armed before the lifecycle mutex is released.
PostRobotAfter(r, t) ==
  /\ accepting
  /\ status[t] = "new"
  /\ \E s \in StrandFor(r) : Bind(r, s) /\ lane' = [lane EXCEPT ![t] = s]
  /\ group' = [group EXCEPT ![t] = r]
  /\ status' = [status EXCEPT ![t] = "armed"]
  /\ UNCHANGED <<accepting, joiner, queue>>

PostPool(t, l) ==
  /\ accepting
  /\ Submit(t, l, l)
  /\ UNCHANGED <<accepting, joiner, strandOf>>

PostParallel(t) == PostPool(t, "parallel")
PostBlockingUnchecked(t) ==
  Submit(t, "blocking", "blocking") /\ UNCHANGED <<accepting, joiner, strandOf>>
PostBlocking(t) == PostPool(t, "blocking")

\* Every post function returns false once join() has begun.
PostRefused(t) ==
  /\ ~accepting
  /\ status[t] = "new"
  /\ status' = [status EXCEPT ![t] = "refused"]
  /\ UNCHANGED <<accepting, joiner, strandOf, queue, lane, group>>

\* A timer that fires hands its task to the strand it is bound to.
Expire(t) ==
  /\ status[t] = "armed"
  /\ Enqueue(t, lane[t])
  /\ UNCHANGED <<accepting, joiner, strandOf, lane, group>>

ThreadFree(l) ==
  IF l = "blocking"
    THEN joiner # "joined" /\ Cardinality(Running(l)) < BlockingThreads
    ELSE joiner \notin {"blocking", "joined"}
         /\ Cardinality(ProtocolTasks) < ProtocolThreads

Start(l) ==
  /\ queue[l] # << >>
  /\ ThreadFree(l)
  /\ l \in Strand => Running(l) = {}
  /\ status' = [status EXCEPT ![Head(queue[l])] = "running"]
  /\ queue' = [queue EXCEPT ![l] = Tail(@)]
  /\ UNCHANGED <<accepting, joiner, strandOf, lane, group>>

\* guarded: a task that throws has ended like any other, and its thread goes on.
Finish(t) ==
  /\ status[t] = "running"
  /\ status' = [status EXCEPT ![t] = "done"]
  /\ UNCHANGED <<accepting, joiner, strandOf, queue, lane, group>>

\* join(): whoever turns accepting_ off goes on, and a later call returns.
BeginJoin ==
  /\ accepting
  /\ accepting' = FALSE
  /\ joiner' = "cancelling"
  /\ UNCHANGED <<strandOf, queue, lane, group, status>>

\* The handler of a cancelled timer sees an error and drops the task; a timer
\* that has fired is past cancelling.
CancelTimers ==
  /\ joiner = "cancelling"
  /\ joiner' = "protocol"
  /\ status' = [t \in Task |-> IF status[t] = "armed" THEN "dropped" ELSE status[t]]
  /\ UNCHANGED <<accepting, strandOf, queue, lane, group>>

\* thread_pool::join() returns when its pool has nothing left to do.
Open == {"armed", "queued", "running"}
PoolIdle(lanes) == \A t \in Task : status[t] \in Open => lane[t] \notin lanes

JoinProtocol ==
  /\ joiner = "protocol"
  /\ PoolIdle(Lane \ {"blocking"})
  /\ joiner' = "blocking"
  /\ UNCHANGED <<accepting, strandOf, queue, lane, group, status>>

JoinBlocking ==
  /\ joiner = "blocking"
  /\ PoolIdle({"blocking"})
  /\ joiner' = "joined"
  /\ UNCHANGED <<accepting, strandOf, queue, lane, group, status>>

Join == BeginJoin \/ CancelTimers \/ JoinProtocol \/ JoinBlocking

RuntimeInit ==
  /\ accepting = TRUE
  /\ joiner = "none"
  /\ strandOf = [r \in Robot |-> NoStrand]
  /\ queue = [l \in Lane |-> << >>]
  /\ lane = [t \in Task |-> "parallel"]
  /\ group = [t \in Task |-> "parallel"]
  /\ status = [t \in Task |-> "new"]

Post(t) == \/ \E r \in Robot : PostRobot(r, t) \/ PostRobotAfter(r, t)
           \/ PostParallel(t)
           \/ PostBlocking(t)
           \/ PostRefused(t)

RuntimeNext == \/ \E t \in Task : Post(t) \/ Expire(t) \/ Finish(t)
               \/ \E l \in Lane : Start(l)
               \/ Join

RuntimeSpec == RuntimeInit /\ [][RuntimeNext]_runtime

-----------------------------------------------------------------------------
\* Types, and the lane of a task is where its queue has it.
RuntimeTypeOK ==
  /\ accepting \in BOOLEAN
  /\ joiner \in {"none", "cancelling", "protocol", "blocking", "joined"}
  /\ strandOf \in [Robot -> Strand \cup {NoStrand}]
  /\ queue \in [Lane -> Seq(Task)]
  /\ lane \in [Task -> Lane]
  /\ group \in [Task -> Robot \cup {"parallel", "blocking"}]
  /\ status \in [Task -> Status]

\* "Tasks for one robot are serialized" (execution_runtime.hpp:39), delayed
\* ones with the others, whichever thread posted them.
OneTaskPerRobot ==
  \A t, u \in Task :
    /\ status[t] = "running" /\ status[u] = "running"
    /\ group[t] = group[u] /\ group[t] \in Robot
    => t = u

\* "Drains submitted work and joins all worker threads" (:47): when join()
\* returns every accepted task has run, or was a timer it cancelled.
Drained == joiner = "joined" => \A t \in Task : status[t] \notin Open

Waiting == [r \in Robot |-> IF strandOf[r] = NoStrand
                              THEN << >> ELSE queue[strandOf[r]]]
Active == [r \in Robot |-> {t \in Task : status[t] = "running" /\ group[t] = r}]
Queues == INSTANCE RobotQueues WITH waiting <- Waiting, active <- Active

\* The runtime implements a queue per robot, served one task at a time.
RobotQueuesSpec == Queues!Spec
=============================================================================
