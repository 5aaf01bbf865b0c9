------------------------ MODULE RobotDispatch_proofs ------------------------
(***************************************************************************)
(* Proofs about dispatch, for any number of robots, servers, commands,     *)
(* handler threads and messages: a verdict reaches the handler of its own  *)
(* goal and no other, none is lost while the connections are up, an outbox *)
(* row settles with its goal, and events fire as often as they are earned. *)
(* One thread starts a node, and it alone dispatches its command; the      *)
(* mutex of a robot gives its messages to one worker at a time; the gate   *)
(* keeps answers from a dispatch that is under way.                        *)
(***************************************************************************)
EXTENDS RobotDispatch, SequenceTheorems, WellFoundedInduction, TLAPS

-----------------------------------------------------------------------------
\* The steps that dispatch one command, and those that dispatch a list of nodes.
Sending == {"send", "record", "mark", "refused", "published"}
Dispatching == Sending \cup {"dispatch"}

\* What a robot says, and what a thread is about.
MessageType ==
  [server : Server, kind : {"feedback", "result"}, value : 0..1,
   outcome : {"none", "SUCCEEDED", "FAILED"}, about : Command \cup {NoGoal}]

ThreadType ==
  [pc : {"idle", "cancel", "leave", "over", "calls", "gate", "evaluate"} \cup Dispatching,
   msg : MessageType \cup {NoMessage}, strand : Robot \cup {Nobody},
   calls : SUBSET Command, open : SUBSET Command,
   cmd : Command \cup {NoGoal}, done : Command \cup {NoGoal},
   todo : Seq(Command), back : {"idle", "leave", "evaluate"}]

RowTypes ==
  /\ run \in {"CREATED", "RUNNING", "SUCCEEDED", "FAILED", "CANCELLED"}
  /\ node \in [Command -> {"idle", "RUNNING", "SUCCEEDED", "FAILED", "CANCELLED"}]
  /\ row \in [Command -> {"none", "CREATED", "ACTIVE", "SUCCEEDED", "FAILED",
                          "CANCELLED"}]
  /\ outbox \in [Command -> {"none", "PENDING", "SENT", "FAILED", "ACKNOWLEDGED"}]

HandlerTypes ==
  /\ listening \subseteq Command \X {"feedback", "result"}
  /\ pending \subseteq Command /\ finished \subseteq Command
  /\ goal \in [Command -> {"none", "working", "SUCCEEDED", "FAILED"}]
  /\ strand \in [Robot -> Seq(MessageType)]
  /\ responses \subseteq MessageType
  /\ mutex \in [Robot -> Thread \cup {Nobody}]
  /\ gate \in Thread \cup {Nobody}
  /\ applied \in [Command -> Seq({"none", "SUCCEEDED", "FAILED"})]
  /\ link \in [Robot -> BOOLEAN]

\* Where each kind of thread can be, and where a thread returns to when it has
\* started the nodes of its list.
Place(t) ==
  IF t = Api THEN {"idle", "cancel"} \cup Dispatching
  ELSE IF t = Timer THEN {"idle", "leave", "over"} \cup Dispatching
  ELSE {"idle", "calls", "gate", "evaluate"} \cup Dispatching

Home(t) == IF t = Api THEN "idle" ELSE IF t = Timer THEN "leave" ELSE "evaluate"

\* A thread has a command while it sends or waits for the gate, a list while it
\* dispatches, and a worker a message from the time it takes one.
ThreadOK(t, rec) ==
  /\ rec \in ThreadType
  /\ rec.pc \in Place(t)
  /\ rec.pc \in Dispatching => rec.back = Home(t)
  /\ rec.pc \in Sending \cup {"gate"} => rec.cmd \in Command
  /\ rec.pc = "dispatch" => rec.todo # << >>
  /\ rec.pc \notin Dispatching => rec.todo = << >>
  /\ t \in Worker => /\ rec.pc # "idle" => rec.msg \in MessageType
                     /\ rec.pc \in Dispatching \cup {"evaluate"} => rec.done \in Command

ThreadsOK ==
  /\ thread = [t \in Thread |-> thread[t]]
  /\ \A t \in Thread : ThreadOK(t, thread[t])

TypeInv == RowTypes /\ HandlerTypes /\ ThreadsOK

\* Types of the threads, under a move and under none.
LEMMA ThreadSet ==
  ASSUME ThreadsOK, NEW t \in Thread, NEW rec, ThreadOK(t, rec), Move(t, rec)
  PROVE  ThreadsOK'
BY DEF ThreadsOK, Move

\* No move keeps the types of the threads.
LEMMA ThreadKept ==
  ASSUME ThreadsOK, UNCHANGED thread
  PROVE  ThreadsOK'
BY DEF ThreadsOK

\* A thread that resumes has its types: it dispatches its list or goes where it was.
LEMMA ResumeOK ==
  ASSUME ThreadsOK, NEW t \in Thread, NEW rec \in ThreadType, Resume(t, rec),
         rec.back = Home(t),
         t \in Worker => rec.msg \in MessageType /\ rec.done \in Command
  PROVE  ThreadsOK'
<1> DEFINE pc == IF rec.todo = << >> THEN rec.back ELSE "dispatch"
           new == [rec EXCEPT !.pc = pc]
<1>1. Move(t, new)
  BY DEF Resume
<1>2. pc \in {"idle", "leave", "evaluate", "dispatch"}
  BY DEF Home
<1>3. new \in ThreadType
  BY <1>2 DEF ThreadType, Dispatching
<1>4. /\ new.pc = pc /\ new.back = rec.back /\ new.todo = rec.todo
      /\ new.msg = rec.msg /\ new.done = rec.done
  BY DEF ThreadType
<1> HIDE DEF new
<1>5. ThreadOK(t, new)
  BY <1>3, <1>4, DispatchAssumption DEF ThreadOK, Place, Home, Dispatching, Sending, Thread
<1> QED
  BY <1>1, <1>5, ThreadSet

\* A thread at rest is typed.
LEMMA RestedType == Rested \in ThreadType
BY DEF Rested, ThreadType, Dispatching

\* Steps of a dispatching thread keep the types of the threads.
LEMMA DispatchThreads ==
  ASSUME ThreadsOK, NEW t \in Thread, Dispatch(t)
  PROVE  ThreadsOK'
<1>0. ThreadOK(t, thread[t])
  BY DEF ThreadsOK
<1>1. CASE CreateCommand(t)
  <2> DEFINE rec == [thread[t] EXCEPT !.todo = Tail(@), !.cmd = Head(thread[t].todo),
                       !.pc = IF link[RobotFor(Head(thread[t].todo))] THEN "send" ELSE "refused"]
  <2>1. Move(t, rec)
    BY <1>0, <1>1 DEF CreateCommand, ThreadOK, ThreadType, Move
  <2>2. Head(thread[t].todo) \in Command /\ Tail(thread[t].todo) \in Seq(Command)
    BY <1>0, <1>1, HeadTailProperties DEF CreateCommand, At, ThreadOK, ThreadType
  <2>3. ThreadOK(t, rec)
    BY <1>0, <1>1, <2>2 DEF CreateCommand, At, ThreadOK, ThreadType, Dispatching, Sending, Place
  <2> QED
    BY <2>1, <2>3, ThreadSet
<1>2. ASSUME NEW pc \in Sending, thread[t].pc \in Sending, Go(t, pc)
      PROVE  ThreadsOK'
  <2> DEFINE rec == [thread[t] EXCEPT !.pc = pc]
  <2>1. ThreadOK(t, rec)
    BY <1>0, <1>2 DEF ThreadOK, ThreadType, Dispatching, Sending, Place
  <2> QED
    BY <1>2, <2>1, ThreadSet DEF Go
<1>3. ASSUME NEW rec \in ThreadType, thread[t].pc \in Sending, Resume(t, rec),
             rec.back = thread[t].back, rec.msg = thread[t].msg, rec.done = thread[t].done
      PROVE  ThreadsOK'
  BY <1>0, <1>3, ResumeOK DEF ThreadOK, Dispatching, Sending
<1>4. CASE Send(t)
  BY <1>2, <1>4 DEF Send, At, Sending
<1>5. CASE RecordSent(t)
  BY <1>2, <1>5 DEF RecordSent, At, Sending
<1>6. CASE MarkDispatched(t)
  BY <1>0, <1>2, <1>3, <1>6 DEF MarkDispatched, At, Sending, ThreadOK
<1>7. CASE Refused(t)
  BY <1>0, <1>3, <1>7 DEF Refused, At, Sending, ThreadOK
<1>8. CASE TopicPublished(t)
  <2> DEFINE c == thread[t].cmd
             rec == [thread[t] EXCEPT !.todo = Starts[c] \o @]
  <2>1. c \in Command /\ Starts[c] \in Seq(Command)
    BY <1>0, <1>8, StartedOnce DEF TopicPublished, At, ThreadOK, Sending
  <2>2. Starts[c] \o thread[t].todo \in Seq(Command)
    BY <1>0, <2>1, ConcatProperties DEF ThreadOK, ThreadType
  <2>3. rec \in ThreadType /\ rec.back = thread[t].back /\ rec.msg = thread[t].msg
        /\ rec.done = thread[t].done
    BY <1>0, <2>2 DEF ThreadOK, ThreadType
  <2>4. Resume(t, rec)
    BY <1>8 DEF TopicPublished, FollowEdges, Cmd
  <2> QED
    BY <1>3, <1>8, <2>3, <2>4 DEF TopicPublished, At, Sending
<1> QED
  BY <1>1, <1>4, <1>5, <1>6, <1>7, <1>8 DEF Dispatch

\* Steps that handle a message keep the types of the threads.
LEMMA ReceiveThreads ==
  ASSUME ThreadsOK, HandlerTypes, NEW w \in Worker, Receive(w)
  PROVE  ThreadsOK'
<1> w \in Thread /\ w \notin {Api, Timer}
  BY DispatchAssumption DEF Thread
<1> USE DEF Place
<1>0. ThreadOK(w, thread[w])
  BY DEF ThreadsOK
<1>1. ASSUME NEW m \in MessageType, NEW r \in Robot \cup {Nobody}, HandleIncoming(w, m, r)
      PROVE  ThreadsOK'
  <2> DEFINE rec == [Rested EXCEPT !.pc = "calls", !.msg = m, !.strand = r,
                                   !.calls = Handlers(m)]
  <2>1. Handlers(m) \subseteq Command
    BY DEF Handlers
  <2>2. ThreadOK(w, rec)
    BY <2>1, RestedType DEF ThreadOK, ThreadType, Rested, Dispatching, Sending
  <2> QED
    BY <1>1, <2>2, ThreadSet DEF HandleIncoming
<1>2. CASE HandlePublished(w)
  <2>1. PICK r \in Robot : strand[r] # << >> /\ HandleIncoming(w, Head(strand[r]), r)
    BY <1>2 DEF HandlePublished
  <2>2. Head(strand[r]) \in MessageType
    BY <2>1, HeadTailProperties DEF HandlerTypes
  <2> QED
    BY <1>1, <2>1, <2>2
<1>3. CASE HandleResponse(w)
  BY <1>1, <1>3 DEF HandleResponse, HandlerTypes
<1>4. CASE CallHandler(w)
  <2>1. PICK c \in thread[w].calls :
          \/ Move(w, [[thread[w] EXCEPT !.calls = @ \ {c}, !.cmd = c] EXCEPT !.pc = "gate"])
          \/ Move(w, [thread[w] EXCEPT !.calls = @ \ {c}, !.cmd = c])
    BY <1>4 DEF CallHandler
  <2> DEFINE rec(pc) == [thread[w] EXCEPT !.calls = @ \ {c}, !.cmd = c, !.pc = pc]
  <2>2. At(w, "calls") /\ c \in Command
    BY <1>0, <1>4 DEF CallHandler, ThreadOK, ThreadType
  <2>3. \E pc \in {"calls", "gate"} : Move(w, rec(pc))
    BY <1>0, <2>1, <2>2 DEF ThreadOK, ThreadType, At
  <2>4. \A pc \in {"calls", "gate"} : ThreadOK(w, rec(pc))
    BY <1>0, <2>2 DEF ThreadOK, ThreadType, At, Dispatching, Sending
  <2> QED
    BY <2>3, <2>4, ThreadSet
<1>5. CASE EndMessage(w)
  <2>1. ThreadOK(w, Rested)
    BY RestedType DEF ThreadOK, Rested, Dispatching, Sending
  <2> QED
    BY <1>5, <2>1, ThreadSet DEF EndMessage
<1>6. ASSUME thread[w].pc \in {"gate", "evaluate"}, Go(w, "calls")
      PROVE  ThreadsOK'
  <2> DEFINE rec == [thread[w] EXCEPT !.pc = "calls"]
  <2>1. ThreadOK(w, rec)
    BY <1>0, <1>6 DEF ThreadOK, ThreadType, Dispatching, Sending
  <2> QED
    BY <1>6, <2>1, ThreadSet DEF Go
<1>7. CASE ApplyFeedback(w)
  BY <1>6, <1>7 DEF ApplyFeedback, At
<1>8. CASE ApplyResult(w)
  <2> DEFINE c == thread[w].cmd
             rec == [thread[w] EXCEPT !.todo = Starts[c] \o @, !.back = "evaluate",
                                      !.done = c]
  <2>1. c \in Command /\ Starts[c] \in Seq(Command) /\ thread[w].pc = "gate"
    BY <1>0, <1>8, StartedOnce DEF ApplyResult, At, ThreadOK
  <2>2. Starts[c] \o thread[w].todo \in Seq(Command)
    BY <1>0, <2>1, ConcatProperties DEF ThreadOK, ThreadType
  <2>3. rec \in ThreadType /\ rec.back = Home(w) /\ rec.msg \in MessageType
        /\ rec.done \in Command
    BY <1>0, <2>1, <2>2 DEF ThreadOK, ThreadType, Home
  <2>4. \/ FollowEdges(w, c, [thread[w] EXCEPT !.back = "evaluate", !.done = c])
        \/ Go(w, "calls")
    BY <1>8 DEF ApplyResult, Cmd
  <2>5. CASE Go(w, "calls")
    BY <1>6, <2>1, <2>5
  <2>6. CASE FollowEdges(w, c, [thread[w] EXCEPT !.back = "evaluate", !.done = c])
    <3>1. Resume(w, rec)
      BY <1>0, <2>6 DEF FollowEdges, ThreadOK, ThreadType
    <3> QED
      BY <2>3, <3>1, ResumeOK
  <2> QED
    BY <2>4, <2>5, <2>6
<1>9. CASE EvaluateResult(w)
  BY <1>6, <1>9 DEF EvaluateResult, At
<1> QED
  BY <1>2, <1>3, <1>4, <1>5, <1>7, <1>8, <1>9 DEF Receive

\* Steps that start the run, end the delay or cancel keep the types of the threads.
LEMMA StartThreads ==
  ASSUME ThreadsOK, StartRun \/ DelayOver \/ LeaveDelay \/ BeginCancel
                      \/ CancelNavigation \/ EndCancel
  PROVE  ThreadsOK'
<1> /\ Api \in Thread /\ Timer \in Thread /\ Api # Timer
    /\ Api \notin Worker /\ Timer \notin Worker
  BY DispatchAssumption DEF Thread, Api, Timer
<1>0. ThreadOK(Api, thread[Api]) /\ ThreadOK(Timer, thread[Timer])
  BY DEF ThreadsOK
<1>1. CASE StartRun
  <2> DEFINE rec == [Rested EXCEPT !.todo = Initial]
  <2>1. rec \in ThreadType /\ rec.back = "idle"
    BY RestedType, StartedOnce DEF ThreadType, Rested
  <2> QED
    BY <1>1, <2>1, ResumeOK DEF StartRun, Home
<1>2. ASSUME NEW pc \in {"leave", "over"}, Go(Timer, "over"), thread[Timer].todo = << >>
      PROVE  ThreadsOK'
  <2> DEFINE rec == [thread[Timer] EXCEPT !.pc = "over"]
  <2>1. ThreadOK(Timer, rec)
    BY <1>0, <1>2 DEF ThreadOK, ThreadType, Dispatching, Sending, Place
  <2> QED
    BY <1>2, <2>1, ThreadSet DEF Go
<1>3. CASE DelayOver
  <2> DEFINE rec == [Rested EXCEPT !.todo = Delayed, !.back = "leave"]
  <2>1. rec \in ThreadType /\ rec.back = "leave"
    BY RestedType, StartedOnce DEF ThreadType, Rested
  <2>2. Resume(Timer, rec) \/ Go(Timer, "over")
    BY <1>3 DEF DelayOver
  <2>3. thread[Timer].todo = << >>
    BY <1>0, <1>3 DEF DelayOver, At, ThreadOK, Dispatching, Sending
  <2> QED
    BY <1>2, <2>1, <2>2, <2>3, ResumeOK DEF Home
<1>4. CASE LeaveDelay
  <2>1. thread[Timer].todo = << >>
    BY <1>0, <1>4 DEF LeaveDelay, At, ThreadOK, Dispatching, Sending
  <2> QED
    BY <1>2, <1>4, <2>1 DEF LeaveDelay
<1>5. CASE BeginCancel
  <2> DEFINE rec == [Rested EXCEPT !.pc = "cancel", !.calls = OpenNavigation,
                                   !.open = OpenNodes]
  <2>1. OpenNavigation \subseteq Command /\ OpenNodes \subseteq Command
    BY DEF OpenNavigation, OpenNodes
  <2>2. ThreadOK(Api, rec)
    BY <2>1, RestedType DEF ThreadOK, ThreadType, Rested, Dispatching, Sending, Place
  <2> QED
    BY <1>5, <2>2, ThreadSet DEF BeginCancel
<1>6. CASE CancelNavigation
  <2>1. PICK c : Move(Api, [thread[Api] EXCEPT !.calls = @ \ {c}])
    BY <1>6 DEF CancelNavigation
  <2>2. ThreadOK(Api, [thread[Api] EXCEPT !.calls = @ \ {c}])
    BY <1>0, <1>6 DEF CancelNavigation, At, ThreadOK, ThreadType, Dispatching, Sending, Place
  <2> QED
    BY <2>1, <2>2, ThreadSet
<1>7. CASE EndCancel
  <2>1. ThreadOK(Api, Rested)
    BY RestedType DEF ThreadOK, Rested, Dispatching, Sending, Place
  <2> QED
    BY <1>7, <2>1, ThreadSet DEF EndCancel
<1> QED
  BY <1>1, <1>3, <1>4, <1>5, <1>6, <1>7

\* Every step keeps the types of the threads.
LEMMA ThreadsTyped ==
  ASSUME ThreadsOK, HandlerTypes, [Next]_vars
  PROVE  ThreadsOK'
<1>1. ASSUME NEW c \in Command, RobotFinishes(c) \/ RobotReports(c)
      PROVE  ThreadsOK'
  BY <1>1, ThreadKept DEF RobotFinishes, RobotReports, RobotSteps
<1>2. ASSUME NEW r \in Robot, LinkDown(r) \/ LinkUp(r)
      PROVE  ThreadsOK'
  BY <1>2, ThreadKept DEF LinkDown, LinkUp
<1>3. CASE UNCHANGED vars
  BY <1>3, ThreadKept DEF vars
<1> QED
  BY <1>1, <1>2, <1>3, DispatchThreads, ReceiveThreads, StartThreads DEF Next

\* Messages are typed, and so are the queues they are put into.
LEMMA MessageTyped ==
  ASSUME NEW c \in Command, NEW kind \in {"feedback", "result"}, NEW value \in 0..1,
         NEW outcome \in {"none", "SUCCEEDED", "FAILED"}
  PROVE  Message(c, kind, value, outcome) \in MessageType
BY DispatchAssumption DEF Message, MessageType

\* A message that is delivered leaves the queues typed.
LEMMA DeliverTyped ==
  ASSUME HandlerTypes, NEW c \in Command, NEW m \in MessageType, Deliver(c, m)
  PROVE  strand' \in [Robot -> Seq(MessageType)] /\ responses' \subseteq MessageType
<1>1. RobotFor(c) \in Robot
  BY DispatchAssumption DEF RobotFor
<1>2. Append(strand[RobotFor(c)], m) \in Seq(MessageType)
  BY <1>1, AppendProperties DEF HandlerTypes
<1> QED
  BY <1>1, <1>2 DEF Deliver, HandlerTypes, queues

\* Every step keeps the types of the rows, the handlers and the queues.
LEMMA DispatchTyped ==
  ASSUME TypeInv, NEW t \in Thread, Dispatch(t)
  PROVE  RowTypes' /\ HandlerTypes'
<1>0. ThreadOK(t, thread[t])
  BY DEF TypeInv, ThreadsOK
<1> USE DEF TypeInv, RowTypes, HandlerTypes, world, queues, handlers, locks, events
<1>1. CASE CreateCommand(t)
  <2>1. Head(thread[t].todo) \in Command
    BY <1>0, <1>1, HeadTailProperties DEF CreateCommand, At, ThreadOK, ThreadType
  <2> QED
    BY <1>1, <2>1 DEF CreateCommand
<1>2. CASE Send(t)
  <2>1. Cmd(t) \in Command
    BY <1>0, <1>2 DEF Send, At, ThreadOK, Sending, Cmd
  <2>2. Subscriptions(Cmd(t)) \subseteq Command \X {"feedback", "result"}
    BY <2>1 DEF Subscriptions
  <2> HIDE DEF TypeInv
  <2>3. HandlerTypes'
    <3>1. CASE ~ link[RobotFor(Cmd(t))]
      BY <1>2, <3>1 DEF Send, TypeInv
    <3>2. CASE link[RobotFor(Cmd(t))]
      <4>1. listening' = listening \cup Subscriptions(Cmd(t))
        BY <1>2, <3>2 DEF Send
      <4>2. pending' \subseteq pending \cup {Cmd(t)}
        BY <1>2, <3>2 DEF Send
      <4>3. goal' \in {goal, [goal EXCEPT ![Cmd(t)] = "working"]}
        BY <1>2, <3>2 DEF Send, TypeInv
      <4>4. UNCHANGED <<link, finished, strand, responses, mutex, gate, applied>>
        BY <1>2 DEF Send
      <4> QED
        BY <2>1, <2>2, <4>1, <4>2, <4>3, <4>4 DEF TypeInv
    <3> QED
      BY <3>1, <3>2
  <2> QED
    BY <1>2, <2>3 DEF Send, TypeInv, rows
<1>3. CASE RecordSent(t)
  BY <1>3 DEF RecordSent
<1>4. CASE MarkDispatched(t)
  BY <1>4 DEF MarkDispatched, Marked
<1>5. CASE Refused(t)
  BY <1>5 DEF Refused
<1>6. CASE TopicPublished(t)
  BY <1>6 DEF TopicPublished
<1> QED
  BY <1>1, <1>2, <1>3, <1>4, <1>5, <1>6 DEF Dispatch

\* The same for the steps that handle a message.
LEMMA ReceiveTyped ==
  ASSUME TypeInv, NEW w \in Worker, Receive(w)
  PROVE  RowTypes' /\ HandlerTypes'
<1> w \in Thread
  BY DEF Thread
<1>0. ThreadOK(w, thread[w])
  BY DEF TypeInv, ThreadsOK
<1> USE DEF TypeInv, RowTypes, HandlerTypes, world, queues, handlers, rows, locks, events
<1>1. CASE HandlePublished(w)
  <2>1. PICK r \in Robot : /\ strand[r] # << >> /\ HandleIncoming(w, Head(strand[r]), r)
                           /\ strand' = [strand EXCEPT ![r] = Tail(@)]
                           /\ responses' = responses
    BY <1>1 DEF HandlePublished
  <2>2. Tail(strand[r]) \in Seq(MessageType)
    BY <2>1, HeadTailProperties
  <2>3. strand' \in [Robot -> Seq(MessageType)]
    BY <2>1, <2>2
  <2> QED
    BY <2>1, <2>3 DEF HandleIncoming
<1>2. CASE HandleResponse(w)
  BY <1>2 DEF HandleResponse, HandleIncoming
<1>3. CASE CallHandler(w)
  <2>1. listening' \subseteq listening /\ pending' = pending
    BY <1>3 DEF CallHandler, Finish
  <2>2. finished' \subseteq Command
    BY <1>0, <1>3 DEF CallHandler, Finish, ThreadOK, ThreadType
  <2> QED
    BY <1>3, <2>1, <2>2 DEF CallHandler
<1>4. CASE EndMessage(w)
  BY <1>4 DEF EndMessage
<1>5. CASE ApplyFeedback(w)
  BY <1>5 DEF ApplyFeedback
<1>6. CASE ApplyResult(w)
  <2> DEFINE c == Cmd(w)
  <2>1. c \in Command /\ thread[w].msg.outcome \in {"none", "SUCCEEDED", "FAILED"}
    BY <1>0, <1>6 DEF ApplyResult, At, ThreadOK, MessageType, Cmd
  <2>2. Append(applied[c], thread[w].msg.outcome) \in Seq({"none", "SUCCEEDED", "FAILED"})
    BY <2>1, AppendProperties
  <2>3. applied' = [applied EXCEPT ![c] = Append(@, thread[w].msg.outcome)]
    BY <1>6 DEF ApplyResult
  <2>4. applied' \in [Command -> Seq({"none", "SUCCEEDED", "FAILED"})]
    BY <2>1, <2>2, <2>3
  <2>5. RowTypes'
    BY <1>6, <2>1 DEF ApplyResult, Verdict
  <2>6. gate' \in Thread \cup {Nobody}
    BY <1>6 DEF ApplyResult
  <2> QED
    BY <1>6, <2>4, <2>5, <2>6 DEF ApplyResult
<1>7. CASE EvaluateResult(w)
  BY <1>7 DEF EvaluateResult
<1> QED
  BY <1>1, <1>2, <1>3, <1>4, <1>5, <1>6, <1>7 DEF Receive

\* The same for starting and cancelling.
LEMMA StartTyped ==
  ASSUME TypeInv, StartRun \/ DelayOver \/ LeaveDelay \/ BeginCancel
                    \/ CancelNavigation \/ EndCancel
  PROVE  RowTypes' /\ HandlerTypes'
<1> USE DEF TypeInv, RowTypes, HandlerTypes, world, queues, handlers, rows, locks, events
<1>1. CASE StartRun
  BY <1>1 DEF StartRun
<1>2. CASE DelayOver
  BY <1>2 DEF DelayOver, Thread
<1>3. CASE LeaveDelay
  BY <1>3 DEF LeaveDelay
<1>4. CASE BeginCancel
  BY <1>4 DEF BeginCancel
<1>5. CASE CancelNavigation
  BY <1>5 DEF CancelNavigation
<1>6. CASE EndCancel
  BY <1>6 DEF EndCancel
<1> QED
  BY <1>1, <1>2, <1>3, <1>4, <1>5, <1>6

\* The same for the robots and the connections.
LEMMA RobotTyped ==
  ASSUME TypeInv, NEW c \in Command, RobotFinishes(c) \/ RobotReports(c)
  PROVE  RowTypes' /\ HandlerTypes'
<1>1. UNCHANGED <<RobotSteps>>
  BY DEF RobotFinishes, RobotReports
<1>2. goal' \in [Command -> {"none", "working", "SUCCEEDED", "FAILED"}]
  BY DEF RobotFinishes, RobotReports, TypeInv, HandlerTypes
<1>3. \E m \in MessageType : Deliver(c, m)
  <2>1. CASE RobotFinishes(c)
    BY <2>1, MessageTyped DEF RobotFinishes
  <2>2. CASE RobotReports(c)
    <3>1. goal[c] \in {"none", "working", "SUCCEEDED", "FAILED"} /\ goal[c] # "none"
      BY <2>2 DEF RobotReports, TypeInv, HandlerTypes
    <3> QED
      BY <2>2, <3>1, MessageTyped DEF RobotReports
  <2> QED
    BY <2>1, <2>2
<1>4. strand' \in [Robot -> Seq(MessageType)] /\ responses' \subseteq MessageType
  BY <1>3, DeliverTyped DEF TypeInv
<1> QED
  BY <1>1, <1>2, <1>4 DEF RobotSteps, TypeInv, RowTypes, HandlerTypes, handlers, rows,
     locks

\* Types are kept by every step, and hold at first.
LEMMA Typing ==
  ASSUME TypeInv, [Next]_vars
  PROVE  TypeInv'
<1>1. ThreadsOK'
  BY ThreadsTyped DEF TypeInv
<1>2. ASSUME NEW r \in Robot, LinkDown(r) \/ LinkUp(r)
      PROVE  RowTypes' /\ HandlerTypes'
  BY <1>2 DEF LinkDown, LinkUp, TypeInv, RowTypes, HandlerTypes, queues, handlers, rows,
     locks
<1>3. ASSUME UNCHANGED vars PROVE RowTypes' /\ HandlerTypes'
  BY <1>3 DEF vars, TypeInv, RowTypes, HandlerTypes, world, queues, handlers, rows, locks
<1>4. RowTypes' /\ HandlerTypes'
  <2>1. CASE \E t \in Thread : Dispatch(t)
    BY <2>1, DispatchTyped
  <2>2. CASE \E w \in Worker : Receive(w)
    BY <2>2, ReceiveTyped
  <2>3. CASE \E c \in Command : RobotFinishes(c) \/ RobotReports(c)
    BY <2>3, RobotTyped
  <2>4. CASE StartRun \/ DelayOver \/ LeaveDelay \/ BeginCancel \/ CancelNavigation
             \/ EndCancel
    BY <2>4, StartTyped
  <2> QED
    BY <1>2, <1>3, <2>1, <2>2, <2>3, <2>4 DEF Next
<1> QED
  BY <1>1, <1>4 DEF TypeInv

\* Types hold at first.
LEMMA InitTyped == Init => TypeInv
<1> SUFFICES ASSUME Init PROVE TypeInv
  OBVIOUS
<1>1. \A t \in Thread : ThreadOK(t, Rested)
  BY RestedType DEF ThreadOK, Rested, Dispatching, Sending, Place
<1> QED
  BY <1>1 DEF Init, TypeInv, RowTypes, HandlerTypes, ThreadsOK

-----------------------------------------------------------------------------
Sends(t, c) == thread[t].pc \in Sending /\ thread[t].cmd = c

\* The successors of a command are started by its answer, once; those of a topic
\* when it is published.
Spent(c) == IF Adapter[c] = "TOPIC" THEN row[c] = "SUCCEEDED" ELSE applied[c] # << >>

\* A command has a way to be started: the run, the delay, or a node before it.
Sprung(c) ==
  \/ run # "CREATED" /\ c \in ToSet(Initial)
  \/ thread[Timer].pc # "idle" /\ c \in ToSet(Delayed)
  \/ \E d \in Command : Spent(d) /\ c \in ToSet(Starts[d])

\* The nodes a thread has yet to start have no command row.
DueOK(t) ==
  /\ IsInjective(thread[t].todo)
  /\ \A c \in ToSet(thread[t].todo) : row[c] = "none" /\ Sprung(c)

\* A command is sent once: its goal is not yet made when it is to be sent.
SendOK(t) ==
  thread[t].pc \in Sending =>
    LET c == thread[t].cmd IN
      /\ row[c] # "none"
      /\ thread[t].pc \in {"send", "refused"} => goal[c] = "none"
      /\ thread[t].pc = "record" => Adapter[c] = "NAVIGATION"
      /\ thread[t].pc = "published" => Adapter[c] = "TOPIC"
      /\ Adapter[c] = "TOPIC" => row[c] \in {"CREATED", "ACTIVE"}

\* No two threads start the same node, or dispatch the same command.
TodosApart ==
  \A t, u \in Thread : t # u => ToSet(thread[t].todo) \cap ToSet(thread[u].todo) = {}

SendersApart ==
  \A t, u \in Thread : \A c \in Command : Sends(t, c) /\ Sends(u, c) => t = u

\* A goal is made after the row; handlers are installed with the goal, and given
\* up with the verdict.
CommandOK(c) ==
  /\ row[c] = "none" => goal[c] = "none"
  /\ row[c] # "none" => Sprung(c)
  /\ Adapter[c] = "TOPIC" => goal[c] = "none"
  /\ c \in pending => goal[c] # "none" /\ Adapter[c] \in {"SERVICE", "ACTION"} /\ applied[c] = << >>
  /\ \A k \in {"feedback", "result"} : <<c, k>> \in listening =>
        OnTopics(c) /\ goal[c] # "none" /\ c \notin finished
  /\ c \in finished => OnTopics(c) /\ goal[c] # "none"
  /\ applied[c] # << >> => goal[c] # "none" /\ (OnTopics(c) => c \in finished)

\* A cancellation names navigation commands that have a row.
CancelOK ==
  thread[Api].pc = "cancel" =>
    \A c \in thread[Api].calls : row[c] # "none" /\ Adapter[c] = "NAVIGATION"

-----------------------------------------------------------------------------
InHand(w, c) ==
  /\ thread[w].pc # "idle"
  /\ c \in thread[w].calls \/ (thread[w].pc = "gate" /\ thread[w].cmd = c)

\* A handler that a worker is about to call is of the server that sent the message,
\* has not been called with a verdict and is called once.
HandOK(w, c) ==
  InHand(w, c) =>
    LET m == thread[w].msg IN
      /\ ServerOf[c] = m.server /\ goal[c] # "none" /\ applied[c] = << >>
      /\ c \in thread[w].calls => c \notin finished
      /\ ~OnTopics(c) => /\ m.about = c
                         /\ c \in pending <=> m.kind = "feedback"
      /\ ~ (c \in thread[w].calls /\ thread[w].pc = "gate" /\ thread[w].cmd = c)
      /\ thread[w].pc = "gate" /\ thread[w].cmd = c /\ OnTopics(c) =>
           /\ Concerns(m, c) /\ Terminal(m)
           /\ c \in finished <=> m.kind = "result"

\* A worker has applied the verdict of a command and not yet evaluated its events.
Evaluates(w, c) ==
  thread[w].pc \in Dispatching \cup {"evaluate"} /\ thread[w].done = c

\* A worker has the mutex of the robot of its message from start to end.
HolderOK(w) ==
  /\ thread[w].pc # "idle" => mutex[RobotOf[thread[w].msg.server]] = w
  /\ \A c \in Command : HandOK(w, c)
  /\ \A c \in Command :
       Evaluates(w, c) => ServerOf[c] = thread[w].msg.server /\ applied[c] # << >>

\* The inductive invariant of dispatch.
Dues == \A t \in Thread : DueOK(t)
Senders == \A t \in Thread : SendOK(t)
Commands == \A c \in Command : CommandOK(c)
Holders == \A w \in Worker : HolderOK(w)

DispatchInv == /\ Dues /\ TodosApart
               /\ Senders /\ SendersApart
               /\ Commands /\ CancelOK /\ Holders

\* What a step does to the threads.
LEMMA Others ==
  ASSUME ThreadsOK, NEW t \in Thread, NEW rec, Move(t, rec)
  PROVE  thread'[t] = rec /\ \A u \in Thread : u # t => thread'[u] = thread[u]
BY DEF ThreadsOK, Move

\* What a step that resumes does to the threads.
LEMMA Resumed ==
  ASSUME ThreadsOK, NEW t \in Thread, NEW rec \in ThreadType, Resume(t, rec)
  PROVE  /\ thread'[t].pc \in {rec.back, "dispatch"} /\ thread'[t].todo = rec.todo
         /\ thread'[t].back = rec.back /\ thread'[t].msg = rec.msg
         /\ thread'[t].done = rec.done /\ thread'[t].calls = rec.calls
         /\ thread'[t].cmd = rec.cmd
         /\ \A u \in Thread : u # t => thread'[u] = thread[u]
<1> DEFINE new == [rec EXCEPT !.pc = IF rec.todo = << >> THEN rec.back ELSE "dispatch"]
<1>1. thread'[t] = new /\ \A u \in Thread : u # t => thread'[u] = thread[u]
  BY Others DEF Resume
<1>2. /\ new.pc \in {rec.back, "dispatch"} /\ new.todo = rec.todo /\ new.back = rec.back
      /\ new.msg = rec.msg /\ new.done = rec.done /\ new.calls = rec.calls
      /\ new.cmd = rec.cmd
  BY DEF ThreadType
<1> QED
  BY <1>1, <1>2

\* Dispatching threads change nothing of themselves but pc, todo and cmd.
LEMMA DispatchMoves ==
  ASSUME TypeInv, NEW t \in Thread, Dispatch(t)
  PROVE  /\ \A u \in Thread : u # t => thread'[u] = thread[u]
         /\ thread[t].pc \in Dispatching /\ thread'[t].pc \in Dispatching \cup {Home(t)}
         /\ thread'[t].msg = thread[t].msg /\ thread'[t].done = thread[t].done
         /\ thread'[t].calls = thread[t].calls
<1>0. ThreadsOK /\ ThreadOK(t, thread[t])
  BY DEF TypeInv, ThreadsOK
<1>1. CASE CreateCommand(t)
  <2> DEFINE c == Head(thread[t].todo)
             rec == [thread[t] EXCEPT !.todo = Tail(@), !.cmd = c,
                                      !.pc = IF link[RobotFor(c)] THEN "send" ELSE "refused"]
  <2>1. Move(t, rec)
    BY <1>0, <1>1 DEF CreateCommand, ThreadOK, ThreadType, Move
  <2>2. thread'[t] = rec /\ \A u \in Thread : u # t => thread'[u] = thread[u]
    BY <1>0, <2>1, Others
  <2> QED
    BY <1>0, <1>1, <2>2 DEF CreateCommand, At, ThreadOK, ThreadType, Dispatching, Sending
<1>2. ASSUME NEW pc \in Sending, thread[t].pc \in Sending, Go(t, pc)
      PROVE  /\ \A u \in Thread : u # t => thread'[u] = thread[u]
             /\ thread'[t] = [thread[t] EXCEPT !.pc = pc]
             /\ thread[t].pc \in Dispatching /\ thread'[t].pc \in Dispatching
             /\ thread'[t].msg = thread[t].msg /\ thread'[t].done = thread[t].done
             /\ thread'[t].calls = thread[t].calls
  BY <1>0, <1>2, Others DEF Go, ThreadOK, ThreadType, Dispatching
<1>3. CASE Send(t)
  BY <1>2, <1>3 DEF Send, At, Sending
<1>4. CASE RecordSent(t)
  BY <1>2, <1>4 DEF RecordSent, At, Sending
<1>5. ASSUME thread[t].pc \in Sending,
             NEW rec \in ThreadType, Resume(t, rec), rec.back = thread[t].back,
             rec.msg = thread[t].msg, rec.done = thread[t].done,
             rec.calls = thread[t].calls
      PROVE  /\ \A u \in Thread : u # t => thread'[u] = thread[u]
             /\ thread[t].pc \in Dispatching /\ thread'[t].pc \in Dispatching \cup {Home(t)}
             /\ thread'[t].msg = thread[t].msg /\ thread'[t].done = thread[t].done
             /\ thread'[t].calls = thread[t].calls
  BY <1>0, <1>5, Resumed DEF ThreadOK, Dispatching
<1>6. CASE MarkDispatched(t)
  BY <1>0, <1>2, <1>5, <1>6 DEF MarkDispatched, At, Sending, ThreadOK
<1>7. CASE Refused(t)
  BY <1>0, <1>5, <1>7 DEF Refused, At, Sending, ThreadOK
<1>8. CASE TopicPublished(t)
  <2> DEFINE c == thread[t].cmd
             rec == [thread[t] EXCEPT !.todo = Starts[c] \o @]
  <2>1. c \in Command /\ Starts[c] \in Seq(Command)
    BY <1>0, <1>8, StartedOnce DEF TopicPublished, At, ThreadOK, Sending
  <2>2. Starts[c] \o thread[t].todo \in Seq(Command)
    BY <1>0, <2>1, ConcatProperties DEF ThreadOK, ThreadType
  <2>3. rec \in ThreadType /\ rec.back = thread[t].back /\ rec.msg = thread[t].msg
        /\ rec.done = thread[t].done /\ rec.calls = thread[t].calls
    BY <1>0, <2>2 DEF ThreadOK, ThreadType
  <2>4. Resume(t, rec)
    BY <1>8 DEF TopicPublished, FollowEdges, Cmd
  <2> QED
    BY <1>5, <1>8, <2>3, <2>4 DEF TopicPublished, At, Sending
<1> QED
  BY <1>1, <1>3, <1>4, <1>6, <1>7, <1>8 DEF Dispatch

\* Dispatching undoes nothing.
LEMMA DispatchGrows ==
  ASSUME TypeInv, DispatchInv, NEW t \in Thread, Dispatch(t), NEW c \in Command
  PROVE  /\ row[c] # "none" => row'[c] # "none"
         /\ goal[c] # "none" => goal'[c] # "none"
         /\ applied' = applied
         /\ Spent(c) => Spent(c)'
<1>0. ThreadOK(t, thread[t]) /\ SendOK(t)
  BY DEF TypeInv, ThreadsOK, DispatchInv, Senders
<1>1. applied' = applied
  BY DEF Dispatch, CreateCommand, Send, RecordSent, MarkDispatched, Refused, TopicPublished
<1>2. row[c] # "none" => row'[c] # "none"
  BY DEF Dispatch, CreateCommand, Send, RecordSent, MarkDispatched, Refused,
     TopicPublished, Marked, rows, TypeInv, RowTypes
<1>3. goal[c] # "none" => goal'[c] # "none"
  BY DEF Dispatch, CreateCommand, Send, RecordSent, MarkDispatched, Refused,
     TopicPublished, world, TypeInv, HandlerTypes
<1>4. row[c] = "SUCCEEDED" /\ Adapter[c] = "TOPIC" => row'[c] = "SUCCEEDED"
  <2>1. CASE CreateCommand(t)
    <3>1. thread[t].todo # << >> /\ thread[t].todo \in Seq(Command)
      BY <1>0, <2>1 DEF CreateCommand, At, ThreadOK, ThreadType
    <3>2. Head(thread[t].todo) \in ToSet(thread[t].todo)
      BY <3>1 DEF ToSet
    <3>3. row[Head(thread[t].todo)] = "none"
      BY <3>2 DEF DispatchInv, Dues, DueOK
    <3> QED
      BY <2>1, <3>3 DEF CreateCommand, TypeInv, RowTypes
  <2>2. CASE Send(t) \/ RecordSent(t) \/ TopicPublished(t)
    BY <2>2 DEF Send, RecordSent, TopicPublished, rows, TypeInv, RowTypes
  <2>3. CASE MarkDispatched(t)
    BY <2>3 DEF MarkDispatched, Marked, TypeInv, RowTypes
  <2>4. CASE Refused(t)
    BY <1>0, <2>4 DEF Refused, SendOK, At, Sending, Cmd, TypeInv, RowTypes
  <2> QED
    BY <2>1, <2>2, <2>3, <2>4 DEF Dispatch
<1> QED
  BY <1>1, <1>2, <1>3, <1>4 DEF Spent

\* What a step of a worker does to the rows; the thread goes on handling its
\* message, or rests.
LEMMA ReceiveMoves ==
  ASSUME TypeInv, NEW w \in Worker, Receive(w)
  PROVE  \A u \in Thread : u # w => thread'[u] = thread[u]
<1>0. ThreadsOK /\ w \in Thread
  BY DEF TypeInv, Thread
<1>1. \E rec : Move(w, rec)
  BY DEF Receive, HandlePublished, HandleResponse, HandleIncoming, CallHandler, EndMessage,
     ApplyFeedback, ApplyResult, EvaluateResult, Go, FollowEdges, Resume
<1> QED
  BY <1>0, <1>1, Others

\* Handling a message undoes nothing.
LEMMA ReceiveGrows ==
  ASSUME TypeInv, DispatchInv, NEW w \in Worker, Receive(w), NEW c \in Command
  PROVE  /\ row[c] # "none" => row'[c] # "none"
         /\ goal' = goal
         /\ applied[c] # << >> => applied'[c] # << >>
         /\ Spent(c) => Spent(c)'
         /\ run # "CREATED" => run' # "CREATED"
<1>0. ThreadOK(w, thread[w]) /\ HolderOK(w)
  BY DEF TypeInv, ThreadsOK, DispatchInv, Holders, Thread
<1>1. /\ goal' = goal
      /\ run # "CREATED" => run' # "CREATED"
  BY DEF Receive, HandlePublished, HandleResponse, HandleIncoming, CallHandler, EndMessage,
     ApplyFeedback, ApplyResult, EvaluateResult, world, rows
<1>2. CASE ApplyResult(w)
  <2> DEFINE d == thread[w].cmd
             o == thread[w].msg.outcome
  <2>1. d \in Command /\ InHand(w, d)
    BY <1>0, <1>2 DEF ApplyResult, At, ThreadOK, InHand
  <2>2. Adapter[d] # "TOPIC"
    BY <1>0, <2>1 DEF HolderOK, HandOK, DispatchInv, Commands, CommandOK
  <2>3. applied' = [applied EXCEPT ![d] = Append(@, o)]
        /\ row' = [row EXCEPT ![d] = Verdict(o = "SUCCEEDED")]
    BY <1>2 DEF ApplyResult, Cmd
  <2>4. applied[d] \in Seq({"none", "SUCCEEDED", "FAILED"})
    BY <2>1 DEF TypeInv, HandlerTypes
  <2>5. Append(applied[d], o) # << >>
    BY <2>4
  <2>6. applied[c] # << >> => applied'[c] # << >>
    BY <2>3, <2>5 DEF TypeInv, HandlerTypes
  <2> QED
    BY <1>1, <2>2, <2>3, <2>6 DEF Verdict, Spent, TypeInv, RowTypes
<1>3. CASE ~ ApplyResult(w)
  <2>1. row' = row /\ applied' = applied
    BY <1>3 DEF Receive, HandlePublished, HandleResponse, HandleIncoming, CallHandler,
       EndMessage, ApplyFeedback, EvaluateResult, rows
  <2> QED
    BY <1>1, <2>1 DEF Spent
<1> QED
  BY <1>2, <1>3

\* Starting, delaying and cancelling undo nothing.
LEMMA StartGrows ==
  ASSUME TypeInv, DispatchInv, NEW c \in Command,
         \/ StartRun \/ DelayOver \/ LeaveDelay \/ BeginCancel \/ CancelNavigation
         \/ EndCancel
  PROVE  /\ row[c] # "none" => row'[c] # "none"
         /\ goal' = goal /\ applied' = applied
         /\ Spent(c) => Spent(c)'
         /\ run # "CREATED" => run' # "CREATED"
<1>1. goal' = goal /\ applied' = applied
  BY DEF StartRun, DelayOver, LeaveDelay, BeginCancel, CancelNavigation, EndCancel, world
<1>2. run # "CREATED" => run' # "CREATED"
  BY DEF StartRun, DelayOver, LeaveDelay, BeginCancel, CancelNavigation, EndCancel, rows
<1>3. row[c] # "none" => row'[c] # "none"
  BY DEF StartRun, DelayOver, LeaveDelay, BeginCancel, CancelNavigation, EndCancel, rows,
     TypeInv, RowTypes
<1>4. Adapter[c] = "TOPIC" => row'[c] = row[c]
  BY DEF StartRun, DelayOver, LeaveDelay, BeginCancel, CancelNavigation, EndCancel, rows,
     TypeInv, RowTypes, At, DispatchInv, CancelOK
<1> QED
  BY <1>1, <1>2, <1>3, <1>4 DEF Spent

\* A node that had a way to be started has it for ever.
LEMMA SprungGrows ==
  ASSUME TypeInv, run # "CREATED" => run' # "CREATED",
         thread[Timer].pc # "idle" => thread'[Timer].pc # "idle",
         \A d \in Command : Spent(d) => Spent(d)'
  PROVE  \A c \in Command : Sprung(c) => Sprung(c)'
BY DEF Sprung

\* The timer's task is never due again.
LEMMA TimerLeaves ==
  ASSUME TypeInv, [Next]_vars, thread[Timer].pc # "idle"
  PROVE  thread'[Timer].pc # "idle"
<1> /\ Api \in Thread /\ Timer \in Thread /\ Api # Timer
    /\ Api \notin Worker /\ Timer \notin Worker
  BY DispatchAssumption DEF Thread, Api, Timer
<1>0. ThreadsOK
  BY DEF TypeInv
<1>1. ASSUME NEW t \in Thread, Dispatch(t) PROVE thread'[Timer].pc # "idle"
  BY <1>1, DispatchMoves DEF Home, Dispatching, Sending
<1>2. ASSUME NEW w \in Worker, Receive(w) PROVE thread'[Timer].pc # "idle"
  BY <1>2, ReceiveMoves
<1>3. CASE StartRun
  <2>1. PICK rec \in ThreadType : Resume(Api, rec)
    BY <1>3, RestedType, StartedOnce DEF StartRun, ThreadType, Rested
  <2> QED
    BY <1>0, <2>1, Resumed
<1>4. CASE BeginCancel \/ CancelNavigation \/ EndCancel
  <2>1. \E rec : Move(Api, rec)
    BY <1>4 DEF BeginCancel, CancelNavigation, EndCancel
  <2> QED
    BY <1>0, <2>1, Others
<1>5. CASE LeaveDelay
  <2>1. thread[Timer] \in ThreadType /\ Move(Timer, [thread[Timer] EXCEPT !.pc = "over"])
    BY <1>0, <1>5 DEF LeaveDelay, Go, ThreadsOK, ThreadOK
  <2> QED
    BY <1>0, <2>1, Others DEF ThreadType
<1>6. CASE \/ \E c \in Command : RobotFinishes(c) \/ RobotReports(c)
           \/ \E r \in Robot : LinkDown(r) \/ LinkUp(r)
           \/ UNCHANGED vars
  BY <1>6 DEF RobotFinishes, RobotReports, RobotSteps, LinkDown, LinkUp, vars
<1>7. ~ DelayOver
  BY DEF DelayOver, At
<1> QED
  BY <1>1, <1>2, <1>3, <1>4, <1>5, <1>6, <1>7 DEF Next

\* What only ever grows.
LEMMA Grows ==
  ASSUME TypeInv, DispatchInv, [Next]_vars
  PROVE  /\ \A c \in Command : /\ row[c] # "none" => row'[c] # "none"
                               /\ goal[c] # "none" => goal'[c] # "none"
                               /\ applied[c] # << >> => applied'[c] # << >>
                               /\ Spent(c) => Spent(c)'
                               /\ Sprung(c) => Sprung(c)'
         /\ run # "CREATED" => run' # "CREATED"
<1>1. run # "CREATED" => run' # "CREATED"
  <2>1. ASSUME NEW t \in Thread, Dispatch(t), run # "CREATED" PROVE run' # "CREATED"
    BY <2>1 DEF Dispatch, CreateCommand, Send, RecordSent, MarkDispatched, Refused,
       TopicPublished, rows
  <2>2. ASSUME NEW w \in Worker, Receive(w), run # "CREATED" PROVE run' # "CREATED"
    BY <2>2 DEF Receive, HandlePublished, HandleResponse, HandleIncoming, CallHandler,
       EndMessage, ApplyFeedback, ApplyResult, EvaluateResult, rows
  <2>3. CASE \/ StartRun \/ DelayOver \/ LeaveDelay \/ BeginCancel \/ CancelNavigation
             \/ EndCancel
    BY <2>3 DEF StartRun, DelayOver, LeaveDelay, BeginCancel, CancelNavigation, EndCancel,
       rows
  <2>4. CASE \/ \E c \in Command : RobotFinishes(c) \/ RobotReports(c)
             \/ \E r \in Robot : LinkDown(r) \/ LinkUp(r)
             \/ UNCHANGED vars
    BY <2>4 DEF RobotFinishes, RobotReports, RobotSteps, LinkDown, LinkUp, vars, rows
  <2> QED
    BY <2>1, <2>2, <2>3, <2>4 DEF Next
<1>2. ASSUME NEW c \in Command
      PROVE  /\ row[c] # "none" => row'[c] # "none"
             /\ goal[c] # "none" => goal'[c] # "none"
             /\ applied[c] # << >> => applied'[c] # << >>
             /\ Spent(c) => Spent(c)'
  <2>1. CASE \E t \in Thread : Dispatch(t)
    BY <2>1, DispatchGrows
  <2>2. CASE \E w \in Worker : Receive(w)
    BY <2>2, ReceiveGrows
  <2>3. CASE \/ StartRun \/ DelayOver \/ LeaveDelay \/ BeginCancel \/ CancelNavigation
             \/ EndCancel
    BY <2>3, StartGrows
  <2>4. CASE \/ \E d \in Command : RobotFinishes(d) \/ RobotReports(d)
             \/ \E r \in Robot : LinkDown(r) \/ LinkUp(r)
             \/ UNCHANGED vars
    <3>1. row' = row /\ applied' = applied
      BY <2>4 DEF RobotFinishes, RobotReports, RobotSteps, LinkDown, LinkUp, vars, rows
    <3>2. goal[c] # "none" => goal'[c] # "none"
      BY <2>4 DEF RobotFinishes, RobotReports, LinkDown, LinkUp, vars, world, TypeInv,
         HandlerTypes
    <3> QED
      BY <3>1, <3>2 DEF Spent
  <2> QED
    BY <2>1, <2>2, <2>3, <2>4 DEF Next
<1> QED
  BY <1>1, <1>2, TimerLeaves, SprungGrows

-----------------------------------------------------------------------------
\* The nodes a thread has yet to start.
LEMMA Joined ==
  ASSUME NEW s \in Seq(Command), NEW u \in Seq(Command)
  PROVE  /\ ToSet(s \o u) = ToSet(s) \cup ToSet(u)
         /\ IsInjective(s) /\ IsInjective(u) /\ ToSet(s) \cap ToSet(u) = {}
              => IsInjective(s \o u)
<1>1. /\ s \o u \in Seq(Command) /\ Len(s \o u) = Len(s) + Len(u)
      /\ \A i \in 1..Len(s) : (s \o u)[i] = s[i]
      /\ \A i \in Len(s)+1 .. Len(s)+Len(u) : (s \o u)[i] = u[i - Len(s)]
  BY ConcatProperties
<1>2. /\ DOMAIN s = 1..Len(s) /\ DOMAIN u = 1..Len(u) /\ DOMAIN (s \o u) = 1..Len(s)+Len(u)
      /\ Len(s) \in Nat /\ Len(u) \in Nat
  BY <1>1
<1> HIDE DEF ToSet
<1>3. ASSUME NEW x \in ToSet(s \o u) PROVE x \in ToSet(s) \cup ToSet(u)
  <2>1. PICK i \in 1..Len(s)+Len(u) : x = (s \o u)[i]
    BY <1>2, <1>3 DEF ToSet
  <2> QED
    BY <1>1, <1>2, <2>1 DEF ToSet
<1>4. ASSUME NEW x \in ToSet(s) PROVE x \in ToSet(s \o u)
  BY <1>1, <1>2, <1>4 DEF ToSet
<1>5. ASSUME NEW x \in ToSet(u) PROVE x \in ToSet(s \o u)
  <2>1. PICK i \in 1..Len(u) : x = u[i]
    BY <1>2, <1>5 DEF ToSet
  <2>2. i + Len(s) \in Len(s)+1 .. Len(s)+Len(u) /\ (i + Len(s)) - Len(s) = i
    BY <1>2
  <2>3. (s \o u)[i + Len(s)] = x
    BY <1>1, <2>1, <2>2
  <2> QED
    BY <1>2, <2>2, <2>3 DEF ToSet
<1>6. ASSUME IsInjective(s), IsInjective(u), ToSet(s) \cap ToSet(u) = {},
             NEW i \in 1..Len(s)+Len(u), NEW j \in 1..Len(s)+Len(u),
             (s \o u)[i] = (s \o u)[j]
      PROVE  i = j
  <2>1. CASE i <= Len(s) /\ j <= Len(s)
    BY <1>1, <1>2, <1>6, <2>1 DEF IsInjective
  <2>2. CASE i > Len(s) /\ j > Len(s)
    <3>1. u[i - Len(s)] = u[j - Len(s)] /\ i - Len(s) \in 1..Len(u)
          /\ j - Len(s) \in 1..Len(u)
      BY <1>1, <1>2, <1>6, <2>2
    <3>2. i - Len(s) = j - Len(s)
      BY <1>2, <1>6, <3>1 DEF IsInjective
    <3> QED
      BY <1>2, <3>2
  <2>3. ASSUME NEW k \in 1..Len(s), NEW l \in Len(s)+1 .. Len(s)+Len(u),
               (s \o u)[k] = (s \o u)[l]
        PROVE  FALSE
    <3>1. s[k] = u[l - Len(s)] /\ l - Len(s) \in 1..Len(u)
      BY <1>1, <1>2, <2>3
    <3> QED
      BY <1>2, <1>6, <3>1 DEF ToSet
  <2> QED
    BY <1>2, <1>6, <2>1, <2>2, <2>3
<1> QED
  BY <1>2, <1>3, <1>4, <1>5, <1>6 DEF IsInjective

\* The node that is started leaves the list.
LEMMA Shortened ==
  ASSUME NEW s \in Seq(Command), s # << >>
  PROVE  /\ ToSet(Tail(s)) \subseteq ToSet(s) /\ Head(s) \in ToSet(s)
         /\ IsInjective(s) => IsInjective(Tail(s)) /\ Head(s) \notin ToSet(Tail(s))
<1>1. /\ Tail(s) \in Seq(Command) /\ Len(Tail(s)) = Len(s) - 1 /\ Len(s) \in Nat \ {0}
      /\ \A i \in 1..Len(Tail(s)) : Tail(s)[i] = s[i+1]
  BY HeadTailProperties, EmptySeq
<1>2. DOMAIN s = 1..Len(s) /\ DOMAIN Tail(s) = 1..Len(s)-1 /\ Head(s) = s[1]
  BY <1>1
<1>3. \A i \in 1..Len(s)-1 : Tail(s)[i] = s[i+1] /\ i+1 \in 1..Len(s)
  BY <1>1
<1> QED
  BY <1>1, <1>2, <1>3 DEF ToSet, IsInjective

\* Lists that only shorten stay apart.
LEMMA TodosKept ==
  ASSUME TypeInv, DispatchInv, [Next]_vars,
         \A u \in Thread : thread'[u].todo = thread[u].todo,
         \A c \in Command : row[c] = "none" => row'[c] = "none"
  PROVE  Dues' /\ TodosApart'
<1>1. \A u \in Thread : thread[u].todo \in Seq(Command)
  BY DEF TypeInv, ThreadsOK, ThreadOK, ThreadType
<1>2. \A u \in Thread : ToSet(thread[u].todo) \subseteq Command
  BY <1>1 DEF ToSet
<1>3. \A u \in Thread : DueOK(u)'
  BY <1>2, Grows DEF DispatchInv, Dues, DueOK
<1> QED
  BY <1>3 DEF Dues, TodosApart, DispatchInv

\* A list that is added is apart from the others: its nodes had no way to be started.
LEMMA TodosAdded ==
  ASSUME TypeInv, DispatchInv, [Next]_vars,
         NEW t \in Thread, NEW s \in Seq(Command), IsInjective(s),
         \A c \in ToSet(s) : ~Sprung(c) /\ Sprung(c)',
         thread'[t].todo = s \o thread[t].todo,
         \A u \in Thread : u # t => thread'[u] = thread[u],
         \A c \in Command : row[c] = "none" => row'[c] = "none"
  PROVE  Dues' /\ TodosApart'
<1>1. \A u \in Thread : thread[u].todo \in Seq(Command)
  BY DEF TypeInv, ThreadsOK, ThreadOK, ThreadType
<1>2. (\A u \in Thread : ToSet(thread[u].todo) \subseteq Command) /\ ToSet(s) \subseteq Command
  BY <1>1 DEF ToSet
<1>3. \A u \in Thread : ToSet(s) \cap ToSet(thread[u].todo) = {}
  BY DEF DispatchInv, Dues, DueOK
<1>4. \A c \in ToSet(s) : row[c] = "none"
  BY <1>2 DEF DispatchInv, Commands, CommandOK
<1>5. /\ ToSet(thread'[t].todo) = ToSet(s) \cup ToSet(thread[t].todo)
      /\ IsInjective(thread'[t].todo)
  BY <1>1, <1>3, Joined DEF DispatchInv, Dues, DueOK
<1>6. DueOK(t)'
  BY <1>2, <1>4, <1>5, Grows DEF DispatchInv, Dues, DueOK
<1>7. \A u \in Thread : DueOK(u)'
  BY <1>2, <1>6, Grows DEF DispatchInv, Dues, DueOK
<1>8. TodosApart'
  BY <1>3, <1>5 DEF DispatchInv, TodosApart
<1> QED
  BY <1>7, <1>8 DEF Dues

\* Where a worker is after a step, when it has not begun to start nodes.
LEMMA ReceivePlaces ==
  ASSUME TypeInv, NEW w \in Worker, Receive(w)
  PROVE  /\ thread[w].pc \in {"idle", "calls", "gate", "evaluate"}
         /\ \/ thread'[w].pc \in {"idle", "calls", "gate"}
            \/ /\ ApplyResult(w) /\ run = "RUNNING" /\ run' = "RUNNING"
               /\ FollowEdges(w, Cmd(w), [thread[w] EXCEPT !.back = "evaluate", !.done = Cmd(w)])
<1>0. ThreadsOK /\ w \in Thread /\ ThreadOK(w, thread[w])
  BY DEF TypeInv, ThreadsOK, Thread
<1>1. ASSUME NEW pc \in {"calls"}, Go(w, pc) PROVE thread'[w].pc = "calls"
  BY <1>0, <1>1, Others DEF Go, ThreadOK, ThreadType
<1>2. ASSUME NEW m, NEW r, HandleIncoming(w, m, r) PROVE thread'[w].pc = "calls"
  <2> DEFINE rec == [Rested EXCEPT !.pc = "calls", !.msg = m, !.strand = r,
                                   !.calls = Handlers(m)]
  <2>1. Move(w, rec) /\ rec.pc = "calls"
    BY <1>2 DEF HandleIncoming, Rested
  <2> QED
    BY <1>0, <2>1, Others
<1>3. CASE HandlePublished(w) \/ HandleResponse(w)
  BY <1>2, <1>3 DEF HandlePublished, HandleResponse, At
<1>4. CASE CallHandler(w)
  <2>1. PICK c : \/ Move(w, [[thread[w] EXCEPT !.calls = @ \ {c}, !.cmd = c] EXCEPT !.pc = "gate"])
                 \/ Move(w, [thread[w] EXCEPT !.calls = @ \ {c}, !.cmd = c])
    BY <1>4 DEF CallHandler
  <2> DEFINE rec(pc) == [thread[w] EXCEPT !.calls = @ \ {c}, !.cmd = c, !.pc = pc]
  <2>2. At(w, "calls")
    BY <1>4 DEF CallHandler
  <2>3. \E pc \in {"calls", "gate"} : Move(w, rec(pc))
    BY <1>0, <2>1, <2>2 DEF ThreadOK, ThreadType, At
  <2>4. \A pc \in {"calls", "gate"} : rec(pc).pc = pc
    BY <1>0 DEF ThreadOK, ThreadType
  <2> QED
    BY <1>0, <2>2, <2>3, <2>4, Others DEF At
<1>5. CASE EndMessage(w)
  BY <1>0, <1>5, Others DEF EndMessage, At, Rested
<1>6. CASE ApplyFeedback(w) \/ EvaluateResult(w)
  BY <1>1, <1>6 DEF ApplyFeedback, EvaluateResult, At
<1>7. CASE ApplyResult(w)
  BY <1>1, <1>7 DEF ApplyResult, At
<1> QED
  BY <1>3, <1>4, <1>5, <1>6, <1>7 DEF Receive

\* Dispatching keeps what is to be started apart.
LEMMA DispatchTodos ==
  ASSUME TypeInv, DispatchInv, [Next]_vars, NEW t \in Thread, Dispatch(t)
  PROVE  Dues' /\ TodosApart'
<1>0. ThreadsOK /\ ThreadOK(t, thread[t]) /\ SendOK(t)
  BY DEF TypeInv, ThreadsOK, DispatchInv, Senders
<1>a. \A u \in Thread : u # t => thread'[u] = thread[u]
  BY DispatchMoves
<1>1. CASE CreateCommand(t)
  <2> DEFINE s == thread[t].todo
             c == Head(s)
             rec == [thread[t] EXCEPT !.todo = Tail(@), !.cmd = c,
                                      !.pc = IF link[RobotFor(c)] THEN "send" ELSE "refused"]
  <2>1. Move(t, rec)
    BY <1>0, <1>1 DEF CreateCommand, ThreadOK, ThreadType, Move
  <2>2. thread'[t].todo = Tail(s)
    <3>1. rec.todo = Tail(s)
      BY <1>0 DEF ThreadOK, ThreadType
    <3> QED
      BY <1>0, <2>1, <3>1, Others
  <2>3. s \in Seq(Command) /\ s # << >> /\ ToSet(s) \subseteq Command
    BY <1>0, <1>1 DEF CreateCommand, At, ThreadOK, ThreadType, ToSet
  <2>4. /\ ToSet(thread'[t].todo) \subseteq ToSet(s) /\ c \in ToSet(s)
        /\ IsInjective(thread'[t].todo) /\ c \notin ToSet(thread'[t].todo)
    BY <2>2, <2>3, Shortened DEF DispatchInv, Dues, DueOK
  <2>5. row' = [row EXCEPT ![c] = "CREATED"]
    BY <1>1 DEF CreateCommand
  <2>6. \A d \in Command : row[d] = "none" /\ d # c => row'[d] = "none"
    BY <2>5 DEF TypeInv, RowTypes
  <2>7. DueOK(t)'
    BY <2>3, <2>4, <2>6, Grows DEF DispatchInv, Dues, DueOK
  <2>8. ASSUME NEW u \in Thread, u # t
        PROVE  /\ DueOK(u)'
               /\ ToSet(thread'[u].todo) \cap ToSet(thread'[t].todo) = {}
    <3>1. thread'[u].todo = thread[u].todo /\ ToSet(thread[u].todo) \subseteq Command
      BY <1>a, <2>8 DEF TypeInv, ThreadsOK, ThreadOK, ThreadType, ToSet
    <3>2. c \notin ToSet(thread[u].todo) /\ ToSet(thread[u].todo) \cap ToSet(s) = {}
      BY <2>4, <2>8 DEF DispatchInv, TodosApart
    <3> QED
      BY <2>4, <2>6, <3>1, <3>2, Grows DEF DispatchInv, Dues, DueOK
  <2> QED
    BY <1>a, <2>7, <2>8 DEF Dues, TodosApart, DispatchInv
<1>2. CASE Send(t) \/ RecordSent(t) \/ MarkDispatched(t) \/ Refused(t)
  <2>1. thread'[t].todo = thread[t].todo
    <3>1. (\E pc : Go(t, pc)) \/ Resume(t, thread[t])
      BY <1>2 DEF Send, RecordSent, MarkDispatched, Refused
    <3>2. ASSUME NEW pc, Go(t, pc) PROVE thread'[t].todo = thread[t].todo
      <4>1. thread'[t] = [thread[t] EXCEPT !.pc = pc]
        BY <1>0, <3>2, Others DEF Go
      <4> QED
        BY <1>0, <4>1 DEF ThreadOK, ThreadType
    <3> QED
      BY <1>0, <3>1, <3>2, Resumed DEF ThreadOK
  <2>2. \A d \in Command : row[d] = "none" => row'[d] = "none"
    BY <1>0, <1>2 DEF Send, RecordSent, MarkDispatched, Refused, rows, SendOK, At, Cmd,
       Sending, TypeInv, RowTypes
  <2> QED
    BY <1>a, <2>1, <2>2, TodosKept
<1>3. CASE TopicPublished(t)
  <2>c. PICK c : c = thread[t].cmd
    OBVIOUS
  <2> DEFINE rec == [thread[t] EXCEPT !.todo = Starts[c] \o @]
  <2>1. c \in Command /\ Starts[c] \in Seq(Command) /\ IsInjective(Starts[c])
        /\ Adapter[c] = "TOPIC" /\ row[c] \in {"CREATED", "ACTIVE"}
    BY <1>0, <1>3, <2>c, StartedOnce DEF TopicPublished, At, ThreadOK, SendOK, Sending
  <2>2. Starts[c] \o thread[t].todo \in Seq(Command)
    BY <1>0, <2>1, ConcatProperties DEF ThreadOK, ThreadType
  <2>3. rec \in ThreadType /\ rec.todo = Starts[c] \o thread[t].todo
    BY <1>0, <2>2 DEF ThreadOK, ThreadType
  <2>4. Resume(t, rec)
    BY <1>3, <2>c DEF TopicPublished, FollowEdges, Cmd
  <2>5. thread'[t].todo = Starts[c] \o thread[t].todo
    BY <1>0, <2>3, <2>4, Resumed
  <2>6. row' = [row EXCEPT ![c] = "SUCCEEDED"]
    BY <1>3, <2>c DEF TopicPublished, Cmd
  <2>7. \A d \in Command : row[d] = "none" => row'[d] = "none"
    BY <2>1, <2>6 DEF TypeInv, RowTypes
  <2>8. ~Spent(c) /\ Spent(c)'
    BY <2>1, <2>6 DEF Spent, TypeInv, RowTypes
  <2>9. \A d \in ToSet(Starts[c]) : ~Sprung(d) /\ Sprung(d)'
    BY <2>1, <2>8, StartedOnce DEF Sprung
  <2> QED
    BY <1>a, <2>1, <2>5, <2>7, <2>9, TodosAdded
<1> QED
  BY <1>1, <1>2, <1>3 DEF Dispatch

\* A verdict adds the successors of its node, which nothing else starts.
LEMMA ReceiveTodos ==
  ASSUME TypeInv, DispatchInv, [Next]_vars, NEW w \in Worker, Receive(w)
  PROVE  Dues' /\ TodosApart'
<1>0. ThreadsOK /\ w \in Thread /\ ThreadOK(w, thread[w]) /\ HolderOK(w)
  BY DEF TypeInv, ThreadsOK, DispatchInv, Holders, Thread
<1>a. \A u \in Thread : u # w => thread'[u] = thread[u]
  BY ReceiveMoves
<1>b. \A d \in Command : row[d] = "none" => row'[d] = "none"
  <2>1. CASE ApplyResult(w)
    <3>1. Cmd(w) \in Command /\ InHand(w, Cmd(w))
      BY <1>0, <2>1 DEF ApplyResult, At, ThreadOK, InHand, Cmd
    <3>2. row[Cmd(w)] # "none"
      BY <1>0, <3>1 DEF HolderOK, HandOK, DispatchInv, Commands, CommandOK
    <3> QED
      BY <2>1, <3>1, <3>2 DEF ApplyResult, TypeInv, RowTypes
  <2>2. CASE ~ApplyResult(w)
    BY <2>2 DEF Receive, HandlePublished, HandleResponse, HandleIncoming, CallHandler,
       EndMessage, ApplyFeedback, EvaluateResult, rows
  <2> QED
    BY <2>1, <2>2
<1>1. CASE thread'[w].pc \in {"idle", "calls", "gate"}
  <2>1. ThreadOK(w, thread[w]) /\ ThreadOK(w, thread[w])'
    BY <1>0, Typing DEF TypeInv, ThreadsOK
  <2>2. thread[w].todo = << >> /\ thread'[w].todo = << >>
    BY <1>1, <2>1, ReceivePlaces DEF ThreadOK, Dispatching, Sending
  <2> QED
    BY <1>a, <1>b, <2>2, TodosKept
<1>2. CASE /\ ApplyResult(w)
           /\ FollowEdges(w, Cmd(w), [thread[w] EXCEPT !.back = "evaluate", !.done = Cmd(w)])
  <2>c. PICK c : c = thread[w].cmd
    OBVIOUS
  <2> DEFINE rec == [thread[w] EXCEPT !.todo = Starts[c] \o @, !.back = "evaluate",
                                      !.done = c]
  <2>1. c \in Command /\ Starts[c] \in Seq(Command) /\ IsInjective(Starts[c])
        /\ thread[w].pc = "gate" /\ InHand(w, c)
    BY <1>0, <1>2, <2>c, StartedOnce DEF ApplyResult, At, ThreadOK, InHand
  <2>2. Starts[c] \o thread[w].todo \in Seq(Command)
    BY <1>0, <2>1, ConcatProperties DEF ThreadOK, ThreadType
  <2>3. rec \in ThreadType /\ rec.todo = Starts[c] \o thread[w].todo
    BY <1>0, <2>1, <2>2 DEF ThreadOK, ThreadType
  <2>4. Resume(w, rec)
    BY <1>0, <1>2, <2>c DEF FollowEdges, ThreadOK, ThreadType, Cmd
  <2>5. thread'[w].todo = Starts[c] \o thread[w].todo
    BY <1>0, <2>3, <2>4, Resumed
  <2>6. applied[c] = << >> /\ Adapter[c] # "TOPIC"
    BY <1>0, <2>1 DEF HolderOK, HandOK, DispatchInv, Commands, CommandOK
  <2>7. applied'[c] # << >>
    <3>1. applied' = [applied EXCEPT ![c] = Append(@, thread[w].msg.outcome)]
      BY <1>2, <2>c DEF ApplyResult, Cmd
    <3>2. Append(applied[c], thread[w].msg.outcome) # << >>
      BY <2>6
    <3> QED
      BY <2>1, <3>1, <3>2 DEF TypeInv, HandlerTypes
  <2>8. ~Spent(c) /\ Spent(c)'
    BY <2>6, <2>7 DEF Spent
  <2>9. \A d \in ToSet(Starts[c]) : ~Sprung(d) /\ Sprung(d)'
    BY <2>1, <2>8, StartedOnce DEF Sprung
  <2> QED
    BY <1>0, <1>a, <1>b, <2>1, <2>5, <2>9, TodosAdded
<1> QED
  BY <1>1, <1>2, ReceivePlaces

\* So does the run its first nodes, and the delay the one behind it.
LEMMA StartTodos ==
  ASSUME TypeInv, DispatchInv, [Next]_vars,
         \/ StartRun \/ DelayOver \/ LeaveDelay \/ BeginCancel \/ CancelNavigation
         \/ EndCancel
  PROVE  Dues' /\ TodosApart'
<1> /\ Api \in Thread /\ Timer \in Thread /\ Api # Timer
    /\ Api \notin Worker /\ Timer \notin Worker
  BY DispatchAssumption DEF Thread, Api, Timer
<1>0. ThreadsOK /\ ThreadOK(Api, thread[Api]) /\ ThreadOK(Timer, thread[Timer])
  BY DEF TypeInv, ThreadsOK
<1>1. ASSUME NEW t \in Thread, thread[t].todo = << >>, NEW s \in Seq(Command),
             IsInjective(s), \A c \in ToSet(s) : ~Sprung(c) /\ Sprung(c)',
             NEW rec \in ThreadType, Resume(t, rec), rec.todo = s, row' = row
      PROVE  Dues' /\ TodosApart'
  <2>1. s \o thread[t].todo = s
    BY <1>1, ConcatEmptySeq
  <2> QED
    BY <1>0, <1>1, <2>1, Resumed, TodosAdded
<1>2. CASE StartRun
  <2> DEFINE rec == [Rested EXCEPT !.todo = Initial]
  <2>1. rec \in ThreadType /\ rec.todo = Initial /\ Initial \in Seq(Command)
        /\ IsInjective(Initial)
    BY RestedType, StartedOnce DEF ThreadType, Rested
  <2>2. Resume(Api, rec) /\ row' = row /\ thread[Api].todo = << >>
    BY <1>0, <1>2 DEF StartRun, ThreadOK, At, Dispatching, Sending
  <2>3. ToSet(Initial) \subseteq Command
    BY <2>1 DEF ToSet
  <2>4. \A c \in ToSet(Initial) : ~Sprung(c) /\ Sprung(c)'
    BY <1>2, <2>3, StartedOnce DEF StartRun, Sprung
  <2> QED
    BY <1>1, <2>1, <2>2, <2>4
<1>3. CASE DelayOver /\ run = "RUNNING"
  <2> DEFINE rec == [Rested EXCEPT !.todo = Delayed, !.back = "leave"]
  <2>1. rec \in ThreadType /\ rec.todo = Delayed /\ rec.back = "leave"
        /\ Delayed \in Seq(Command) /\ IsInjective(Delayed)
    BY RestedType, StartedOnce DEF ThreadType, Rested
  <2>2. Resume(Timer, rec) /\ row' = row /\ thread[Timer].todo = << >>
    BY <1>0, <1>3 DEF DelayOver, ThreadOK, At, Dispatching, Sending, rows
  <2>3. ToSet(Delayed) \subseteq Command
    BY <2>1 DEF ToSet
  <2>4. thread'[Timer].pc \in {"leave", "dispatch"} /\ thread[Timer].pc = "idle"
    BY <1>0, <1>3, <2>1, <2>2, Resumed DEF DelayOver, At
  <2>5. \A c \in ToSet(Delayed) : ~Sprung(c) /\ Sprung(c)'
    BY <2>3, <2>4, StartedOnce DEF Sprung
  <2> QED
    BY <1>1, <2>1, <2>2, <2>5
<1>4. CASE ~StartRun /\ ~(DelayOver /\ run = "RUNNING")
  <2>1. \A c \in Command : row[c] = "none" => row'[c] = "none"
    BY <1>4 DEF DelayOver, LeaveDelay, BeginCancel, CancelNavigation, EndCancel, rows,
       TypeInv, RowTypes, DispatchInv, CancelOK, At
  <2>2. PICK t \in {Api, Timer} : \E rec : Move(t, rec)
    BY <1>4 DEF DelayOver, LeaveDelay, BeginCancel, CancelNavigation, EndCancel, Go
  <2>3. \A u \in Thread : u # t => thread'[u] = thread[u]
    BY <1>0, <2>2, Others
  <2>4. thread'[t].todo = thread[t].todo
    <3>1. CASE BeginCancel
      <4> DEFINE rec == [Rested EXCEPT !.pc = "cancel", !.calls = OpenNavigation,
                                       !.open = OpenNodes]
      <4>0. Move(Api, rec) /\ rec.todo = << >>
        BY <3>1 DEF BeginCancel, Rested
      <4>1. thread[Api].todo = << >> /\ thread'[Api].todo = << >>
        BY <1>0, <3>1, <4>0, Others DEF BeginCancel, At, ThreadOK, Dispatching, Sending
      <4>2. \A u \in Thread : u # Api => thread'[u] = thread[u]
        BY <1>0, <3>1, Others DEF BeginCancel
      <4> QED
        BY <4>1, <4>2
    <3>2. CASE CancelNavigation
      <4>1. PICK c : Move(Api, [thread[Api] EXCEPT !.calls = @ \ {c}])
        BY <3>2 DEF CancelNavigation
      <4>2. thread'[Api].todo = thread[Api].todo
            /\ \A u \in Thread : u # Api => thread'[u] = thread[u]
        BY <1>0, <4>1, Others DEF ThreadOK, ThreadType
      <4> QED
        BY <4>2
    <3>3. CASE EndCancel
      <4>1. thread[Api].todo = << >> /\ thread'[Api].todo = << >>
        BY <1>0, <3>3, Others DEF EndCancel, At, ThreadOK, Dispatching, Sending, Rested
      <4>2. \A u \in Thread : u # Api => thread'[u] = thread[u]
        BY <1>0, <3>3, Others DEF EndCancel
      <4> QED
        BY <4>1, <4>2
    <3>4. CASE DelayOver \/ LeaveDelay
      <4>1. Move(Timer, [thread[Timer] EXCEPT !.pc = "over"])
        BY <1>4, <3>4 DEF DelayOver, LeaveDelay, Go
      <4>2. thread'[Timer].todo = thread[Timer].todo
            /\ \A u \in Thread : u # Timer => thread'[u] = thread[u]
        BY <1>0, <4>1, Others DEF ThreadOK, ThreadType
      <4> QED
        BY <4>2
    <3> QED
      BY <1>4, <3>1, <3>2, <3>3, <3>4
  <2>5. \A u \in Thread : thread'[u].todo = thread[u].todo
    BY <2>3, <2>4
  <2> QED
    BY <2>1, <2>5, TodosKept
<1> QED
  BY <1>2, <1>3, <1>4

\* Steps that move no thread and write no row.
OutsideStep ==
  \/ \E c \in Command : RobotFinishes(c) \/ RobotReports(c)
  \/ \E r \in Robot : LinkDown(r) \/ LinkUp(r)
  \/ UNCHANGED vars

\* The robots and the connections leave the executor alone.
LEMMA OutsideKeeps ==
  ASSUME OutsideStep
  PROVE  UNCHANGED <<thread, rows, handlers, locks, events, applied>>
BY DEF OutsideStep, RobotFinishes, RobotReports, RobotSteps, LinkDown, LinkUp, vars

\* The steps of the HTTP thread and of the timer before they dispatch.
StartStep ==
  \/ StartRun \/ DelayOver \/ LeaveDelay \/ BeginCancel \/ CancelNavigation \/ EndCancel

\* Every step is one of these.
LEMMA Steps ==
  ASSUME [Next]_vars
  PROVE  \/ \E t \in Thread : Dispatch(t)
         \/ \E w \in Worker : Receive(w)
         \/ OutsideStep \/ StartStep
BY DEF Next, OutsideStep, StartStep

\* Every step keeps the lists apart.
LEMMA TodosNext ==
  ASSUME TypeInv, DispatchInv, [Next]_vars
  PROVE  Dues' /\ TodosApart'
<1>1. CASE OutsideStep
  BY <1>1, OutsideKeeps, TodosKept DEF rows
<1> QED
  BY <1>1, Steps, DispatchTodos, ReceiveTodos, StartTodos DEF StartStep

-----------------------------------------------------------------------------
\* The thread that dispatches a command.
LEMMA SendersKept ==
  ASSUME TypeInv, DispatchInv,
         \A u \in Thread : thread'[u].pc \in Sending =>
           /\ thread'[u].pc = thread[u].pc /\ thread'[u].cmd = thread[u].cmd
           /\ LET c == thread[u].cmd IN
                /\ row[c] # "none" => row'[c] # "none"
                /\ goal[c] = "none" => goal'[c] = "none"
                /\ Adapter[c] = "TOPIC" /\ row[c] \in {"CREATED", "ACTIVE"}
                     => row'[c] \in {"CREATED", "ACTIVE"}
  PROVE  Senders' /\ SendersApart'
BY DEF DispatchInv, Senders, SendersApart, Sends, SendOK

\* A step of the dispatching thread, of itself or of another.
LEMMA DispatchSenders ==
  ASSUME TypeInv, DispatchInv, NEW t \in Thread, Dispatch(t)
  PROVE  Senders' /\ SendersApart'
<1>0. ThreadsOK /\ ThreadOK(t, thread[t]) /\ SendOK(t)
  BY DEF TypeInv, ThreadsOK, DispatchInv, Senders
<1>a. \A u \in Thread : u # t => thread'[u] = thread[u]
  BY DispatchMoves
<1>b. \A u \in Thread : u # t /\ thread[u].pc \in Sending =>
        /\ thread[u].cmd \in Command /\ row[thread[u].cmd] # "none" /\ SendOK(u)
        /\ thread[t].pc \in Sending => thread[u].cmd # thread[t].cmd
  BY DEF TypeInv, ThreadsOK, ThreadOK, DispatchInv, Senders, SendOK, SendersApart, Sends
<1>1. CASE CreateCommand(t)
  <2>c. PICK c : c = Head(thread[t].todo)
    OBVIOUS
  <2> DEFINE rec == [thread[t] EXCEPT !.todo = Tail(@), !.cmd = c,
                                      !.pc = IF link[RobotFor(c)] THEN "send" ELSE "refused"]
  <2>1. Move(t, rec)
    BY <1>0, <1>1, <2>c DEF CreateCommand, ThreadOK, ThreadType, Move
  <2>2. rec.pc \in {"send", "refused"} /\ rec.cmd = c
    BY <1>0 DEF ThreadOK, ThreadType
  <2>3. thread'[t].pc \in {"send", "refused"} /\ thread'[t].cmd = c
    BY <1>0, <2>1, <2>2, Others
  <2>4. c \in Command /\ c \in ToSet(thread[t].todo)
    BY <1>0, <1>1, <2>c, Shortened, HeadTailProperties
       DEF CreateCommand, At, ThreadOK, ThreadType
  <2>5. row[c] = "none" /\ goal[c] = "none"
    BY <2>4 DEF DispatchInv, Dues, DueOK, Commands, CommandOK
  <2>6. row' = [row EXCEPT ![c] = "CREATED"] /\ goal' = goal
    BY <1>1, <2>c DEF CreateCommand, world
  <2>7. row'[c] = "CREATED" /\ \A d \in Command : d # c => row'[d] = row[d]
    BY <2>4, <2>6 DEF TypeInv, RowTypes
  <2>8. SendOK(t)'
    BY <2>3, <2>5, <2>6, <2>7 DEF SendOK
  <2>9. \A u \in Thread : u # t => SendOK(u)'
    BY <1>a, <1>b, <2>5, <2>6, <2>7 DEF SendOK
  <2>10. \A u \in Thread : u # t => ~Sends(u, c)
    BY <1>b, <2>5 DEF Sends
  <2>11. SendersApart'
    BY <1>a, <2>3, <2>10 DEF DispatchInv, SendersApart, Sends
  <2> QED
    BY <2>8, <2>9, <2>11 DEF Senders
<1>2. CASE thread'[t].pc \notin Sending /\ ~CreateCommand(t)
  <2>1. /\ \A c \in Command : c # thread[t].cmd => row'[c] = row[c] /\ goal'[c] = goal[c]
        /\ thread[t].pc \in Sending
    BY <1>2 DEF Dispatch, Send, RecordSent, MarkDispatched, Refused, TopicPublished, Cmd,
       At, Sending, world, rows, TypeInv, RowTypes, HandlerTypes
  <2> QED
    BY <1>2, <1>a, <1>b, <2>1, SendersKept
<1>3. ASSUME Send(t) \/ RecordSent(t) \/ MarkDispatched(t), NEW pc \in Sending, Go(t, pc)
      PROVE  /\ thread'[t].pc = pc /\ thread'[t].cmd = thread[t].cmd
             /\ thread[t].pc \in Sending /\ thread[t].cmd \in Command
             /\ \A u \in Thread : u # t => SendOK(u)'
             /\ SendersApart'
  <2>1. /\ thread'[t].pc = pc /\ thread'[t].cmd = thread[t].cmd
        /\ thread[t].pc \in Sending /\ thread[t].cmd \in Command
    <3>1. thread'[t] = [thread[t] EXCEPT !.pc = pc]
      BY <1>0, <1>3, Others DEF Go
    <3> QED
      BY <1>0, <1>3, <3>1 DEF Send, RecordSent, MarkDispatched, At, ThreadOK, ThreadType,
         Sending
  <2>2. \A c \in Command : c # thread[t].cmd => row'[c] = row[c] /\ goal'[c] = goal[c]
    BY <1>3 DEF Send, RecordSent, MarkDispatched, Cmd, At, world, rows, TypeInv, RowTypes,
       HandlerTypes
  <2>3. \A u \in Thread : u # t => SendOK(u)'
    BY <1>a, <1>b, <2>1, <2>2 DEF SendOK
  <2>4. SendersApart'
    BY <1>a, <2>1 DEF DispatchInv, SendersApart, Sends
  <2> QED
    BY <2>1, <2>3, <2>4
<1>4. CASE Send(t)
  <2>1. PICK pc \in {"record", "mark", "refused"} :
          /\ Go(t, pc)
          /\ pc = "refused" => goal' = goal
          /\ pc = "record" => Adapter[Cmd(t)] = "NAVIGATION"
    BY <1>4 DEF Send
  <2>2. row' = row
    BY <1>4 DEF Send, rows
  <2>3. SendOK(t)'
    BY <1>0, <1>3, <1>4, <2>1, <2>2 DEF SendOK, Sending, Send, At, Cmd
  <2> QED
    BY <1>3, <1>4, <2>1, <2>3 DEF Senders, Sending
<1>5. CASE RecordSent(t)
  <2>1. Go(t, "mark") /\ row' = row /\ goal' = goal /\ Adapter[Cmd(t)] = "NAVIGATION"
    BY <1>0, <1>5 DEF RecordSent, world, SendOK, At, Sending, Cmd
  <2>2. SendOK(t)'
    BY <1>0, <1>3, <1>5, <2>1 DEF SendOK, Sending, RecordSent, At, Cmd
  <2> QED
    BY <1>3, <1>5, <2>1, <2>2 DEF Senders, Sending
<1>6. CASE MarkDispatched(t) /\ Adapter[Cmd(t)] = "TOPIC"
  <2>1. Go(t, "published") /\ goal' = goal
        /\ row' = [row EXCEPT ![Cmd(t)] = Marked(@)]
    BY <1>6 DEF MarkDispatched, world
  <2>2. row[Cmd(t)] \in {"CREATED", "ACTIVE"} /\ Cmd(t) \in Command
    BY <1>0, <1>6 DEF MarkDispatched, SendOK, At, Sending, Cmd, ThreadOK
  <2>3. row'[Cmd(t)] = "ACTIVE"
    BY <2>1, <2>2 DEF Marked, TypeInv, RowTypes
  <2>4. thread'[t].pc = "published" /\ Cmd(t) = thread'[t].cmd
    BY <1>3, <1>6, <2>1 DEF Sending, Cmd
  <2>5. SendOK(t)'
    BY <1>6, <2>3, <2>4 DEF SendOK, Sending, Cmd
  <2> QED
    BY <1>3, <1>6, <2>1, <2>5 DEF Senders, Sending
<1>7. ASSUME Resume(t, thread[t]) PROVE thread'[t].pc \notin Sending
  BY <1>0, <1>7, Resumed, DispatchMoves DEF ThreadOK, Sending, Dispatching, Home
<1>8. CASE TopicPublished(t)
  <2>1. PICK c : c = thread[t].cmd
    OBVIOUS
  <2> DEFINE rec == [thread[t] EXCEPT !.todo = Starts[c] \o @]
  <2>2. c \in Command /\ Starts[c] \o thread[t].todo \in Seq(Command)
    BY <1>0, <1>8, <2>1, StartedOnce, ConcatProperties
       DEF TopicPublished, At, ThreadOK, Sending, ThreadType
  <2>3. rec \in ThreadType /\ rec.back = thread[t].back
    BY <1>0, <2>2 DEF ThreadOK, ThreadType
  <2>4. Resume(t, rec)
    BY <1>8, <2>1 DEF TopicPublished, FollowEdges, Cmd
  <2>5. thread'[t].pc \notin Sending
    BY <1>0, <1>8, <2>3, <2>4, Resumed
       DEF ThreadOK, Sending, Dispatching, TopicPublished, At, Home
  <2> QED
    BY <1>2, <1>8, <2>5 DEF TopicPublished, CreateCommand, At
<1>9. CASE Refused(t) \/ (MarkDispatched(t) /\ Adapter[Cmd(t)] # "TOPIC")
  BY <1>2, <1>7, <1>9 DEF Refused, MarkDispatched, CreateCommand, At
<1> QED
  BY <1>1, <1>4, <1>5, <1>6, <1>8, <1>9 DEF Dispatch

\* A step that handles a message writes no row of a command that is being sent,
\* save that of its verdict.
LEMMA ReceiveRows ==
  ASSUME TypeInv, DispatchInv, NEW w \in Worker, Receive(w)
  PROVE  /\ goal' = goal
         /\ \A c \in Command : /\ row[c] # "none" <=> row'[c] # "none"
                               /\ Adapter[c] = "TOPIC" => row'[c] = row[c]
<1>0. ThreadOK(w, thread[w]) /\ HolderOK(w)
  BY DEF TypeInv, ThreadsOK, DispatchInv, Holders, Thread
<1>1. CASE ApplyResult(w)
  <2>1. Cmd(w) \in Command /\ InHand(w, Cmd(w))
    BY <1>0, <1>1 DEF ApplyResult, At, ThreadOK, InHand, Cmd
  <2>2. row[Cmd(w)] # "none" /\ Adapter[Cmd(w)] # "TOPIC"
    BY <1>0, <2>1 DEF HolderOK, HandOK, DispatchInv, Commands, CommandOK
  <2>3. row' = [row EXCEPT ![Cmd(w)] = Verdict(thread[w].msg.outcome = "SUCCEEDED")]
        /\ goal' = goal
    BY <1>1 DEF ApplyResult, world
  <2> QED
    BY <2>1, <2>2, <2>3 DEF Verdict, TypeInv, RowTypes
<1>2. CASE ~ApplyResult(w)
  BY <1>2 DEF Receive, HandlePublished, HandleResponse, HandleIncoming, CallHandler,
     EndMessage, ApplyFeedback, EvaluateResult, rows, world
<1> QED
  BY <1>1, <1>2

\* A message handled leaves the dispatching threads as they should be.
LEMMA ReceiveSenders ==
  ASSUME TypeInv, DispatchInv, [Next]_vars, NEW w \in Worker, Receive(w)
  PROVE  Senders' /\ SendersApart'
<1>0. ThreadsOK /\ w \in Thread /\ ThreadOK(w, thread[w])
  BY DEF TypeInv, ThreadsOK, Thread
<1>1. thread'[w].pc \notin Sending
  <2>1. CASE FollowEdges(w, Cmd(w), [thread[w] EXCEPT !.back = "evaluate", !.done = Cmd(w)])
             /\ ApplyResult(w)
    <3>c. PICK c : c = thread[w].cmd
      OBVIOUS
    <3> DEFINE rec == [thread[w] EXCEPT !.todo = Starts[c] \o @, !.back = "evaluate",
                                        !.done = c]
    <3>1. c \in Command /\ Starts[c] \o thread[w].todo \in Seq(Command)
      BY <1>0, <2>1, <3>c, StartedOnce, ConcatProperties
         DEF ApplyResult, At, ThreadOK, ThreadType
    <3>2. rec \in ThreadType /\ rec.back = "evaluate" /\ Resume(w, rec)
      BY <1>0, <2>1, <3>c, <3>1 DEF ThreadOK, ThreadType, FollowEdges, Cmd
    <3>3. thread'[w].pc \in {rec.back, "dispatch"}
      BY <1>0, <3>2, Resumed
    <3> QED
      BY <3>2, <3>3 DEF Sending
  <2> QED
    BY <2>1, ReceivePlaces DEF Sending
<1>2. \A u \in Thread : u # w => thread'[u] = thread[u]
  BY ReceiveMoves
<1>3. \A u \in Thread : thread[u].pc \in Sending => thread[u].cmd \in Command
  BY DEF TypeInv, ThreadsOK, ThreadOK
<1> QED
  BY <1>1, <1>2, <1>3, ReceiveRows, SendersKept

\* Where the threads are that no robot calls, when they have not begun to start nodes.
LEMMA StartMoves ==
  ASSUME TypeInv, StartStep
  PROVE  \E t \in {Api, Timer} :
           /\ \A u \in Thread : u # t => thread'[u] = thread[u]
           /\ thread'[t].pc \notin Sending
           /\ t = Api /\ thread'[Api].pc = "cancel" =>
                \/ BeginCancel /\ thread'[Api].calls = OpenNavigation
                \/ thread[Api].pc = "cancel" /\ thread'[Api].calls \subseteq thread[Api].calls
<1> /\ Api \in Thread /\ Timer \in Thread /\ Api # Timer
    /\ Api \notin Worker /\ Timer \notin Worker
  BY DispatchAssumption DEF Thread, Api, Timer
<1>0. ThreadsOK /\ ThreadOK(Api, thread[Api]) /\ ThreadOK(Timer, thread[Timer])
  BY DEF TypeInv, ThreadsOK
<1>1. CASE StartRun
  <2> DEFINE rec == [Rested EXCEPT !.todo = Initial]
  <2>1. rec \in ThreadType /\ rec.back = "idle" /\ Resume(Api, rec)
    BY <1>1, RestedType, StartedOnce DEF StartRun, ThreadType, Rested
  <2> QED
    BY <1>0, <2>1, Resumed DEF Sending
<1>2. CASE DelayOver /\ run = "RUNNING"
  <2> DEFINE rec == [Rested EXCEPT !.todo = Delayed, !.back = "leave"]
  <2>1. rec \in ThreadType /\ rec.back = "leave" /\ Resume(Timer, rec)
    BY <1>2, RestedType, StartedOnce DEF DelayOver, ThreadType, Rested
  <2> QED
    BY <1>0, <2>1, Resumed DEF Sending
<1>3. CASE LeaveDelay \/ (DelayOver /\ run # "RUNNING")
  <2> DEFINE rec == [thread[Timer] EXCEPT !.pc = "over"]
  <2>1. Move(Timer, rec) /\ rec.pc = "over"
    BY <1>0, <1>3 DEF LeaveDelay, DelayOver, Go, ThreadOK, ThreadType
  <2> QED
    BY <1>0, <2>1, Others DEF Sending
<1>4. CASE BeginCancel
  <2> DEFINE rec == [Rested EXCEPT !.pc = "cancel", !.calls = OpenNavigation,
                                   !.open = OpenNodes]
  <2>1. Move(Api, rec) /\ rec.pc = "cancel" /\ rec.calls = OpenNavigation
    BY <1>4 DEF BeginCancel, Rested
  <2> QED
    BY <1>0, <1>4, <2>1, Others DEF Sending
<1>5. CASE CancelNavigation
  <2>1. PICK c : Move(Api, [thread[Api] EXCEPT !.calls = @ \ {c}])
    BY <1>5 DEF CancelNavigation
  <2> DEFINE rec == [thread[Api] EXCEPT !.calls = @ \ {c}]
  <2>2. rec.pc = "cancel" /\ rec.calls \subseteq thread[Api].calls /\ thread[Api].pc = "cancel"
    BY <1>0, <1>5 DEF CancelNavigation, At, ThreadOK, ThreadType
  <2>3. thread'[Api] = rec /\ \A u \in Thread : u # Api => thread'[u] = thread[u]
    BY <1>0, <2>1, Others
  <2> QED
    BY <2>2, <2>3 DEF Sending
<1>6. CASE EndCancel
  BY <1>0, <1>6, Others DEF EndCancel, Rested, Sending
<1> QED
  BY <1>1, <1>2, <1>3, <1>4, <1>5, <1>6 DEF StartStep

\* Starting and cancelling write the rows of no topic.
LEMMA StartRows ==
  ASSUME TypeInv, DispatchInv, StartStep
  PROVE  /\ UNCHANGED <<goal, handlers, applied>>
         /\ \A c \in Command : /\ row[c] # "none" <=> row'[c] # "none"
                               /\ Adapter[c] = "TOPIC" => row'[c] = row[c]
BY DEF StartStep, StartRun, DelayOver, LeaveDelay, BeginCancel, CancelNavigation, EndCancel,
   rows, world, TypeInv, RowTypes, At, DispatchInv, CancelOK

\* Every step leaves the dispatching threads as they should be.
LEMMA SendersNext ==
  ASSUME TypeInv, DispatchInv, [Next]_vars
  PROVE  Senders' /\ SendersApart'
<1>0. \A u \in Thread : thread[u].pc \in Sending => thread[u].cmd \in Command
  BY DEF TypeInv, ThreadsOK, ThreadOK
<1>1. CASE OutsideStep
  <2>1. \A c \in Command : goal[c] = "none" => goal'[c] = "none"
    <3>1. ASSUME NEW c \in Command, RobotFinishes(c) PROVE \A d \in Command : goal[d] = "none" => goal'[d] = "none"
      BY <3>1 DEF RobotFinishes, TypeInv, HandlerTypes
    <3>2. CASE \/ \E c \in Command : RobotReports(c)
               \/ \E r \in Robot : LinkDown(r) \/ LinkUp(r)
               \/ UNCHANGED vars
      BY <3>2 DEF RobotReports, LinkDown, LinkUp, vars, world
    <3> QED
      BY <1>1, <3>1, <3>2 DEF OutsideStep
  <2> QED
    BY <1>0, <1>1, <2>1, OutsideKeeps, SendersKept DEF rows
<1>2. CASE StartStep
  BY <1>0, <1>2, StartMoves, StartRows, SendersKept
<1> QED
  BY <1>1, <1>2, Steps, DispatchSenders, ReceiveSenders

\* Every step leaves the cancellation with commands that have a row.
LEMMA CancelNext ==
  ASSUME TypeInv, DispatchInv, [Next]_vars
  PROVE  CancelOK'
<1> /\ Api \in Thread /\ Timer \in Thread /\ Api # Timer /\ Api \notin Worker
  BY DispatchAssumption DEF Thread, Api, Timer
<1>0. thread[Api].calls \subseteq Command /\ ThreadOK(Api, thread[Api])
  BY DEF TypeInv, ThreadsOK, ThreadOK, ThreadType
<1>1. ASSUME thread'[Api] = thread[Api] PROVE CancelOK'
  BY <1>0, <1>1, Grows DEF DispatchInv, CancelOK
<1>2. ASSUME NEW t \in Thread, Dispatch(t) PROVE CancelOK'
  BY <1>1, <1>2, DispatchMoves DEF CancelOK, Dispatching, Sending, Home
<1>3. ASSUME NEW w \in Worker, Receive(w) PROVE CancelOK'
  BY <1>1, <1>3, ReceiveMoves
<1>4. CASE OutsideStep
  BY <1>1, <1>4, OutsideKeeps
<1>5. CASE StartStep
  <2>1. \A c \in OpenNavigation : c \in Command /\ row[c] # "none" /\ Adapter[c] = "NAVIGATION"
    BY DEF OpenNavigation
  <2> QED
    BY <1>0, <1>1, <1>5, <2>1, StartMoves, Grows DEF CancelOK, DispatchInv
<1> QED
  BY <1>2, <1>3, <1>4, <1>5, Steps

-----------------------------------------------------------------------------
\* What is known of a command.
LEMMA CommandsKept ==
  ASSUME TypeInv, DispatchInv, [Next]_vars, UNCHANGED handlers, applied' = applied,
         \A c \in Command : /\ goal[c] = "none" <=> goal'[c] = "none"
                            /\ row[c] = "none" <=> row'[c] = "none"
  PROVE  Commands'
<1> SUFFICES ASSUME NEW c \in Command PROVE CommandOK(c)'
  BY DEF Commands
<1>1. CommandOK(c) /\ (Sprung(c) => Sprung(c)')
  BY Grows DEF DispatchInv, Commands
<1> QED
  BY <1>1 DEF CommandOK, handlers

\* Dispatching keeps what is known of each command.
LEMMA DispatchCommands ==
  ASSUME TypeInv, DispatchInv, [Next]_vars, NEW t \in Thread, Dispatch(t)
  PROVE  Commands'
<1>0. ThreadsOK /\ ThreadOK(t, thread[t]) /\ SendOK(t)
  BY DEF TypeInv, ThreadsOK, DispatchInv, Senders
<1>1. CASE CreateCommand(t)
  <2>c. PICK c : c = Head(thread[t].todo)
    OBVIOUS
  <2>1. c \in Command /\ c \in ToSet(thread[t].todo)
    BY <1>0, <1>1, <2>c, Shortened, HeadTailProperties
       DEF CreateCommand, At, ThreadOK, ThreadType
  <2>2. Sprung(c)
    BY <2>1 DEF DispatchInv, Dues, DueOK
  <2>3. row' = [row EXCEPT ![c] = "CREATED"] /\ UNCHANGED <<handlers, goal, applied>>
    BY <1>1, <2>c DEF CreateCommand, world
  <2>4. ASSUME NEW d \in Command PROVE CommandOK(d)'
    <3>1. CommandOK(d) /\ (Sprung(d) => Sprung(d)')
      BY Grows DEF DispatchInv, Commands
    <3>2. (row'[d] = "none" => row[d] = "none") /\ (row'[d] # "none" => row[d] # "none" \/ d = c)
      BY <2>1, <2>3 DEF TypeInv, RowTypes
    <3> QED
      BY <2>2, <2>3, <3>1, <3>2 DEF CommandOK, handlers
  <2> QED
    BY <2>4 DEF Commands
<1>2. CASE Send(t) /\ link[RobotFor(Cmd(t))]
  <2>c. PICK c : c = thread[t].cmd
    OBVIOUS
  <2>1. c \in Command /\ row[c] # "none" /\ goal[c] = "none"
    BY <1>0, <1>2, <2>c DEF Send, At, ThreadOK, Sending, SendOK
  <2>2. /\ listening' = listening \cup Subscriptions(c)
        /\ pending' = IF Adapter[c] \in {"SERVICE", "ACTION"} THEN pending \cup {c} ELSE pending
        /\ goal' = [goal EXCEPT ![c] = IF Adapter[c] = "TOPIC" THEN @ ELSE "working"]
        /\ UNCHANGED <<row, finished, applied>>
    BY <1>2, <2>c DEF Send, Cmd, rows
  <2>3. ASSUME NEW d \in Command, d # c PROVE CommandOK(d)'
    <3>1. CommandOK(d) /\ (Sprung(d) => Sprung(d)')
      BY Grows DEF DispatchInv, Commands
    <3>2. goal'[d] = goal[d] /\ (d \in pending' <=> d \in pending)
          /\ \A k : <<d, k>> \in listening' <=> <<d, k>> \in listening
      BY <2>1, <2>2, <2>3 DEF Subscriptions, TypeInv, HandlerTypes
    <3> QED
      BY <2>2, <3>1, <3>2 DEF CommandOK
  <2>4. CommandOK(c)'
    <3>1. CommandOK(c) /\ (Sprung(c) => Sprung(c)')
      BY <2>1, Grows DEF DispatchInv, Commands
    <3>2. goal'[c] = IF Adapter[c] = "TOPIC" THEN "none" ELSE "working"
      BY <2>1, <2>2 DEF TypeInv, HandlerTypes
    <3>3. /\ c \notin pending /\ c \notin finished /\ applied[c] = << >>
          /\ \A k \in {"feedback", "result"} : <<c, k>> \notin listening
      BY <2>1, <3>1 DEF CommandOK
    <3>4. /\ c \in pending' => Adapter[c] \in {"SERVICE", "ACTION"}
          /\ \A k \in {"feedback", "result"} : <<c, k>> \in listening' => OnTopics(c)
      BY <2>2, <3>3 DEF Subscriptions, OnTopics
    <3> QED
      BY <2>1, <2>2, <3>1, <3>2, <3>3, <3>4 DEF CommandOK, OnTopics
  <2> QED
    BY <2>3, <2>4 DEF Commands
<1>3. CASE ~CreateCommand(t) /\ ~(Send(t) /\ link[RobotFor(Cmd(t))])
  <2>1. UNCHANGED <<handlers, applied, goal>>
    BY <1>3 DEF Dispatch, Send, RecordSent, MarkDispatched, Refused, TopicPublished, world,
       handlers
  <2>2. \A c \in Command : row[c] = "none" <=> row'[c] = "none"
    BY <1>0, <1>3 DEF Dispatch, Send, RecordSent, MarkDispatched, Refused, TopicPublished,
       rows, SendOK, At, Cmd, Sending, Marked, TypeInv, RowTypes
  <2> QED
    BY <2>1, <2>2, CommandsKept
<1> QED
  BY <1>1, <1>2, <1>3

\* So does a message handled.
LEMMA ReceiveCommands ==
  ASSUME TypeInv, DispatchInv, [Next]_vars, NEW w \in Worker, Receive(w)
  PROVE  Commands'
<1>0. ThreadsOK /\ w \in Thread /\ ThreadOK(w, thread[w]) /\ HolderOK(w)
  BY DEF TypeInv, ThreadsOK, DispatchInv, Holders, Thread
<1>a. /\ goal' = goal
      /\ \A c \in Command : row[c] = "none" <=> row'[c] = "none"
  BY ReceiveRows
<1>b. \A c \in Command : CommandOK(c) /\ (Sprung(c) => Sprung(c)')
  BY Grows DEF DispatchInv, Commands
<1>1. CASE HandlePublished(w) \/ HandleResponse(w)
  <2>1. pending' \subseteq pending /\ UNCHANGED <<listening, finished, applied>>
    BY <1>1 DEF HandlePublished, HandleResponse, HandleIncoming
  <2> QED
    BY <1>a, <1>b, <2>1 DEF Commands, CommandOK
<1>2. CASE CallHandler(w)
  <2>1. PICK c \in thread[w].calls :
          \/ UNCHANGED handlers
          \/ OnTopics(c) /\ Finish(c) /\ UNCHANGED pending
    BY <1>2 DEF CallHandler
  <2>2. c \in Command /\ InHand(w, c) /\ applied' = applied
    BY <1>0, <1>2, <2>1 DEF CallHandler, At, InHand, ThreadOK, ThreadType
  <2>3. CASE UNCHANGED handlers
    BY <1>a, <2>2, <2>3, CommandsKept
  <2>4. CASE OnTopics(c) /\ Finish(c) /\ UNCHANGED pending
    <3>1. goal[c] # "none"
      BY <1>0, <2>2 DEF HolderOK, HandOK
    <3>2. /\ finished' = finished \cup {c}
          /\ \A d \in Command : \A k \in {"feedback", "result"} :
               <<d, k>> \in listening' => <<d, k>> \in listening /\ d # c
      BY <2>4 DEF Finish
    <3> QED
      BY <1>a, <1>b, <2>2, <2>4, <3>1, <3>2 DEF Commands, CommandOK
  <2> QED
    BY <2>1, <2>3, <2>4
<1>3. CASE ApplyResult(w)
  <2>c. PICK c : c = thread[w].cmd
    OBVIOUS
  <2>1. c \in Command /\ InHand(w, c) /\ thread[w].pc = "gate" /\ thread[w].msg.kind = "result"
    BY <1>0, <1>3, <2>c DEF ApplyResult, At, ThreadOK, InHand
  <2>2. /\ goal[c] # "none" /\ OnTopics(c) => c \in finished
        /\ ~OnTopics(c) => c \notin pending
    BY <1>0, <2>1, <2>c DEF HolderOK, HandOK
  <2>3. c \notin pending
    BY <2>1, <2>2 DEF DispatchInv, Commands, CommandOK, OnTopics
  <2>4. UNCHANGED handlers /\ applied' = [applied EXCEPT ![c] = Append(@, thread[w].msg.outcome)]
    BY <1>3, <2>c DEF ApplyResult, Cmd
  <2>5. goal[c] # "none" /\ (OnTopics(c) => c \in finished)
    BY <1>0, <2>1, <2>c DEF HolderOK, HandOK
  <2>6. \A d \in Command : d # c => applied'[d] = applied[d]
    BY <2>1, <2>4 DEF TypeInv, HandlerTypes
  <2> QED
    BY <1>a, <1>b, <2>1, <2>3, <2>4, <2>5, <2>6 DEF Commands, CommandOK, handlers
<1>4. CASE EndMessage(w) \/ ApplyFeedback(w) \/ EvaluateResult(w)
  <2>1. UNCHANGED <<handlers, applied>>
    BY <1>4 DEF EndMessage, ApplyFeedback, EvaluateResult
  <2> QED
    BY <1>a, <2>1, CommandsKept
<1> QED
  BY <1>1, <1>2, <1>3, <1>4 DEF Receive

\* So does every step.
LEMMA CommandsNext ==
  ASSUME TypeInv, DispatchInv, [Next]_vars
  PROVE  Commands'
<1>1. CASE OutsideStep
  <2>1. \A c \in Command : goal[c] = "none" <=> goal'[c] = "none"
    <3>1. ASSUME NEW c \in Command, RobotFinishes(c)
          PROVE  \A d \in Command : goal[d] = "none" <=> goal'[d] = "none"
      BY <3>1 DEF RobotFinishes, TypeInv, HandlerTypes
    <3>2. CASE \/ \E c \in Command : RobotReports(c)
               \/ \E r \in Robot : LinkDown(r) \/ LinkUp(r)
               \/ UNCHANGED vars
      BY <3>2 DEF RobotReports, LinkDown, LinkUp, vars, world
    <3> QED
      BY <1>1, <3>1, <3>2 DEF OutsideStep
  <2> QED
    BY <1>1, <2>1, OutsideKeeps, CommandsKept DEF rows
<1>2. CASE StartStep
  BY <1>2, StartRows, CommandsKept
<1> QED
  BY <1>1, <1>2, Steps, DispatchCommands, ReceiveCommands

-----------------------------------------------------------------------------
\* A worker and the message it handles: no other worker handles one of the same robot.
LEMMA OneWorker ==
  ASSUME TypeInv, DispatchInv, NEW v \in Worker, NEW w \in Worker, v # w,
         thread[v].pc # "idle"
  PROVE  /\ mutex[RobotOf[thread[v].msg.server]] = v
         /\ mutex[RobotOf[thread[v].msg.server]] # Nobody
         /\ thread[w].pc # "idle" =>
              RobotOf[thread[v].msg.server] # RobotOf[thread[w].msg.server]
  BY DispatchAssumption DEF DispatchInv, Holders, HolderOK, Thread

\* What a worker has in hand is kept by the steps of the others that leave it alone.
LEMMA HolderKept ==
  ASSUME TypeInv, DispatchInv, [Next]_vars, NEW w \in Worker,
         thread'[w] = thread[w],
         thread[w].pc # "idle" =>
           mutex'[RobotOf[thread[w].msg.server]] = mutex[RobotOf[thread[w].msg.server]],
         \A c \in Command : ServerOf[c] = thread[w].msg.server /\ InHand(w, c) =>
           /\ applied'[c] = applied[c]
           /\ c \in pending' <=> c \in pending
           /\ c \in finished' <=> c \in finished
  PROVE  HolderOK(w)'
<1>1. HolderOK(w)
  BY DEF DispatchInv, Holders
<1>2. \A c \in Command : HandOK(w, c)'
  <2> SUFFICES ASSUME NEW c \in Command, InHand(w, c)' PROVE HandOK(w, c)'
    BY DEF HandOK
  <2>1. InHand(w, c) /\ HandOK(w, c)
    BY <1>1 DEF InHand, HolderOK
  <2>2. ServerOf[c] = thread[w].msg.server
    BY <2>1 DEF HandOK
  <2>3. goal'[c] # "none"
    BY <2>1, Grows DEF HandOK
  <2> QED
    BY <2>1, <2>2, <2>3 DEF HandOK
<1>3. \A c \in Command : Evaluates(w, c)' =>
        ServerOf[c] = thread'[w].msg.server /\ applied'[c] # << >>
  BY <1>1, Grows DEF HolderOK, Evaluates
<1> QED
  BY <1>1, <1>2, <1>3 DEF HolderOK

\* Dispatching keeps what workers hold.
LEMMA DispatchHolders ==
  ASSUME TypeInv, DispatchInv, [Next]_vars, NEW t \in Thread, Dispatch(t)
  PROVE  Holders'
<1> SUFFICES ASSUME NEW w \in Worker PROVE HolderOK(w)'
  BY DEF Holders
<1>0. ThreadsOK /\ w \in Thread /\ ThreadOK(t, thread[t]) /\ SendOK(t) /\ HolderOK(w)
  BY DEF TypeInv, ThreadsOK, Thread, DispatchInv, Senders, Holders
<1>1. UNCHANGED <<mutex, applied, finished>>
  BY DEF Dispatch, CreateCommand, Send, RecordSent, MarkDispatched, Refused, TopicPublished,
     locks, handlers
<1>2. ASSUME NEW c \in Command, InHand(w, c) PROVE c \in pending' <=> c \in pending
  <2>1. goal[c] # "none"
    BY <1>0, <1>2 DEF HolderOK, HandOK
  <2>2. Send(t) => c # Cmd(t)
    BY <1>0, <2>1 DEF Send, At, SendOK, Sending, Cmd
  <2> QED
    BY <2>2 DEF Dispatch, CreateCommand, Send, RecordSent, MarkDispatched, Refused,
       TopicPublished, handlers
<1>3. CASE w # t
  <2>1. thread'[w] = thread[w]
    BY <1>0, <1>3, DispatchMoves
  <2> QED
    BY <1>1, <1>2, <2>1, HolderKept
<1>4. CASE w = t
  <2>1. /\ thread[w].pc \in Dispatching /\ thread'[w].pc \in Dispatching \cup {"evaluate"}
        /\ thread'[w].msg = thread[w].msg /\ thread'[w].done = thread[w].done
        /\ thread'[w].calls = thread[w].calls
    BY <1>4, DispatchMoves, DispatchAssumption DEF Home
  <2>2. \A c \in Command : HandOK(w, c)'
    <3> SUFFICES ASSUME NEW c \in Command, InHand(w, c)' PROVE HandOK(w, c)'
      BY DEF HandOK
    <3>1. thread[w].pc # "idle" /\ c \in thread[w].calls /\ thread'[w].pc # "gate"
          /\ thread[w].pc # "gate"
      BY <2>1 DEF InHand, Dispatching, Sending
    <3>2. InHand(w, c) /\ HandOK(w, c)
      BY <1>0, <3>1 DEF InHand, HolderOK
    <3>3. goal'[c] # "none"
      BY <3>2, Grows DEF HandOK
    <3> QED
      BY <1>1, <1>2, <2>1, <3>1, <3>2, <3>3 DEF HandOK
  <2>3. \A c \in Command : Evaluates(w, c)' => Evaluates(w, c)
    BY <2>1 DEF Evaluates
  <2> QED
    BY <1>0, <1>1, <2>1, <2>2, <2>3 DEF HolderOK, Dispatching, Sending
<1> QED
  BY <1>3, <1>4

\* A worker that handles a message leaves alone what another holds: their robots differ.
LEMMA ReceiveOthers ==
  ASSUME TypeInv, DispatchInv, [Next]_vars, NEW v \in Worker, Receive(v), NEW w \in Worker,
         w # v
  PROVE  HolderOK(w)'
<1>0. ThreadsOK /\ v \in Thread /\ w \in Thread /\ ThreadOK(v, thread[v]) /\ HolderOK(v)
      /\ ThreadOK(w, thread[w])
  BY DEF TypeInv, ThreadsOK, Thread, DispatchInv, Holders
<1>1. thread'[w] = thread[w]
  BY <1>0, ReceiveMoves
<1>2. CASE thread[w].pc = "idle"
  BY <1>1, <1>2, HolderKept DEF InHand
<1>3. CASE thread[w].pc # "idle"
  <2> DEFINE r == RobotOf[thread[w].msg.server]
  <2>1. mutex[r] = w /\ r \in Robot /\ mutex[r] # Nobody
        /\ (thread[v].pc # "idle" => RobotOf[thread[v].msg.server] # r)
    BY <1>0, <1>3, OneWorker, DispatchAssumption DEF ThreadOK, MessageType
  <2>2. ASSUME NEW m, NEW q, HandleIncoming(v, m, q)
        PROVE  HolderOK(w)'
    <3>1. RobotOf[m.server] # r
      BY <2>1, <2>2 DEF HandleIncoming
    <3>2. mutex'[r] = mutex[r]
      BY <2>1, <2>2, <3>1 DEF HandleIncoming, TypeInv, HandlerTypes
    <3>3. \A c \in Command : ServerOf[c] = thread[w].msg.server => c \notin Handlers(m)
      BY <3>1 DEF Handlers
    <3>4. UNCHANGED <<applied, finished>>
          /\ \A c \in Command : ServerOf[c] = thread[w].msg.server =>
               (c \in pending' <=> c \in pending)
      BY <2>2, <3>3 DEF HandleIncoming
    <3> QED
      BY <1>1, <3>2, <3>4, HolderKept
  <2>3. CASE HandlePublished(v) \/ HandleResponse(v)
    BY <2>2, <2>3 DEF HandlePublished, HandleResponse
  <2>4. CASE CallHandler(v)
    <3>1. PICK d \in thread[v].calls : finished' \in {finished, finished \cup {d}}
      BY <2>4 DEF CallHandler, handlers, Finish
    <3>2. d \in Command /\ InHand(v, d) /\ thread[v].pc # "idle"
      BY <1>0, <2>4, <3>1 DEF CallHandler, At, InHand, ThreadOK, ThreadType
    <3>3. ServerOf[d] = thread[v].msg.server
      BY <1>0, <3>2 DEF HolderOK, HandOK
    <3>4. UNCHANGED <<applied, pending, mutex>>
      BY <2>4 DEF CallHandler, handlers, locks
    <3>5. \A c \in Command : ServerOf[c] = thread[w].msg.server =>
            (c \in finished' <=> c \in finished)
      BY <2>1, <3>1, <3>2, <3>3
    <3> QED
      BY <1>1, <3>4, <3>5, HolderKept
  <2>5. CASE EndMessage(v)
    <3>1. mutex'[r] = mutex[r] /\ UNCHANGED <<applied, handlers>>
      BY <2>1, <2>5 DEF EndMessage, At, TypeInv, HandlerTypes
    <3> QED
      BY <1>1, <3>1, HolderKept DEF handlers
  <2>6. CASE ApplyFeedback(v) \/ EvaluateResult(v)
    BY <1>1, <2>6, HolderKept DEF ApplyFeedback, EvaluateResult, locks, handlers
  <2>7. CASE ApplyResult(v)
    <3>1. Cmd(v) \in Command /\ InHand(v, Cmd(v)) /\ thread[v].pc # "idle"
      BY <1>0, <2>7 DEF ApplyResult, At, ThreadOK, InHand, Cmd
    <3>2. ServerOf[Cmd(v)] = thread[v].msg.server
      BY <1>0, <3>1 DEF HolderOK, HandOK
    <3>3. UNCHANGED <<handlers, mutex>>
          /\ applied' = [applied EXCEPT ![Cmd(v)] = Append(@, thread[v].msg.outcome)]
      BY <2>7 DEF ApplyResult
    <3>4. \A c \in Command : ServerOf[c] = thread[w].msg.server => applied'[c] = applied[c]
      BY <2>1, <3>1, <3>2, <3>3 DEF TypeInv, HandlerTypes
    <3> QED
      BY <1>1, <3>3, <3>4, HolderKept DEF handlers
  <2> QED
    BY <2>3, <2>4, <2>5, <2>6, <2>7 DEF Receive
<1> QED
  BY <1>2, <1>3

\* And it holds what it should itself.
LEMMA ReceiveHolds ==
  ASSUME TypeInv, DispatchInv, [Next]_vars, NEW w \in Worker, Receive(w)
  PROVE  HolderOK(w)'
<1>0. ThreadsOK /\ w \in Thread /\ ThreadOK(w, thread[w]) /\ HolderOK(w)
  BY DEF TypeInv, ThreadsOK, Thread, DispatchInv, Holders
<1>a. \A c \in Command : CommandOK(c) /\ (goal[c] # "none" => goal'[c] # "none")
  BY Grows DEF DispatchInv, Commands
<1>1. ASSUME NEW m \in MessageType, NEW r, HandleIncoming(w, m, r)
      PROVE  HolderOK(w)'
  <2> DEFINE rec == [Rested EXCEPT !.pc = "calls", !.msg = m, !.strand = r,
                                   !.calls = Handlers(m)]
  <2>1. Move(w, rec) /\ rec.pc = "calls" /\ rec.msg = m /\ rec.calls = Handlers(m)
    BY <1>1 DEF HandleIncoming, Rested
  <2>2. thread'[w] = rec
    BY <1>0, <2>1, Others
  <2>3. mutex'[RobotOf[m.server]] = w
    BY <1>1, DispatchAssumption DEF HandleIncoming, TypeInv, HandlerTypes, MessageType
  <2>4. UNCHANGED <<finished, applied>>
        /\ pending' = IF m.kind = "result" THEN pending \ Handlers(m) ELSE pending
    BY <1>1 DEF HandleIncoming
  <2>5. ASSUME NEW c \in Command, c \in Handlers(m)
        PROVE  HandOK(w, c)'
    <3>1. ServerOf[c] = m.server /\ goal[c] # "none" /\ applied[c] = << >> /\ c \notin finished
      BY <1>a, <2>5 DEF Handlers, CommandOK, MessageType
    <3>2. ~OnTopics(c) => m.about = c /\ (c \in pending' <=> m.kind = "feedback")
      BY <2>4, <2>5 DEF Handlers, MessageType
    <3> QED
      BY <1>a, <2>1, <2>2, <2>4, <3>1, <3>2 DEF HandOK
  <2>6. \A c \in Command : HandOK(w, c)'
    BY <2>1, <2>2, <2>5 DEF HandOK, InHand
  <2>7. \A c \in Command : ~ Evaluates(w, c)'
    BY <2>1, <2>2 DEF Evaluates, Dispatching, Sending
  <2> QED
    BY <2>1, <2>2, <2>3, <2>6, <2>7 DEF HolderOK
<1>2. CASE HandlePublished(w)
  <2>1. PICK r \in Robot : strand[r] # << >> /\ HandleIncoming(w, Head(strand[r]), r)
    BY <1>2 DEF HandlePublished
  <2>2. Head(strand[r]) \in MessageType
    BY <2>1, HeadTailProperties DEF TypeInv, HandlerTypes
  <2> QED
    BY <1>1, <2>1, <2>2
<1>3. CASE HandleResponse(w)
  BY <1>1, <1>3 DEF HandleResponse, TypeInv, HandlerTypes
<1>4. CASE CallHandler(w)
  <2>1. PICK c \in thread[w].calls :
          \/ /\ OnTopics(c) /\ UNCHANGED handlers
             /\ Move(w, [thread[w] EXCEPT !.calls = @ \ {c}, !.cmd = c])
          \/ /\ Move(w, [[thread[w] EXCEPT !.calls = @ \ {c}, !.cmd = c] EXCEPT !.pc = "gate"])
             /\ OnTopics(c) => Concerns(thread[w].msg, c) /\ Terminal(thread[w].msg)
             /\ IF OnTopics(c) /\ thread[w].msg.kind = "result"
                  THEN Finish(c) /\ UNCHANGED pending ELSE UNCHANGED handlers
    BY <1>4 DEF CallHandler
  <2> DEFINE rec(pc) == [thread[w] EXCEPT !.calls = @ \ {c}, !.cmd = c, !.pc = pc]
             m == thread[w].msg
  <2>2. /\ thread[w].pc = "calls" /\ c \in Command /\ m \in MessageType
        /\ UNCHANGED <<applied, mutex>>
    BY <1>0, <1>4 DEF CallHandler, At, ThreadOK, ThreadType, locks
  <2>3. PICK pc \in {"calls", "gate"} :
          /\ Move(w, rec(pc))
          /\ pc = "gate" =>
               /\ OnTopics(c) => Concerns(m, c) /\ Terminal(m)
               /\ IF OnTopics(c) /\ m.kind = "result"
                    THEN Finish(c) /\ UNCHANGED pending ELSE UNCHANGED handlers
          /\ pc = "calls" => UNCHANGED handlers
    BY <1>0, <2>1, <2>2 DEF ThreadOK, ThreadType, At
  <2>4. thread'[w] = rec(pc)
    BY <1>0, <2>3, Others
  <2>5. /\ thread'[w].pc = pc /\ thread'[w].cmd = c /\ thread'[w].msg = m
        /\ thread'[w].calls = thread[w].calls \ {c}
    BY <1>0, <2>4 DEF ThreadOK, ThreadType
  <2>6. /\ pending' = pending /\ \A d \in Command : d # c => (d \in finished' <=> d \in finished)
        /\ c \in finished' <=> c \in finished \/ (pc = "gate" /\ OnTopics(c) /\ m.kind = "result")
    BY <2>3 DEF handlers, Finish
  <2>7. HandOK(w, c)'
    <3>1. HandOK(w, c) /\ c \in thread[w].calls /\ InHand(w, c)
      BY <1>0, <2>2 DEF HolderOK, InHand
    <3> QED
      BY <1>a, <2>2, <2>3, <2>5, <2>6, <3>1 DEF HandOK, InHand
  <2>8. \A d \in Command : d # c => HandOK(w, d)'
    <3> SUFFICES ASSUME NEW d \in Command, d # c, InHand(w, d)' PROVE HandOK(w, d)'
      BY DEF HandOK
    <3>1. HandOK(w, d) /\ d \in thread[w].calls /\ InHand(w, d)
      BY <1>0, <2>2, <2>5 DEF HolderOK, InHand
    <3> QED
      BY <1>a, <2>2, <2>5, <2>6, <3>1 DEF HandOK, InHand
  <2>9. \A d \in Command : ~ Evaluates(w, d)'
    BY <2>3, <2>5 DEF Evaluates, Dispatching, Sending
  <2> QED
    BY <1>0, <2>2, <2>5, <2>7, <2>8, <2>9 DEF HolderOK
<1>5. CASE EndMessage(w)
  <2>1. thread'[w].pc = "idle"
    BY <1>0, <1>5, Others DEF EndMessage, Rested
  <2> QED
    BY <2>1 DEF HolderOK, HandOK, InHand, Evaluates, Dispatching, Sending
\* What is still to be called, when one handler has returned or gone on.
<1>6. ASSUME thread[w].pc # "idle", thread'[w].pc # "idle", thread'[w].pc # "gate",
             thread'[w].msg = thread[w].msg, thread'[w].calls = thread[w].calls,
             UNCHANGED <<handlers, mutex>>,
             \A c \in thread[w].calls : applied'[c] = applied[c]
      PROVE  /\ \A c \in Command : HandOK(w, c)'
             /\ mutex'[RobotOf[thread'[w].msg.server]] = w
  <2>1. ASSUME NEW c \in Command, c \in thread[w].calls PROVE HandOK(w, c)'
    <3>1. HandOK(w, c) /\ InHand(w, c)
      BY <1>0, <1>6, <2>1 DEF HolderOK, InHand
    <3> QED
      BY <1>a, <1>6, <2>1, <3>1 DEF HandOK, handlers
  <2>2. \A c \in Command : HandOK(w, c)'
    BY <1>6, <2>1 DEF HandOK, InHand
  <2> QED
    BY <1>0, <1>6, <2>2 DEF HolderOK
<1>7. ASSUME thread[w].pc # "idle", Go(w, "calls")
      PROVE  /\ thread'[w].pc = "calls" /\ thread'[w].msg = thread[w].msg
             /\ thread'[w].calls = thread[w].calls
             /\ \A c \in Command : ~ Evaluates(w, c)'
  <2>1. thread'[w] = [thread[w] EXCEPT !.pc = "calls"]
    BY <1>0, <1>7, Others DEF Go
  <2>2. /\ thread'[w].pc = "calls" /\ thread'[w].msg = thread[w].msg
        /\ thread'[w].calls = thread[w].calls
    BY <1>0, <2>1 DEF ThreadOK, ThreadType
  <2> QED
    BY <2>2 DEF Evaluates, Dispatching, Sending
<1>8. CASE ApplyFeedback(w) \/ EvaluateResult(w)
  <2>1. /\ thread[w].pc # "idle" /\ Go(w, "calls")
        /\ UNCHANGED <<handlers, mutex, applied>>
    BY <1>8 DEF ApplyFeedback, EvaluateResult, At, locks
  <2> QED
    BY <1>6, <1>7, <2>1 DEF HolderOK
<1>9. CASE ApplyResult(w)
  <2>c. PICK c : c = thread[w].cmd
    OBVIOUS
  <2>1. c \in Command /\ InHand(w, c) /\ HandOK(w, c) /\ thread[w].pc = "gate"
    BY <1>0, <1>9, <2>c DEF ApplyResult, At, ThreadOK, InHand, HolderOK
  <2>2. c \notin thread[w].calls /\ ServerOf[c] = thread[w].msg.server
    BY <2>1, <2>c DEF HandOK
  <2>3. UNCHANGED <<handlers, mutex>>
        /\ applied' = [applied EXCEPT ![c] = Append(@, thread[w].msg.outcome)]
    BY <1>9, <2>c DEF ApplyResult, Cmd
  <2>4. \A d \in thread[w].calls : applied'[d] = applied[d]
    BY <1>0, <2>1, <2>2, <2>3 DEF TypeInv, HandlerTypes, ThreadOK, ThreadType
  <2>5. applied'[c] # << >>
    <3>1. applied[c] = << >>
      BY <2>1 DEF HandOK
    <3>2. Append(applied[c], thread[w].msg.outcome) # << >>
      BY <3>1
    <3> QED
      BY <2>1, <2>3, <3>2 DEF TypeInv, HandlerTypes
  <2>6. CASE Go(w, "calls")
    BY <1>6, <1>7, <2>1, <2>3, <2>4, <2>6 DEF HolderOK
  <2>7. CASE FollowEdges(w, c, [thread[w] EXCEPT !.back = "evaluate", !.done = c])
    <3> DEFINE rec == [thread[w] EXCEPT !.todo = Starts[c] \o @, !.back = "evaluate",
                                        !.done = c]
    <3>1. Starts[c] \o thread[w].todo \in Seq(Command)
      BY <1>0, <2>1, StartedOnce, ConcatProperties DEF ThreadOK, ThreadType
    <3>2. /\ rec \in ThreadType /\ Resume(w, rec)
          /\ rec.back = "evaluate" /\ rec.done = c /\ rec.msg = thread[w].msg
          /\ rec.calls = thread[w].calls
      BY <1>0, <2>1, <2>7, <3>1 DEF ThreadOK, ThreadType, FollowEdges
    <3>3. /\ thread'[w].pc \in {"evaluate", "dispatch"} /\ thread'[w].done = c
          /\ thread'[w].msg = thread[w].msg /\ thread'[w].calls = thread[w].calls
      BY <1>0, <3>2, Resumed
    <3> QED
      BY <1>6, <2>1, <2>2, <2>3, <2>4, <2>5, <3>3 DEF HolderOK, Evaluates
  <2> QED
    BY <1>9, <2>c, <2>6, <2>7 DEF ApplyResult, Cmd
<1> QED
  BY <1>2, <1>3, <1>4, <1>5, <1>8, <1>9 DEF Receive

\* Every step keeps what workers hold.
LEMMA HoldersNext ==
  ASSUME TypeInv, DispatchInv, [Next]_vars
  PROVE  Holders'
<1>1. ASSUME NEW w \in Worker, OutsideStep \/ StartStep PROVE HolderOK(w)'
  <2>1. w \in Thread /\ w \notin {Api, Timer}
    BY DispatchAssumption DEF Thread
  <2>2. thread'[w] = thread[w]
    BY <1>1, <2>1, OutsideKeeps, StartMoves
  <2>3. UNCHANGED <<mutex, handlers, applied>>
    <3>1. CASE StartStep
      BY <3>1 DEF StartStep, StartRun, DelayOver, LeaveDelay, BeginCancel, CancelNavigation,
         EndCancel, locks
    <3> QED
      BY <1>1, <3>1, OutsideKeeps DEF locks
  <2> QED
    BY <2>2, <2>3, HolderKept DEF handlers
<1>2. ASSUME NEW v \in Worker, Receive(v) PROVE Holders'
  BY <1>2, ReceiveHolds, ReceiveOthers DEF Holders
<1> QED
  BY <1>1, <1>2, Steps, DispatchHolders DEF Holders

\* The invariant of dispatch is inductive.
LEMMA DispatchInvNext ==
  ASSUME TypeInv, DispatchInv, [Next]_vars
  PROVE  DispatchInv'
BY TodosNext, SendersNext, CommandsNext, CancelNext, HoldersNext DEF DispatchInv

\* The invariant of dispatch holds at first.
LEMMA DispatchInvInit == Init => DispatchInv
<1> SUFFICES ASSUME Init PROVE DispatchInv
  OBVIOUS
<1>1. \A t \in Thread : thread[t] = Rested
  BY DEF Init
<1>2. /\ Rested.pc = "idle" /\ Rested.todo = << >> /\ IsInjective(<< >>)
      /\ ToSet(<< >>) = {}
  BY DEF Rested, IsInjective, ToSet
<1>3. Api \in Thread /\ Worker \subseteq Thread
  BY DEF Thread
<1>4. Dues /\ TodosApart
  BY <1>1, <1>2 DEF Dues, DueOK, TodosApart
<1>5. Senders /\ SendersApart /\ CancelOK
  BY <1>1, <1>2, <1>3 DEF Senders, SendOK, SendersApart, Sends, CancelOK, Sending
<1>6. Commands
  BY DEF Init, Commands, CommandOK
<1>7. Holders
  BY <1>1, <1>2, <1>3 DEF Holders, HolderOK, HandOK, InHand, Evaluates, Dispatching, Sending
<1> QED
  BY <1>4, <1>5, <1>6, <1>7 DEF DispatchInv

\* Each command is sent at most once, by one thread, after its row is made; a message
\* is handled under the mutex of its robot, and a handler that is called has not been
\* given a verdict before (runNode and the dispatcher of the runtime, with the handlers
\* of the session).
THEOREM DispatchSafe == Spec => [](TypeInv /\ DispatchInv)
BY InitTyped, Typing, DispatchInvInit, DispatchInvNext, PTL DEF Spec

-----------------------------------------------------------------------------
\* A server that answers without goal ids is used by one command only: otherwise a
\* handler takes the result of another goal for its own.
AnonymousAlone ==
  \A c, d \in Command : ServerOf[c] = ServerOf[d] /\ ServerOf[c] \in Anonymous => c = d

\* The robot has decided the goal.
Decided(c) == goal[c] \in {"SUCCEEDED", "FAILED"}

\* A message tells of a goal of its server: with the id if the server gives one, and a
\* result tells what was decided.
SentBy(m, c) ==
  /\ ServerOf[c] = m.server /\ m.about = IF m.server \in Anonymous THEN NoGoal ELSE c
  /\ goal[c] # "none"
  /\ m.kind = "result" =>
       IF m.outcome = "none" THEN Adapter[c] = "NAVIGATION"
       ELSE Decided(c) /\ m.outcome = goal[c]
Sent(m) == \E c \in Command : SentBy(m, c)

\* What was once rightly said stays so: goals are decided once.
LEMMA SentKept ==
  ASSUME TypeInv, NEW m,
         \A c \in Command : /\ goal[c] # "none" => goal'[c] # "none"
                            /\ Decided(c) => goal'[c] = goal[c],
         Sent(m)
  PROVE  Sent(m)'
BY DEF Sent, SentBy, Decided

\* A decided goal stays decided.
LEMMA GoalsSettle ==
  ASSUME TypeInv, DispatchInv, [Next]_vars, NEW c \in Command
  PROVE  /\ goal[c] # "none" => goal'[c] # "none"
         /\ Decided(c) => goal'[c] = goal[c]
<1>1. goal[c] # "none" => goal'[c] # "none"
  BY Grows
<1>2. ASSUME NEW t \in Thread, Dispatch(t), Decided(c) PROVE goal'[c] = goal[c]
  <2>1. SendOK(t) /\ (goal' = goal \/ Send(t))
    BY <1>2 DEF DispatchInv, Senders, Dispatch, CreateCommand, RecordSent, MarkDispatched,
       Refused, TopicPublished, world
  <2>2. Send(t) => c # Cmd(t)
    BY <1>2, <2>1 DEF Send, At, SendOK, Sending, Cmd, Decided
  <2> QED
    BY <2>1, <2>2 DEF Send, TypeInv, HandlerTypes
<1>3. ASSUME NEW w \in Worker, Receive(w) PROVE goal'[c] = goal[c]
  BY <1>3, ReceiveRows
<1>4. CASE StartStep
  BY <1>4, StartRows
<1>5. ASSUME OutsideStep, Decided(c) PROVE goal'[c] = goal[c]
  BY <1>5 DEF OutsideStep, RobotFinishes, RobotReports, LinkDown, LinkUp, vars, world,
     Decided, TypeInv, HandlerTypes
<1> QED
  BY <1>1, <1>2, <1>3, <1>4, <1>5, Steps

\* The messages in the queues.
MessagesSent ==
  /\ \A r \in Robot : \A m \in ToSet(strand[r]) : Sent(m)
  /\ \A m \in responses : Sent(m)
  /\ \A w \in Worker : thread[w].pc # "idle" => Sent(thread[w].msg)

\* Every verdict applied is that of its own goal.
Verdicts ==
  \A c \in Command : applied[c] # << >> =>
    Decided(c) /\ applied[c] = <<goal[c]>> /\ row[c] \in {goal[c], "CANCELLED"}

\* Messages that stay stay right.
LEMMA MessagesKept ==
  ASSUME TypeInv, DispatchInv, [Next]_vars, MessagesSent, queues' = queues,
         \A w \in Worker : thread'[w].pc # "idle" =>
           thread[w].pc # "idle" /\ thread'[w].msg = thread[w].msg
  PROVE  MessagesSent'
BY SentKept, GoalsSettle DEF MessagesSent, queues

\* A message taken from its queue goes to a worker.
LEMMA ReceiveMessages ==
  ASSUME TypeInv, DispatchInv, [Next]_vars, MessagesSent, NEW w \in Worker, Receive(w)
  PROVE  MessagesSent'
<1>0. ThreadsOK /\ w \in Thread /\ ThreadOK(w, thread[w]) /\ Worker \subseteq Thread
  BY DEF TypeInv, ThreadsOK, Thread
<1>a. \A v \in Worker : v # w => thread'[v] = thread[v]
  BY <1>0, ReceiveMoves
<1>b. \A m : Sent(m) => Sent(m)'
  BY SentKept, GoalsSettle
<1>1. ASSUME NEW m, NEW r, HandleIncoming(w, m, r), Sent(m),
             \A q \in Robot : ToSet(strand'[q]) \subseteq ToSet(strand[q]),
             responses' \subseteq responses
      PROVE  MessagesSent'
  <2> DEFINE rec == [Rested EXCEPT !.pc = "calls", !.msg = m, !.strand = r,
                                   !.calls = Handlers(m)]
  <2>1. Move(w, rec) /\ rec.msg = m
    BY <1>1 DEF HandleIncoming, Rested
  <2>2. thread'[w].msg = m
    BY <1>0, <2>1, Others
  <2> QED
    BY <1>1, <1>a, <1>b, <2>2 DEF MessagesSent
<1>2. CASE HandlePublished(w)
  <2>1. PICK r \in Robot : /\ strand[r] # << >> /\ HandleIncoming(w, Head(strand[r]), r)
                           /\ strand' = [strand EXCEPT ![r] = Tail(@)] /\ responses' = responses
    BY <1>2 DEF HandlePublished
  <2>2. strand[r] \in Seq(MessageType)
    BY <2>1 DEF TypeInv, HandlerTypes
  <2>3. ToSet(Tail(strand[r])) \subseteq ToSet(strand[r]) /\ Head(strand[r]) \in ToSet(strand[r])
    <3>1. /\ Tail(strand[r]) \in Seq(MessageType) /\ Len(Tail(strand[r])) = Len(strand[r]) - 1
          /\ Len(strand[r]) \in Nat \ {0}
          /\ \A i \in 1..Len(Tail(strand[r])) : Tail(strand[r])[i] = strand[r][i+1]
      BY <2>1, <2>2, HeadTailProperties, EmptySeq
    <3>2. /\ DOMAIN strand[r] = 1..Len(strand[r])
          /\ DOMAIN Tail(strand[r]) = 1..Len(strand[r])-1 /\ Head(strand[r]) = strand[r][1]
      BY <2>2, <3>1
    <3>3. \A i \in 1..Len(strand[r])-1 : Tail(strand[r])[i] = strand[r][i+1]
                                         /\ i+1 \in 1..Len(strand[r])
      BY <3>1
    <3> QED
      BY <3>1, <3>2, <3>3 DEF ToSet
  <2>4. \A q \in Robot : ToSet(strand'[q]) \subseteq ToSet(strand[q])
    BY <2>1, <2>3 DEF TypeInv, HandlerTypes
  <2>5. Sent(Head(strand[r]))
    BY <2>3 DEF MessagesSent
  <2> QED
    BY <1>1, <2>1, <2>4, <2>5
<1>3. CASE HandleResponse(w)
  <2>1. PICK m \in responses : HandleIncoming(w, m, Nobody) /\ responses' = responses \ {m}
                               /\ strand' = strand
    BY <1>3 DEF HandleResponse
  <2>2. Sent(m)
    BY DEF MessagesSent
  <2> QED
    BY <1>1, <2>1, <2>2
<1>4. CASE EndMessage(w)
  <2>1. thread'[w].pc = "idle" /\ queues' = queues
    BY <1>0, <1>4, Others DEF EndMessage, Rested
  <2> QED
    BY <1>a, <2>1, MessagesKept
<1>5. CASE CallHandler(w) \/ ApplyFeedback(w) \/ ApplyResult(w) \/ EvaluateResult(w)
  <2>1. thread[w].pc # "idle" /\ queues' = queues
    BY <1>5 DEF CallHandler, ApplyFeedback, ApplyResult, EvaluateResult, At
  <2>2. thread'[w].msg = thread[w].msg
    <3>1. ASSUME Go(w, "calls") PROVE thread'[w].msg = thread[w].msg
      <4>1. thread'[w] = [thread[w] EXCEPT !.pc = "calls"]
        BY <1>0, <3>1, Others DEF Go
      <4> QED
        BY <1>0, <4>1 DEF ThreadOK, ThreadType
    <3>2. CASE CallHandler(w)
      <4>1. PICK c : \/ Move(w, [[thread[w] EXCEPT !.calls = @ \ {c}, !.cmd = c] EXCEPT !.pc = "gate"])
                     \/ Move(w, [thread[w] EXCEPT !.calls = @ \ {c}, !.cmd = c])
        BY <3>2 DEF CallHandler
      <4> DEFINE rec(pc) == [thread[w] EXCEPT !.calls = @ \ {c}, !.cmd = c, !.pc = pc]
      <4>2. At(w, "calls")
        BY <3>2 DEF CallHandler
      <4>3. \E pc \in {"calls", "gate"} : Move(w, rec(pc))
        BY <1>0, <4>1, <4>2 DEF ThreadOK, ThreadType, At
      <4>4. \A pc \in {"calls", "gate"} : rec(pc).msg = thread[w].msg
        BY <1>0 DEF ThreadOK, ThreadType
      <4> QED
        BY <1>0, <4>3, <4>4, Others
    <3>3. CASE ApplyResult(w) /\ ~Go(w, "calls")
      <4>c. PICK c : c = thread[w].cmd
        OBVIOUS
      <4> DEFINE rec == [thread[w] EXCEPT !.todo = Starts[c] \o @, !.back = "evaluate",
                                          !.done = c]
      <4>1. c \in Command /\ Starts[c] \o thread[w].todo \in Seq(Command)
        BY <1>0, <3>3, <4>c, StartedOnce, ConcatProperties
           DEF ApplyResult, At, ThreadOK, ThreadType
      <4>2. rec \in ThreadType /\ Resume(w, rec) /\ rec.msg = thread[w].msg
        BY <1>0, <3>3, <4>c, <4>1 DEF ApplyResult, ThreadOK, ThreadType, FollowEdges, Cmd
      <4> QED
        BY <1>0, <4>2, Resumed
    <3> QED
      BY <1>5, <3>1, <3>2, <3>3 DEF ApplyFeedback, EvaluateResult
  <2> QED
    BY <1>a, <2>1, <2>2, MessagesKept
<1> QED
  BY <1>2, <1>3, <1>4, <1>5 DEF Receive

\* What is delivered was rightly said.
LEMMA DeliverSent ==
  ASSUME TypeInv, NEW c \in Command, NEW m \in MessageType, Deliver(c, m)
  PROVE  /\ \A r \in Robot : ToSet(strand'[r]) \subseteq ToSet(strand[r]) \cup {m}
         /\ responses' \subseteq responses \cup {m}
<1>1. RobotFor(c) \in Robot /\ strand[RobotFor(c)] \in Seq(MessageType)
  BY DispatchAssumption DEF RobotFor, TypeInv, HandlerTypes
<1>2. ToSet(Append(strand[RobotFor(c)], m)) \subseteq ToSet(strand[RobotFor(c)]) \cup {m}
  <2> DEFINE s == strand[RobotFor(c)]
  <2>1. /\ Append(s, m) \in Seq(MessageType) /\ Len(Append(s, m)) = Len(s) + 1
        /\ \A i \in 1..Len(s) : Append(s, m)[i] = s[i]
        /\ Append(s, m)[Len(s)+1] = m /\ Len(s) \in Nat
    BY <1>1, AppendProperties
  <2>2. DOMAIN Append(s, m) = 1..Len(s)+1 /\ DOMAIN s = 1..Len(s)
    BY <1>1, <2>1
  <2> QED
    BY <2>1, <2>2 DEF ToSet
<1> QED
  BY <1>1, <1>2 DEF Deliver, queues, TypeInv, HandlerTypes

\* What the robots say is right.
LEMMA RobotMessages ==
  ASSUME TypeInv, DispatchInv, [Next]_vars, MessagesSent,
         NEW c \in Command, RobotFinishes(c) \/ RobotReports(c)
  PROVE  MessagesSent'
<1>1. UNCHANGED thread
  BY DEF RobotFinishes, RobotReports, RobotSteps
<1>2. \A m : Sent(m) => Sent(m)'
  BY SentKept, GoalsSettle
<1>3. \E kind \in {"feedback", "result"} : \E value \in 0..1 :
        \E outcome \in {"none", "SUCCEEDED", "FAILED"} :
          /\ Deliver(c, Message(c, kind, value, outcome))
          /\ goal'[c] # "none"
          /\ kind = "result" => IF outcome = "none" THEN Adapter[c] = "NAVIGATION"
                                ELSE outcome = goal'[c]
  <2>1. CASE RobotFinishes(c)
    BY <2>1 DEF RobotFinishes, TypeInv, HandlerTypes
  <2>2. CASE RobotReports(c)
    <3>1. goal' = goal /\ goal[c] \in {"working", "SUCCEEDED", "FAILED"}
      BY <2>2 DEF RobotReports, TypeInv, HandlerTypes
    <3> QED
      BY <2>2, <3>1 DEF RobotReports
  <2> QED
    BY <2>1, <2>2
<1>4. PICK m \in MessageType : Deliver(c, m) /\ SentBy(m, c)'
  <2>1. PICK kind \in {"feedback", "result"}, value \in 0..1,
             outcome \in {"none", "SUCCEEDED", "FAILED"} :
          /\ Deliver(c, Message(c, kind, value, outcome))
          /\ goal'[c] # "none"
          /\ kind = "result" => IF outcome = "none" THEN Adapter[c] = "NAVIGATION"
                                ELSE outcome = goal'[c]
    BY <1>3
  <2> DEFINE m == Message(c, kind, value, outcome)
  <2>2. m \in MessageType
    BY MessageTyped
  <2>3. SentBy(m, c)'
    BY <2>1 DEF SentBy, Message, Decided
  <2> QED
    BY <2>1, <2>2, <2>3
<1>5. Sent(m)'
  BY <1>4 DEF Sent
<1> QED
  BY <1>1, <1>2, <1>4, <1>5, DeliverSent DEF MessagesSent

\* Every step keeps the messages right.
LEMMA MessagesNext ==
  ASSUME TypeInv, DispatchInv, [Next]_vars, MessagesSent
  PROVE  MessagesSent'
<1>0. Worker \subseteq Thread /\ \A w \in Worker : w \notin {Api, Timer}
  BY DispatchAssumption DEF Thread
<1>1. ASSUME NEW t \in Thread, Dispatch(t) PROVE MessagesSent'
  <2>1. queues' = queues
    BY <1>1 DEF Dispatch, CreateCommand, Send, RecordSent, MarkDispatched, Refused,
       TopicPublished
  <2>2. thread[t].pc # "idle" /\ thread'[t].msg = thread[t].msg
        /\ \A u \in Thread : u # t => thread'[u] = thread[u]
    BY <1>1, DispatchMoves DEF Dispatching, Sending
  <2> QED
    BY <1>0, <2>1, <2>2, MessagesKept
<1>2. CASE StartStep
  <2>1. queues' = queues
    BY <1>2 DEF StartStep, StartRun, DelayOver, LeaveDelay, BeginCancel, CancelNavigation,
       EndCancel
  <2> QED
    BY <1>0, <1>2, <2>1, StartMoves, MessagesKept
<1>3. CASE \/ \E r \in Robot : LinkDown(r) \/ LinkUp(r)
           \/ UNCHANGED vars
  BY <1>3, MessagesKept DEF LinkDown, LinkUp, vars
<1> QED
  BY <1>1, <1>2, <1>3, Steps, ReceiveMessages, RobotMessages DEF OutsideStep

\* The verdict a handler is about to apply is that of its own goal.
LEMMA OwnMessage ==
  ASSUME AnonymousAlone, TypeInv, DispatchInv, MessagesSent,
         NEW w \in Worker, thread[w].pc = "gate", thread[w].msg.kind = "result"
  PROVE  LET c == thread[w].cmd IN
           /\ c \in Command /\ Decided(c) /\ thread[w].msg.outcome = goal[c]
           /\ applied[c] = << >>
<1> DEFINE c == thread[w].cmd
           m == thread[w].msg
<1>0. ThreadOK(w, thread[w]) /\ HolderOK(w)
  BY DEF TypeInv, ThreadsOK, DispatchInv, Holders, Thread
<1>1. c \in Command /\ InHand(w, c)
  BY <1>0 DEF ThreadOK, InHand
<1>2. /\ ServerOf[c] = m.server /\ applied[c] = << >>
      /\ OnTopics(c) => Concerns(m, c) /\ Terminal(m)
      /\ ~OnTopics(c) => m.about = c
  BY <1>0, <1>1 DEF HolderOK, HandOK
<1>3. PICK d \in Command : SentBy(m, d)
  BY DEF MessagesSent, Sent
<1>4. c = d
  <2>1. CASE m.server \in Anonymous
    BY <1>1, <1>2, <1>3, <2>1 DEF AnonymousAlone, SentBy
  <2>2. CASE m.server \notin Anonymous
    BY <1>1, <1>2, <1>3, <2>2, DispatchAssumption DEF SentBy, Concerns
  <2> QED
    BY <2>1, <2>2
<1>5. m.outcome # "none"
  BY <1>2, <1>3, <1>4 DEF SentBy, Terminal, OnTopics
<1> QED
  BY <1>1, <1>2, <1>3, <1>4, <1>5 DEF SentBy

\* Every step keeps the verdicts right.
LEMMA VerdictsNext ==
  ASSUME AnonymousAlone, TypeInv, DispatchInv, [Next]_vars, MessagesSent, Verdicts
  PROVE  Verdicts'
<1> SUFFICES ASSUME NEW c \in Command, applied'[c] # << >>
             PROVE  (Decided(c) /\ applied[c] = <<goal[c]>> /\ row[c] \in {goal[c], "CANCELLED"})'
  BY DEF Verdicts
<1>0. CommandOK(c) /\ (Decided(c) => goal'[c] = goal[c])
  BY GoalsSettle DEF DispatchInv, Commands
<1>1. ASSUME applied[c] # << >>, applied'[c] = applied[c], row'[c] \in {row[c], "CANCELLED"}
      PROVE  (Decided(c) /\ applied[c] = <<goal[c]>> /\ row[c] \in {goal[c], "CANCELLED"})'
  BY <1>0, <1>1 DEF Verdicts, Decided
<1>2. ASSUME NEW t \in Thread, Dispatch(t)
      PROVE  applied[c] # << >> /\ applied'[c] = applied[c] /\ row'[c] = row[c]
  <2>0. ThreadOK(t, thread[t]) /\ SendOK(t)
    BY DEF TypeInv, ThreadsOK, DispatchInv, Senders
  <2>1. applied' = applied
    BY <1>2 DEF Dispatch, CreateCommand, Send, RecordSent, MarkDispatched, Refused,
       TopicPublished
  <2>2. row[c] \in {"SUCCEEDED", "FAILED", "CANCELLED"} /\ goal[c] # "none"
        /\ Adapter[c] # "TOPIC"
    BY <1>0, <2>1 DEF Verdicts, Decided, CommandOK
  <2>3. CASE CreateCommand(t)
    <3>1. Head(thread[t].todo) \in ToSet(thread[t].todo)
      BY <2>0, <2>3, Shortened DEF CreateCommand, At, ThreadOK, ThreadType
    <3>2. Head(thread[t].todo) # c
      BY <2>2, <3>1 DEF DispatchInv, Dues, DueOK
    <3> QED
      BY <2>1, <2>3, <3>2 DEF CreateCommand, TypeInv, RowTypes
  <2>4. CASE Send(t) \/ RecordSent(t)
    BY <2>1, <2>4 DEF Send, RecordSent, rows
  <2>5. CASE MarkDispatched(t)
    BY <2>1, <2>2, <2>5 DEF MarkDispatched, Marked, TypeInv, RowTypes
  <2>6. CASE Refused(t) \/ TopicPublished(t)
    <3>1. Cmd(t) # c
      BY <2>0, <2>2, <2>6 DEF Refused, TopicPublished, SendOK, At, Sending, Cmd
    <3> QED
      BY <2>1, <2>6, <3>1 DEF Refused, TopicPublished, TypeInv, RowTypes
  <2> QED
    BY <1>2, <2>1, <2>3, <2>4, <2>5, <2>6 DEF Dispatch
<1>3. ASSUME NEW w \in Worker, Receive(w), ~(ApplyResult(w) /\ thread[w].cmd = c)
      PROVE  applied[c] # << >> /\ applied'[c] = applied[c] /\ row'[c] = row[c]
  <2>1. CASE ApplyResult(w)
    BY <1>3, <2>1 DEF ApplyResult, Cmd, TypeInv, RowTypes, HandlerTypes
  <2>2. CASE ~ApplyResult(w)
    BY <1>3, <2>2 DEF Receive, HandlePublished, HandleResponse, HandleIncoming, CallHandler,
       EndMessage, ApplyFeedback, EvaluateResult, rows
  <2> QED
    BY <2>1, <2>2
<1>4. ASSUME NEW w \in Worker, ApplyResult(w), thread[w].cmd = c
      PROVE  (Decided(c) /\ applied[c] = <<goal[c]>> /\ row[c] \in {goal[c], "CANCELLED"})'
  <2>1. Decided(c) /\ thread[w].msg.outcome = goal[c] /\ applied[c] = << >>
    BY <1>4, OwnMessage DEF ApplyResult, At
  <2>2. /\ applied' = [applied EXCEPT ![c] = Append(@, goal[c])]
        /\ row' = [row EXCEPT ![c] = Verdict(goal[c] = "SUCCEEDED")]
    BY <1>4, <2>1 DEF ApplyResult, Cmd
  <2>3. applied'[c] = Append(<< >>, goal[c]) /\ Append(<< >>, goal[c]) = <<goal[c]>>
    BY <2>1, <2>2 DEF TypeInv, HandlerTypes
  <2>4. row'[c] = goal[c]
    BY <2>1, <2>2 DEF Verdict, Decided, TypeInv, RowTypes
  <2> QED
    BY <1>0, <2>1, <2>3, <2>4 DEF Decided
<1>5. ASSUME StartStep
      PROVE  applied'[c] = applied[c] /\ row'[c] \in {row[c], "CANCELLED"}
  BY <1>5 DEF StartStep, StartRun, DelayOver, LeaveDelay, BeginCancel, CancelNavigation,
     EndCancel, rows, TypeInv, RowTypes
<1>6. ASSUME OutsideStep PROVE applied'[c] = applied[c] /\ row'[c] = row[c]
  BY <1>6, OutsideKeeps DEF rows
<1> QED
  BY <1>1, <1>2, <1>3, <1>4, <1>5, <1>6, Steps

\* However the messages of several goals are ordered, queued and handled by several
\* workers while goals are dispatched and cancelled, the handler of a goal is called with
\* one verdict, its own, and the row it writes is only ever replaced by a cancellation
\* (the handlers of RobotRuntime, completeNode and markCommandDispatched).
THEOREM OwnVerdictHolds ==
  ASSUME AnonymousAlone
  PROVE  Spec => []OwnVerdict
<1> DEFINE Inv == TypeInv /\ DispatchInv /\ MessagesSent /\ Verdicts
<1>1. Init => Inv
  <2> SUFFICES ASSUME Init PROVE Inv
    OBVIOUS
  <2>1. \A t \in Thread : thread[t].pc = "idle"
    BY DEF Init, Rested
  <2>2. \A r \in Robot : ToSet(strand[r]) = {}
    BY DEF Init, ToSet
  <2> QED
    BY <2>1, <2>2, InitTyped, DispatchInvInit DEF MessagesSent, Verdicts, Init, Thread
<1>2. Inv /\ [Next]_vars => Inv'
  BY Typing, DispatchInvNext, MessagesNext, VerdictsNext
<1>3. Inv => OwnVerdict
  BY DEF Verdicts, OwnVerdict
<1> QED
  BY <1>1, <1>2, <1>3, PTL DEF Spec

-----------------------------------------------------------------------------
Below == {m \in Nat \X Nat : m[1] < m[2]}

\* What is true of 0, and of a number's successor with the number, is true up to n.
LEMMA Counting ==
  ASSUME NEW n \in Nat, NEW T, 0 \in T, \A i \in 0..n-1 : i \in T => i+1 \in T
  PROVE  0..n \subseteq T
<1> DEFINE Bad == (0..n) \ T
<1> SUFFICES ASSUME Bad # {} PROVE FALSE
  OBVIOUS
<1>1. IsWellFoundedOn(Below, Nat)
  BY NatLessThanWellFounded DEF OpToRel, Below
<1>2. Bad \subseteq Nat
  OBVIOUS
<1> HIDE DEF Bad
<1>3. PICK j \in Bad : \A i \in Bad : <<i, j>> \notin Below
  BY <1>1, <1>2, WFMin
<1>4. j \in 1..n /\ j-1 \in 0..n-1 /\ j \notin T
  BY DEF Bad
<1>5. <<j-1, j>> \in Below
  BY <1>4 DEF Below
<1>6. j-1 \in T
  BY <1>3, <1>4, <1>5 DEF Bad
<1> QED
  BY <1>4, <1>6

\* The gates and the tally of a command: what the gates count is what fired, and
\* what they remember is the condition the tally saw last.
InStep(g, s) ==
  LET old == IF g.held THEN [previous |-> g.previous, count |-> g.count] ELSE NewGate IN
    s.fired = old.count /\ s.last = old.previous

\* A tally that obeys the limits of its event.
Earned(c, k, s) ==
  /\ s.fired \in Nat /\ s.rises \in Nat /\ s.fired <= s.rises
  /\ (\E i \in DOMAIN Specs[c] : Specs[c][i].enabled /\ KeyOf(Specs[c][i]) = k)
       => LET limit == FirstSpec(c, k).max_firings IN limit # 0 => s.fired <= limit

\* Types of the gates and of the tallies of a command.
GatesOf(c) ==
  [Key(c) -> [previous : BOOLEAN, count : Nat, held : BOOLEAN]]
TallyOf(c) ==
  [Key(c) -> [fired : Nat, rises : Nat, last : BOOLEAN]]

\* Gates and tallies after some of the specs of a command.
Tallied(c, acc) ==
  /\ acc = [gates |-> acc.gates, tally |-> acc.tally]
  /\ acc.gates \in GatesOf(c) /\ acc.tally \in TallyOf(c)
  /\ \A k \in Key(c) : InStep(acc.gates[k], acc.tally[k]) /\ Earned(c, k, acc.tally[k])

\* An enabled spec has a first spec with its name, and so a limit.
LEMMA FirstSpecLimit ==
  ASSUME NEW c \in Command, NEW i \in DOMAIN Specs[c], Specs[c][i].enabled
  PROVE  FirstSpec(c, KeyOf(Specs[c][i])).max_firings \in Nat
<1> DEFINE k == KeyOf(Specs[c][i])
           Is(j) == Specs[c][j].enabled /\ KeyOf(Specs[c][j]) = k
           T == {j \in DOMAIN Specs[c] : Is(j)}
<1>1. DOMAIN Specs[c] = 1..Len(Specs[c]) /\ Len(Specs[c]) \in Nat
  BY DispatchAssumption
<1>2. T \subseteq Nat /\ T # {}
  BY <1>1
<1>3. IsWellFoundedOn(Below, Nat)
  BY NatLessThanWellFounded DEF OpToRel, Below
<1>4. PICK j \in T : \A l \in T : <<l, j>> \notin Below
  <2> HIDE DEF T
  <2> QED
    BY <1>2, <1>3, WFMin
<1>5. \A l \in 1..j-1 : ~Specs[c][l].enabled \/ KeyOf(Specs[c][l]) # k
  <2> SUFFICES ASSUME NEW l \in 1..j-1, Is(l) PROVE FALSE
    OBVIOUS
  <2>1. l \in DOMAIN Specs[c] /\ l \in Nat /\ j \in Nat /\ l < j
    BY <1>1, <1>4
  <2>2. l \in T
    BY <2>1
  <2> QED
    BY <1>4, <2>1, <2>2 DEF Below
<1>6. \E f \in DOMAIN Specs[c] : FirstSpec(c, k) = Specs[c][f]
  BY <1>4, <1>5 DEF FirstSpec
<1> QED
  BY <1>6, DispatchAssumption DEF ValidForOperation, WellFormed

\* A condition is true or false.
LEMMA ConditionBoolean ==
  ASSUME NEW c \in Command, NEW i \in DOMAIN Specs[c], NEW payload, NEW ok \in BOOLEAN
  PROVE  EvaluateWhen(Specs[c][i], payload, ok) \in BOOLEAN
<1>1. Specs[c][i].op \in Ops
  BY DispatchAssumption DEF ValidForOperation, WellFormed
<1> QED
  BY <1>1 DEF EvaluateWhen, Ops

\* One spec evaluated: the gate fires on a rising edge, while its limit allows.
LEMMA SpecEvaluated ==
  ASSUME NEW c \in Command, NEW i \in DOMAIN Specs[c], NEW acc, Tallied(c, acc),
         NEW source, NEW payload, NEW ok \in BOOLEAN, NEW cooled
  PROVE  Tallied(c, EvaluateSpec(acc, c, Specs[c][i], source, payload, ok, cooled))
<1> DEFINE spec == Specs[c][i]
           after == EvaluateSpec(acc, c, spec, source, payload, ok, cooled)
<1>1. CASE ~spec.enabled \/ spec.source # source
  BY <1>1 DEF EvaluateSpec
<1>2. CASE ~(~spec.enabled \/ spec.source # source)
  <2>1. PICK k : k = KeyOf(spec)
    OBVIOUS
  <2>2. PICK condition : condition = EvaluateWhen(spec, payload, ok)
    OBVIOUS
  <2> DEFINE held == acc.gates[k]
             old == IF held.held THEN [previous |-> held.previous, count |-> held.count]
                    ELSE NewGate
             limit == FirstSpec(c, k).max_firings
             fires == Fires(old, FirstSpec(c, k), condition, k \in cooled)
             seen == acc.tally[k]
             gate2 == [previous |-> condition, count |-> old.count + (IF fires THEN 1 ELSE 0),
                       held |-> TRUE]
             seen2 == [fired |-> seen.fired + ((old.count + (IF fires THEN 1 ELSE 0)) - old.count),
                       rises |-> seen.rises + (IF condition /\ ~seen.last THEN 1 ELSE 0),
                       last |-> condition]
  <2>3. after = [gates |-> [acc.gates EXCEPT ![k] = gate2],
                 tally |-> [acc.tally EXCEPT ![k] = seen2]]
    BY <1>2, <2>1, <2>2 DEF EvaluateSpec, Evaluated
  <2>4. k \in Key(c)
    BY <2>1 DEF Key
  <2>5. condition \in BOOLEAN /\ limit \in Nat
    BY <1>2, <2>1, <2>2, ConditionBoolean, FirstSpecLimit
  <2>6. /\ held \in [previous : BOOLEAN, count : Nat, held : BOOLEAN]
        /\ seen \in [fired : Nat, rises : Nat, last : BOOLEAN]
        /\ InStep(held, seen) /\ Earned(c, k, seen)
    BY <2>4 DEF Tallied, GatesOf, TallyOf
  <2>7. /\ old.previous = seen.last /\ old.count = seen.fired /\ old.count \in Nat
        /\ seen.rises \in Nat /\ seen.fired <= seen.rises /\ seen.last \in BOOLEAN
        /\ limit # 0 => seen.fired <= limit
    BY <1>2, <2>1, <2>6 DEF InStep, Earned
  <2>8. fires => condition /\ ~seen.last /\ (limit = 0 \/ old.count < limit)
    BY <2>7 DEF Fires
  <2>9. fires \in BOOLEAN
    BY DEF Fires
  <2> HIDE DEF fires, limit, old, held
  <2>10. InStep(gate2, seen2)
    BY <2>7, <2>9 DEF InStep
  <2>11. Earned(c, k, seen2)
    BY <2>5, <2>7, <2>8, <2>9 DEF Earned, limit
  <2>12. /\ gate2 \in [previous : BOOLEAN, count : Nat, held : BOOLEAN]
         /\ seen2 \in [fired : Nat, rises : Nat, last : BOOLEAN]
    BY <2>5, <2>7, <2>9
  <2> HIDE DEF gate2, seen2
  <2> QED
    BY <2>3, <2>4, <2>10, <2>11, <2>12 DEF Tallied, GatesOf, TallyOf
<1> QED
  BY <1>1, <1>2

\* All the specs of a command, in order: the recursion has a solution, and every
\* step of it keeps the gates and the tally in step.
LEMMA SpecsEvaluated ==
  ASSUME NEW c \in Command, Tallied(c, [gates |-> gates[c], tally |-> tally[c]]),
         NEW source, NEW payload, NEW ok \in BOOLEAN, NEW cooled
  PROVE  Tallied(c, AfterSpecs(c, source, payload, ok, cooled))
<1> DEFINE N == Len(Specs[c])
           First == [gates |-> gates[c], tally |-> tally[c]]
           Step(acc, i) == EvaluateSpec(acc, c, Specs[c][i], source, payload, ok, cooled)
           Rec(f, n) == [i \in 0..n |-> IF i = 0 THEN First ELSE Step(f[i-1], i)]
<1>1. N \in Nat /\ DOMAIN Specs[c] = 1..N
  BY DispatchAssumption
<1>2. \A acc : \A i \in 1..N : Tallied(c, acc) => Tallied(c, Step(acc, i))
  BY <1>1, SpecEvaluated
<1>3. AfterSpecs(c, source, payload, ok, cooled) = (CHOOSE f : f = Rec(f, N))[N]
  BY DEF AfterSpecs
<1> HIDE DEF N, First, Step
<1>4. \E f : f = Rec(f, N)
  <2> DEFINE T == {n \in 0..N : \E f : f = Rec(f, n)}
  <2>1. 0 \in T
    <3> DEFINE g == [i \in 0..0 |-> First]
    <3>1. g = Rec(g, 0)
      OBVIOUS
    <3> HIDE DEF g
    <3>2. \E f : f = Rec(f, 0)
      BY <3>1
    <3> QED
      BY <1>1, <3>2
  <2>2. ASSUME NEW n \in 0..N-1, n \in T PROVE n+1 \in T
    <3>1. PICK f : f = Rec(f, n)
      BY <2>2
    <3> DEFINE g == [i \in 0..n+1 |-> IF i = n+1 THEN Step(f[n], n+1) ELSE f[i]]
    <3>2. \A i \in 0..n+1 : g[i] = IF i = 0 THEN First ELSE Step(g[i-1], i)
      <4> SUFFICES ASSUME NEW i \in 0..n+1
                   PROVE  g[i] = IF i = 0 THEN First ELSE Step(g[i-1], i)
        OBVIOUS
      <4>1. CASE i = n+1
        BY <1>1, <4>1
      <4>2. CASE i # n+1
        <5>1. i \in 0..n /\ g[i] = f[i] /\ (i # 0 => i-1 \in 0..n /\ g[i-1] = f[i-1])
          BY <1>1, <4>2
        <5>2. f[i] = IF i = 0 THEN First ELSE Step(f[i-1], i)
          BY <3>1, <5>1
        <5> QED
          BY <5>1, <5>2
      <4> QED
        BY <4>1, <4>2
    <3>3. g = Rec(g, n+1)
      <4> HIDE DEF g
      <4>1. g = [i \in 0..n+1 |-> g[i]]
        BY DEF g
      <4> QED
        BY <3>2, <4>1
    <3> HIDE DEF g
    <3>4. \E h : h = Rec(h, n+1)
      BY <3>3
    <3> HIDE DEF Rec
    <3> QED
      BY <1>1, <3>4
  <2> HIDE DEF T
  <2>3. 0..N \subseteq T
    BY <1>1, <2>1, <2>2, Counting
  <2>4. N \in T
    BY <1>1, <2>3
  <2> QED
    BY <2>4 DEF T
<1>5. PICK f : f = Rec(f, N) /\ AfterSpecs(c, source, payload, ok, cooled) = f[N]
  BY <1>3, <1>4
<1>6. \A i \in 0..N : f[i] = IF i = 0 THEN First ELSE Step(f[i-1], i)
  BY <1>5
<1>7. 0..N \subseteq {i \in 0..N : Tallied(c, f[i])}
  <2> DEFINE T == {i \in 0..N : Tallied(c, f[i])}
  <2>1. 0 \in T
    BY <1>1, <1>6 DEF First
  <2>2. ASSUME NEW i \in 0..N-1, i \in T PROVE i+1 \in T
    <3>1. i+1 \in 1..N /\ i+1 \in 0..N /\ i+1 # 0 /\ (i+1)-1 = i
      BY <1>1
    <3>2. f[i+1] = Step(f[i], i+1)
      BY <1>6, <3>1
    <3> QED
      BY <1>2, <2>2, <3>1, <3>2
  <2> HIDE DEF T
  <2>3. 0..N \subseteq T
    BY <1>1, <2>1, <2>2, Counting
  <2> QED
    BY <2>3 DEF T
<1> QED
  BY <1>1, <1>5, <1>7

\* A command whose gates may still be evaluated: no result of it was applied, or its
\* successors are being started before the result is evaluated.
Current(c) == ~Spent(c) \/ \E w \in Worker : Evaluates(w, c)

\* The tally is right for good, and in step with the gate while the gate is kept.
TalliesOK(c) ==
  /\ gates[c] \in GatesOf(c) /\ tally[c] \in TallyOf(c)
  /\ \A k \in Key(c) : Earned(c, k, tally[c][k])
  /\ Current(c) => \A k \in Key(c) : InStep(gates[c][k], tally[c][k])

EventInv ==
  /\ gates = [c \in Command |-> gates[c]] /\ tally = [c \in Command |-> tally[c]]
  /\ \A c \in Command : TalliesOK(c)

\* A command that is given up is not taken up again.
LEMMA CurrentShrinks ==
  ASSUME TypeInv, DispatchInv, [Next]_vars, NEW c \in Command, Current(c)'
  PROVE  Current(c)
<1>1. CASE ~Spent(c)'
  BY <1>1, Grows DEF Current
<1>2. ASSUME NEW w \in Worker, Evaluates(w, c)' PROVE Current(c)
  <2>0. w \in Thread /\ w \notin {Api, Timer} /\ ThreadsOK /\ ThreadOK(w, thread[w])
    BY DispatchAssumption DEF Thread, TypeInv, ThreadsOK
  <2>1. CASE thread'[w] = thread[w]
    BY <1>2, <2>1 DEF Evaluates, Current
  <2>2. CASE Dispatch(w)
    BY <1>2, <2>0, <2>2, DispatchMoves DEF Evaluates, Current
  <2>3. ASSUME Receive(w) PROVE ~Spent(c)
    <3>1. /\ ApplyResult(w)
          /\ FollowEdges(w, Cmd(w), [thread[w] EXCEPT !.back = "evaluate", !.done = Cmd(w)])
      BY <1>2, <2>3, ReceivePlaces DEF Evaluates, Dispatching, Sending
    <3>c. PICK d : d = thread[w].cmd
      OBVIOUS
    <3> DEFINE rec == [thread[w] EXCEPT !.todo = Starts[d] \o @, !.back = "evaluate",
                                        !.done = d]
    <3>2. d \in Command /\ Starts[d] \o thread[w].todo \in Seq(Command) /\ InHand(w, d)
      BY <2>0, <3>1, <3>c, StartedOnce, ConcatProperties
         DEF ApplyResult, At, ThreadOK, ThreadType, InHand
    <3>3. rec \in ThreadType /\ Resume(w, rec) /\ rec.done = d
      BY <2>0, <3>1, <3>c, <3>2 DEF ThreadOK, ThreadType, FollowEdges, Cmd
    <3>4. c = d
      BY <1>2, <2>0, <3>3, Resumed DEF Evaluates
    <3>5. applied[c] = << >> /\ goal[c] # "none"
      BY <3>2, <3>4 DEF DispatchInv, Holders, HolderOK, HandOK
    <3> QED
      BY <3>5 DEF Spent, DispatchInv, Commands, CommandOK
  <2>4. ASSUME NEW v \in Worker, v # w, Receive(v) PROVE thread'[w] = thread[w]
    BY <2>0, <2>4, ReceiveMoves
  <2>5. ASSUME NEW t \in Thread, t # w, Dispatch(t) PROVE thread'[w] = thread[w]
    BY <2>0, <2>5, DispatchMoves
  <2>6. CASE StartStep
    BY <2>0, <2>1, <2>6, StartMoves
  <2>7. CASE OutsideStep
    BY <2>1, <2>7, OutsideKeeps
  <2> QED
    BY <2>0, <2>1, <2>2, <2>3, <2>4, <2>5, <2>6, <2>7, Steps DEF Current
<1> QED
  BY <1>1, <1>2 DEF Current

\* A step that evaluates nothing keeps the tallies right.
LEMMA EventsKept ==
  ASSUME TypeInv, DispatchInv, [Next]_vars, EventInv, events' = events
  PROVE  EventInv'
BY CurrentShrinks DEF EventInv, TalliesOK, events

\* One command is evaluated; for the last time, when its gates are given up.
LEMMA EventsEvaluated ==
  ASSUME TypeInv, DispatchInv, [Next]_vars, EventInv, NEW c \in Command, Current(c),
         NEW source, NEW payload, NEW ok \in BOOLEAN,
         \/ Evaluate(c, source, payload, ok)
         \/ EvaluateAndClear(c, source, payload, ok) /\ ~Current(c)'
  PROVE  EventInv'
<1>1. PICK cooled : LET acc == AfterSpecs(c, source, payload, ok, cooled) IN
        /\ tally' = [tally EXCEPT ![c] = acc.tally]
        /\ \/ gates' = [gates EXCEPT ![c] = acc.gates]
           \/ gates' = [gates EXCEPT ![c] = NoGatesOf(c)] /\ ~Current(c)'
  BY DEF Evaluate, EvaluateAndClear
<1> DEFINE acc == AfterSpecs(c, source, payload, ok, cooled)
<1>2. Tallied(c, [gates |-> gates[c], tally |-> tally[c]])
  BY DEF EventInv, TalliesOK, Tallied
<1>3. Tallied(c, acc)
  BY <1>2, SpecsEvaluated
<1> HIDE DEF acc
<1>4. NoGatesOf(c) \in GatesOf(c)
  BY DEF NoGatesOf, NoGate, GatesOf
<1>5. TalliesOK(c)'
  BY <1>1, <1>3, <1>4 DEF EventInv, TalliesOK, Tallied, acc
<1>6. \A d \in Command : d # c => TalliesOK(d)'
  BY <1>1, CurrentShrinks DEF EventInv, TalliesOK
<1>7. gates' = [d \in Command |-> gates'[d]] /\ tally' = [d \in Command |-> tally'[d]]
  BY <1>1 DEF EventInv
<1> QED
  BY <1>5, <1>6, <1>7 DEF EventInv

\* A gate that is cleared is that of a command given up.
LEMMA EventsCleared ==
  ASSUME TypeInv, DispatchInv, [Next]_vars, EventInv, NEW c \in Command,
         ClearEventGates(c), ~Current(c)'
  PROVE  EventInv'
<1>1. NoGatesOf(c) \in GatesOf(c)
  BY DEF NoGatesOf, NoGate, GatesOf
<1> QED
  BY <1>1, CurrentShrinks DEF ClearEventGates, EventInv, TalliesOK

\* Every step keeps the tallies right.
LEMMA EventsNext ==
  ASSUME TypeInv, DispatchInv, [Next]_vars, EventInv
  PROVE  EventInv'
<1>0. DispatchInv' /\ Worker \subseteq Thread
  BY DispatchInvNext DEF Thread
<1>1. ASSUME NEW t \in Thread, TopicPublished(t) PROVE EventInv'
  <2>c. PICK c : c = thread[t].cmd
    OBVIOUS
  <2>1. c \in Command /\ Adapter[c] = "TOPIC" /\ row[c] # "SUCCEEDED"
    BY <1>1, <2>c DEF TypeInv, ThreadsOK, ThreadOK, DispatchInv, Senders, SendOK, Sending,
       TopicPublished, At
  <2>2. EvaluateAndClear(c, "RESULT", [published |-> 1], TRUE) /\ Current(c)
    BY <1>1, <2>c, <2>1 DEF TopicPublished, Cmd, Current, Spent
  <2>3. Spent(c)'
    BY <1>1, <2>c, <2>1 DEF TopicPublished, Cmd, Spent, TypeInv, RowTypes
  <2>4. \A w \in Worker : ~ Evaluates(w, c)'
    BY <1>0, <2>1 DEF DispatchInv, Holders, HolderOK, Commands, CommandOK
  <2> QED
    BY <2>1, <2>2, <2>3, <2>4, EventsEvaluated DEF Current
<1>2. ASSUME NEW t \in Thread, Dispatch(t), ~TopicPublished(t) PROVE EventInv'
  BY <1>2, EventsKept DEF Dispatch, CreateCommand, Send, RecordSent, MarkDispatched, Refused
<1>3. ASSUME NEW w \in Worker, At(w, "gate")
      PROVE  /\ Cmd(w) \in Command /\ applied[Cmd(w)] = << >> /\ Adapter[Cmd(w)] # "TOPIC"
             /\ Current(Cmd(w))
             /\ \A v \in Worker : ~ Evaluates(v, Cmd(w))
  <2>1. Cmd(w) \in Command /\ InHand(w, Cmd(w)) /\ w \in Thread
    BY <1>0, <1>3 DEF TypeInv, ThreadsOK, ThreadOK, At, InHand, Cmd
  <2>2. applied[Cmd(w)] = << >> /\ goal[Cmd(w)] # "none"
    BY <2>1 DEF DispatchInv, Holders, HolderOK, HandOK
  <2> QED
    BY <2>1, <2>2 DEF DispatchInv, Holders, HolderOK, Commands, CommandOK, Current, Spent
<1>4. ASSUME NEW w \in Worker, ApplyFeedback(w) PROVE EventInv'
  <2>1. At(w, "gate")
        /\ \/ Evaluate(Cmd(w), "FEEDBACK", Payload(thread[w].msg), TRUE)
           \/ UNCHANGED events
    BY <1>4 DEF ApplyFeedback
  <2> QED
    BY <1>3, <2>1, EventsEvaluated, EventsKept
<1>5. ASSUME NEW w \in Worker, ApplyResult(w) PROVE EventInv'
  <2>c. PICK c : c = Cmd(w)
    OBVIOUS
  <2>1. /\ c \in Command /\ applied[c] = << >> /\ Adapter[c] # "TOPIC" /\ Current(c)
        /\ \A v \in Worker : ~ Evaluates(v, c)
    BY <1>3, <1>5, <2>c DEF ApplyResult
  <2>2. \/ UNCHANGED events
        \/ /\ Go(w, "calls")
           /\ \/ EvaluateAndClear(c, "RESULT", Payload(thread[w].msg), FALSE)
              \/ ClearEventGates(c)
    BY <1>5, <2>c DEF ApplyResult
  <2>3. Spent(c)'
    <3>1. applied' = [applied EXCEPT ![c] = Append(@, thread[w].msg.outcome)]
      BY <1>5, <2>c DEF ApplyResult
    <3>2. Append(applied[c], thread[w].msg.outcome) # << >>
      BY <2>1
    <3> QED
      BY <2>1, <3>1, <3>2 DEF Spent, TypeInv, HandlerTypes
  <2>4. ASSUME Go(w, "calls") PROVE ~Current(c)'
    <3>1. thread'[w].pc = "calls" /\ \A v \in Worker : v # w => thread'[v] = thread[v]
      BY <1>0, <2>4, Others DEF Go, TypeInv, ThreadsOK, ThreadOK, ThreadType
    <3> QED
      BY <2>1, <2>3, <3>1 DEF Current, Evaluates, Dispatching, Sending
  <2> QED
    BY <2>1, <2>2, <2>4, EventsKept, EventsEvaluated, EventsCleared
<1>6. ASSUME NEW w \in Worker, EvaluateResult(w) PROVE EventInv'
  <2>c. PICK c : c = thread[w].done
    OBVIOUS
  <2>1. /\ w \in Thread /\ c \in Command /\ Evaluates(w, c) /\ Go(w, "calls")
        /\ EvaluateAndClear(c, "RESULT", Payload(thread[w].msg), TRUE)
        /\ thread[w].pc # "idle"
    BY <1>0, <1>6, <2>c DEF EvaluateResult, At, TypeInv, ThreadsOK, ThreadOK, Evaluates
  <2>2. ServerOf[c] = thread[w].msg.server /\ applied[c] # << >> /\ Adapter[c] # "TOPIC"
    BY <2>1 DEF DispatchInv, Holders, HolderOK, Commands, CommandOK
  <2>3. Spent(c)'
    BY <2>1, <2>2, Grows DEF Spent
  <2>4. thread'[w].pc = "calls" /\ \A v \in Worker : v # w => thread'[v] = thread[v]
    BY <1>0, <2>1, Others DEF Go, TypeInv, ThreadsOK, ThreadOK, ThreadType
  <2>5. ASSUME NEW v \in Worker, v # w, Evaluates(v, c) PROVE FALSE
    <3>1. ServerOf[c] = thread[v].msg.server /\ thread[v].pc # "idle"
      BY <2>1, <2>5 DEF DispatchInv, Holders, HolderOK, Evaluates, Dispatching, Sending
    <3> QED
      BY <2>1, <2>2, <2>5, <3>1, OneWorker
  <2>6. ~Current(c)'
    BY <2>3, <2>4, <2>5 DEF Current, Evaluates, Dispatching, Sending
  <2> QED
    BY <2>1, <2>6, EventsEvaluated DEF Current
<1>7. ASSUME NEW w \in Worker, Receive(w), ~ApplyFeedback(w), ~ApplyResult(w),
             ~EvaluateResult(w)
      PROVE  EventInv'
  BY <1>7, EventsKept DEF Receive, HandlePublished, HandleResponse, HandleIncoming,
     CallHandler, EndMessage
<1>8. CASE StartStep
  BY <1>8, EventsKept DEF StartStep, StartRun, DelayOver, LeaveDelay, BeginCancel,
     CancelNavigation, EndCancel
<1>9. CASE OutsideStep
  BY <1>9, OutsideKeeps, EventsKept
<1> QED
  BY <1>1, <1>2, <1>4, <1>5, <1>6, <1>7, <1>8, <1>9, Steps

\* No tally has begun at first.
LEMMA EventsInit == Init => EventInv
<1> SUFFICES ASSUME Init, NEW c \in Command PROVE TalliesOK(c)
  BY DEF Init, EventInv
<1>1. /\ gates[c] = [k \in Key(c) |-> NoGate]
      /\ tally[c] = [k \in Key(c) |-> [fired |-> 0, rises |-> 0, last |-> FALSE]]
  BY DEF Init, NoGatesOf
<1>2. gates[c] \in GatesOf(c) /\ tally[c] \in TallyOf(c)
  BY <1>1 DEF GatesOf, TallyOf, NoGate
<1>3. \A k \in Key(c) : InStep(gates[c][k], tally[c][k])
  <2> SUFFICES ASSUME NEW k \in Key(c) PROVE InStep(gates[c][k], tally[c][k])
    OBVIOUS
  <2>1. /\ gates[c][k] = [previous |-> FALSE, count |-> 0, held |-> FALSE]
        /\ tally[c][k] = [fired |-> 0, rises |-> 0, last |-> FALSE]
    BY <1>1 DEF NoGate
  <2>2. ~gates[c][k].held /\ tally[c][k].fired = 0 /\ tally[c][k].last = FALSE
    BY <2>1
  <2> QED
    BY <2>2 DEF InStep, NewGate
<1>4. ASSUME NEW k \in Key(c) PROVE Earned(c, k, tally[c][k])
  <2>1. ASSUME NEW i \in DOMAIN Specs[c], Specs[c][i].enabled, KeyOf(Specs[c][i]) = k
        PROVE  0 <= FirstSpec(c, k).max_firings
    BY <2>1, FirstSpecLimit
  <2> QED
    BY <1>1, <2>1 DEF Earned
<1> QED
  BY <1>2, <1>3, <1>4 DEF TalliesOK

\* For any specs of any command, several of one name included, an event fires no more
\* often than its condition rose and than its limit allows, for all messages that come,
\* also after the result (evaluateAndEmitEventSpecs and FeedbackTriggerGate).
THEOREM FiringsEarnedHolds == Spec => []FiringsEarned
<1> DEFINE Inv == TypeInv /\ DispatchInv /\ EventInv
<1>1. Init => Inv
  BY InitTyped, DispatchInvInit, EventsInit
<1>2. Inv /\ [Next]_vars => Inv'
  BY Typing, DispatchInvNext, EventsNext
<1>3. Inv => FiringsEarned
  <2> SUFFICES ASSUME EventInv, NEW c \in Command, NEW i \in DOMAIN Specs[c],
                      Specs[c][i].enabled
               PROVE  LET k == KeyOf(Specs[c][i])
                          limit == FirstSpec(c, k).max_firings
                      IN  /\ tally[c][k].fired <= tally[c][k].rises
                          /\ limit # 0 => tally[c][k].fired <= limit
    BY DEF FiringsEarned
  <2>1. KeyOf(Specs[c][i]) \in Key(c)
    BY DEF Key
  <2> QED
    BY <2>1 DEF EventInv, TalliesOK, Earned
<1> QED
  BY <1>1, <1>2, <1>3, PTL DEF Spec

-----------------------------------------------------------------------------
\* The callback gate is held from a success to the end of what it starts, and from
\* the end of a DELAY; the API thread dispatches without it, and never a node that
\* is to be started under it.
GateHeld ==
  \A t \in Worker \cup {Timer} :
    thread[t].pc \in Dispatching \cup {"leave", "evaluate"} => gate = t

\* The thread of the HTTP request starts no node that is to be started under the gate.
ApiOutside ==
  \A c \in UnderGate : c \notin ToSet(thread[Api].todo) /\ ~Sends(Api, c)

\* A navigation goal has an outbox row as soon as it has a command; while its node is
\* being dispatched under the gate the node is not completed; afterwards the row tells
\* how it went.
OutboxOK(c) ==
  Adapter[c] = "NAVIGATION" =>
    /\ row[c] # "none" => outbox[c] # "none"
    /\ c \in UnderGate /\ node[c] \in {"SUCCEEDED", "FAILED"} =>
         outbox[c] \in {"ACKNOWLEDGED", "FAILED"}
    /\ c \in UnderGate => \A t \in Thread : Sends(t, c) => node[c] \in {"RUNNING", "CANCELLED"}

Outboxes == \A c \in Command : OutboxOK(c)

\* The thread that holds the gate, or nobody, is the only one that may.
LEMMA GateHeldNext ==
  ASSUME TypeInv, DispatchInv, [Next]_vars, GateHeld
  PROVE  GateHeld'
<1> /\ Api \in Thread /\ Timer \in Thread /\ Api # Timer
    /\ Api \notin Worker /\ Timer \notin Worker /\ Worker \subseteq Thread
    /\ Nobody \notin Thread
  BY DispatchAssumption DEF Thread, Api, Timer
<1>0. ThreadsOK /\ \A t \in Thread : ThreadOK(t, thread[t])
  BY DEF TypeInv, ThreadsOK
<1>1. ASSUME NEW t \in Thread, Dispatch(t) PROVE GateHeld'
  <2>1. gate' = gate
    BY <1>1 DEF Dispatch, CreateCommand, Send, RecordSent, MarkDispatched, Refused,
       TopicPublished, locks
  <2> QED
    BY <1>1, <2>1, DispatchMoves DEF GateHeld, Home
<1>2. ASSUME NEW w \in Worker, Receive(w) PROVE GateHeld'
  <2>1. \A t \in Thread : t # w => thread'[t] = thread[t]
    BY <1>2, ReceiveMoves
  <2>2. CASE thread'[w].pc \in {"idle", "calls", "gate"} /\ gate' = gate
    BY <2>1, <2>2 DEF GateHeld, Dispatching, Sending
  <2>3. CASE gate' = w /\ gate \in {Nobody, w}
    BY <2>1, <2>3 DEF GateHeld
  <2>4. CASE EvaluateResult(w)
    <3>1. gate = w /\ thread'[w].pc \in {"idle", "calls", "gate"}
      BY <1>2, <2>4, ReceivePlaces DEF EvaluateResult, At, GateHeld, ApplyResult
    <3> QED
      BY <2>1, <3>1 DEF GateHeld, Dispatching, Sending
  <2>5. ASSUME ApplyResult(w), ~(gate' = w /\ gate \in {Nobody, w})
        PROVE  thread'[w].pc \in {"idle", "calls", "gate"} /\ gate' = gate
    <3>1. Go(w, "calls") /\ gate' = gate
      BY <2>5 DEF ApplyResult, GateFree
    <3>2. thread'[w] = [thread[w] EXCEPT !.pc = "calls"]
      BY <1>0, <3>1, Others DEF Go
    <3> QED
      BY <1>0, <3>1, <3>2 DEF ThreadOK, ThreadType
  <2>6. ASSUME ~ApplyResult(w), ~EvaluateResult(w)
        PROVE  thread'[w].pc \in {"idle", "calls", "gate"} /\ gate' = gate
    BY <1>2, <2>6, ReceivePlaces DEF Receive, HandlePublished, HandleResponse,
       HandleIncoming, CallHandler, EndMessage, ApplyFeedback, locks
  <2> QED
    BY <2>2, <2>3, <2>4, <2>5, <2>6
<1>3. ASSUME StartStep, gate' = gate,
             \A t \in Worker \cup {Timer} : thread'[t] = thread[t]
      PROVE  GateHeld'
  BY <1>3 DEF GateHeld
<1>4. CASE StartRun \/ BeginCancel \/ CancelNavigation \/ EndCancel
  <2>1. gate' = gate
    BY <1>4 DEF StartRun, BeginCancel, CancelNavigation, EndCancel, locks
  <2>2. \E rec : Move(Api, rec)
    BY <1>4 DEF StartRun, Resume, BeginCancel, CancelNavigation, EndCancel
  <2> QED
    BY <1>0, <1>3, <1>4, <2>1, <2>2, Others DEF StartStep
<1>5. CASE DelayOver /\ run = "RUNNING"
  <2>1. gate' = Timer /\ gate \in {Nobody, Timer}
        /\ Resume(Timer, [Rested EXCEPT !.todo = Delayed, !.back = "leave"])
    BY <1>5 DEF DelayOver, GateFree
  <2>2. \A t \in Thread : t # Timer => thread'[t] = thread[t]
    BY <1>0, <2>1, Others DEF Resume
  <2> QED
    BY <2>1, <2>2 DEF GateHeld
<1>6. CASE LeaveDelay \/ (DelayOver /\ run # "RUNNING")
  <2>1. Move(Timer, [thread[Timer] EXCEPT !.pc = "over"])
    BY <1>6 DEF LeaveDelay, DelayOver, Go
  <2>2. thread'[Timer].pc = "over" /\ \A t \in Thread : t # Timer => thread'[t] = thread[t]
    BY <1>0, <2>1, Others DEF ThreadOK, ThreadType
  <2>3. gate' = gate \/ gate = Timer
    BY <1>6 DEF LeaveDelay, DelayOver, At, GateHeld
  <2> QED
    BY <2>2, <2>3 DEF GateHeld, Dispatching, Sending
<1>7. CASE OutsideStep
  BY <1>7, OutsideKeeps DEF GateHeld, locks
<1> QED
  BY <1>1, <1>2, <1>4, <1>5, <1>6, <1>7, Steps DEF StartStep

\* Every step keeps the HTTP thread out.
LEMMA ApiOutsideNext ==
  ASSUME TypeInv, DispatchInv, [Next]_vars, ApiOutside
  PROVE  ApiOutside'
<1> /\ Api \in Thread /\ Timer \in Thread /\ Api # Timer
    /\ Api \notin Worker /\ Timer \notin Worker
  BY DispatchAssumption DEF Thread, Api, Timer
<1>0. ThreadsOK /\ ThreadOK(Api, thread[Api]) /\ SendOK(Api)
  BY DEF TypeInv, ThreadsOK, DispatchInv, Senders
<1>1. CASE thread'[Api] = thread[Api]
  BY <1>1 DEF ApiOutside, Sends
<1>2. CASE Dispatch(Api)
  <2>1. CASE CreateCommand(Api)
    <3> DEFINE s == thread[Api].todo
               rec == [thread[Api] EXCEPT !.todo = Tail(@), !.cmd = Head(s),
                         !.pc = IF link[RobotFor(Head(s))] THEN "send" ELSE "refused"]
    <3>1. Move(Api, rec)
      BY <1>0, <2>1 DEF CreateCommand, ThreadOK, ThreadType, Move
    <3>2. rec.todo = Tail(s) /\ rec.cmd = Head(s)
      BY <1>0 DEF ThreadOK, ThreadType
    <3>3. thread'[Api].todo = Tail(s) /\ thread'[Api].cmd = Head(s)
      BY <1>0, <3>1, <3>2, Others
    <3>4. ToSet(Tail(s)) \subseteq ToSet(s) /\ Head(s) \in ToSet(s)
      BY <1>0, <2>1, Shortened DEF CreateCommand, At, ThreadOK, ThreadType
    <3> QED
      BY <3>3, <3>4 DEF ApiOutside, Sends
  <2>2. CASE TopicPublished(Api)
    <3>c. PICK c : c = thread[Api].cmd
      OBVIOUS
    <3> DEFINE rec == [thread[Api] EXCEPT !.todo = Starts[c] \o @]
    <3>1. c \in Command /\ Starts[c] \in Seq(Command) /\ Adapter[c] = "TOPIC"
          /\ thread[Api].pc = "published" /\ thread[Api].todo \in Seq(Command)
      BY <1>0, <2>2, <3>c, StartedOnce
         DEF TopicPublished, At, ThreadOK, ThreadType, SendOK, Sending
    <3>2. rec \in ThreadType /\ rec.todo = Starts[c] \o thread[Api].todo
          /\ rec.back = "idle" /\ Resume(Api, rec)
      BY <1>0, <2>2, <3>c, <3>1, ConcatProperties
         DEF ThreadOK, ThreadType, TopicPublished, FollowEdges, Cmd, Home, Dispatching, Sending
    <3>3. thread'[Api].todo = Starts[c] \o thread[Api].todo
          /\ thread'[Api].pc \in {"idle", "dispatch"}
      BY <1>0, <3>2, Resumed
    <3>4. ToSet(thread'[Api].todo) = ToSet(Starts[c]) \cup ToSet(thread[Api].todo)
      BY <3>1, <3>3, Joined
    <3>5. \A d \in ToSet(Starts[c]) : d \notin UnderGate
      BY <3>1, StartedOnce DEF UnderGate
    <3> QED
      BY <3>3, <3>4, <3>5 DEF ApiOutside, Sends, Sending
  <2>3. CASE Send(Api) \/ RecordSent(Api) \/ MarkDispatched(Api) \/ Refused(Api)
    <3>1. (\E pc : Go(Api, pc)) \/ Resume(Api, thread[Api])
      BY <2>3 DEF Send, RecordSent, MarkDispatched, Refused
    <3>2. ASSUME NEW pc, Go(Api, pc)
          PROVE  thread'[Api].todo = thread[Api].todo /\ thread'[Api].cmd = thread[Api].cmd
      <4>1. thread'[Api] = [thread[Api] EXCEPT !.pc = pc]
        BY <1>0, <3>2, Others DEF Go
      <4> QED
        BY <1>0, <4>1 DEF ThreadOK, ThreadType
    <3>3. thread'[Api].todo = thread[Api].todo /\ thread'[Api].cmd = thread[Api].cmd
      BY <1>0, <3>1, <3>2, Resumed DEF ThreadOK
    <3>4. thread[Api].pc \in Sending
      BY <2>3 DEF Send, RecordSent, MarkDispatched, Refused, At, Sending
    <3> QED
      BY <3>3, <3>4 DEF ApiOutside, Sends
  <2> QED
    BY <1>2, <2>1, <2>2, <2>3 DEF Dispatch
<1>3. ASSUME NEW t \in Thread, t # Api, Dispatch(t) PROVE thread'[Api] = thread[Api]
  BY <1>3, DispatchMoves
<1>4. ASSUME NEW w \in Worker, Receive(w) PROVE thread'[Api] = thread[Api]
  BY <1>4, ReceiveMoves
<1>5. CASE StartRun
  <2> DEFINE rec == [Rested EXCEPT !.todo = Initial]
  <2>1. rec \in ThreadType /\ rec.todo = Initial /\ rec.back = "idle" /\ Resume(Api, rec)
    BY <1>5, RestedType, StartedOnce DEF StartRun, ThreadType, Rested
  <2>2. thread'[Api].todo = Initial /\ thread'[Api].pc \in {"idle", "dispatch"}
    BY <1>0, <2>1, Resumed
  <2>3. \A c \in ToSet(Initial) : c \notin UnderGate
    BY StartedOnce DEF UnderGate
  <2> QED
    BY <2>2, <2>3 DEF ApiOutside, Sends, Sending
<1>6. CASE BeginCancel \/ CancelNavigation \/ EndCancel
  <2>1. thread'[Api].pc \in {"idle", "cancel"}
    <3>1. CASE BeginCancel
      <4> DEFINE rec == [Rested EXCEPT !.pc = "cancel", !.calls = OpenNavigation,
                                       !.open = OpenNodes]
      <4>1. Move(Api, rec) /\ rec.pc = "cancel"
        BY <3>1 DEF BeginCancel, Rested
      <4> QED
        BY <1>0, <4>1, Others
    <3>2. CASE CancelNavigation
      <4>1. PICK c : Move(Api, [thread[Api] EXCEPT !.calls = @ \ {c}])
        BY <3>2 DEF CancelNavigation
      <4>2. thread'[Api] = [thread[Api] EXCEPT !.calls = @ \ {c}]
        BY <1>0, <4>1, Others
      <4> QED
        BY <1>0, <3>2, <4>2 DEF CancelNavigation, At, ThreadOK, ThreadType
    <3>3. CASE EndCancel
      BY <1>0, <3>3, Others DEF EndCancel, Rested
    <3> QED
      BY <1>6, <3>1, <3>2, <3>3
  <2>2. ThreadOK(Api, thread[Api])'
    BY Typing DEF TypeInv, ThreadsOK
  <2>3. thread'[Api].todo = << >> /\ ToSet(<< >>) = {}
    BY <2>1, <2>2 DEF ThreadOK, Dispatching, Sending, ToSet
  <2> QED
    BY <2>1, <2>3 DEF ApiOutside, Sends, Sending
<1>8. ASSUME DelayOver \/ LeaveDelay PROVE thread'[Api] = thread[Api]
  <2>1. \E rec : Move(Timer, rec)
    BY <1>8 DEF DelayOver, LeaveDelay, Go, Resume
  <2> QED
    BY <1>0, <2>1, Others
<1>7. CASE OutsideStep
  BY <1>1, <1>7, OutsideKeeps
<1> QED
  BY <1>1, <1>2, <1>3, <1>4, <1>5, <1>6, <1>7, <1>8, Steps DEF StartStep

\* A thread only comes to dispatch a command by creating it.
LEMMA SendersMove ==
  ASSUME TypeInv, DispatchInv, [Next]_vars, NEW t \in Thread, NEW c \in Command,
         Sends(t, c)', ~CreateCommand(t)
  PROVE  Sends(t, c)
<1>0. ThreadsOK /\ ThreadOK(t, thread[t]) /\ SendOK(t)
  BY DEF TypeInv, ThreadsOK, DispatchInv, Senders
<1>1. CASE Dispatch(t)
  <2>1. ASSUME NEW pc, Go(t, pc) PROVE thread'[t].cmd = thread[t].cmd
    <3>1. thread'[t] = [thread[t] EXCEPT !.pc = pc]
      BY <1>0, <2>1, Others DEF Go
    <3> QED
      BY <1>0, <3>1 DEF ThreadOK, ThreadType
  <2>2. CASE Send(t) \/ RecordSent(t) \/ MarkDispatched(t) \/ Refused(t)
    <3>1. (\E pc : Go(t, pc)) \/ Resume(t, thread[t])
      BY <2>2 DEF Send, RecordSent, MarkDispatched, Refused
    <3>2. thread'[t].cmd = thread[t].cmd
      BY <1>0, <2>1, <3>1, Resumed DEF ThreadOK
    <3> QED
      BY <2>2, <3>2 DEF Send, RecordSent, MarkDispatched, Refused, At, Sends, Sending
  <2>3. CASE TopicPublished(t)
    <3>d. PICK d : d = thread[t].cmd
      OBVIOUS
    <3> DEFINE rec == [thread[t] EXCEPT !.todo = Starts[d] \o @]
    <3>1. d \in Command /\ Starts[d] \o thread[t].todo \in Seq(Command)
      BY <1>0, <2>3, <3>d, StartedOnce, ConcatProperties
         DEF TopicPublished, At, ThreadOK, ThreadType, Sending
    <3>2. rec \in ThreadType /\ rec.back = thread[t].back /\ Resume(t, rec)
      BY <1>0, <2>3, <3>d, <3>1 DEF ThreadOK, ThreadType, TopicPublished, FollowEdges, Cmd
    <3>3. thread'[t].pc \notin Sending
      BY <1>0, <2>3, <3>2, Resumed
         DEF ThreadOK, TopicPublished, At, Dispatching, Sending, Home
    <3> QED
      BY <3>3 DEF Sends
  <2> QED
    BY <1>1, <2>2, <2>3 DEF Dispatch
<1>2. CASE thread'[t] = thread[t]
  BY <1>2 DEF Sends
<1>3. ASSUME NEW u \in Thread, u # t, Dispatch(u) PROVE thread'[t] = thread[t]
  BY <1>3, DispatchMoves
<1>4. ASSUME NEW w \in Worker, Receive(w) PROVE Sends(t, c)
  <2>1. CASE t # w
    BY <1>2, <1>4, <2>1, ReceiveMoves
  <2>2. CASE t = w
    <3>1. /\ ApplyResult(w)
          /\ FollowEdges(w, Cmd(w), [thread[w] EXCEPT !.back = "evaluate", !.done = Cmd(w)])
      BY <1>4, <2>2, ReceivePlaces DEF Sends, Sending
    <3>d. PICK d : d = thread[w].cmd
      OBVIOUS
    <3> DEFINE rec == [thread[w] EXCEPT !.todo = Starts[d] \o @, !.back = "evaluate",
                                        !.done = d]
    <3>2. d \in Command /\ Starts[d] \o thread[w].todo \in Seq(Command)
      BY <1>0, <2>2, <3>1, <3>d, StartedOnce, ConcatProperties
         DEF ApplyResult, At, ThreadOK, ThreadType
    <3>3. rec \in ThreadType /\ Resume(w, rec) /\ rec.back = "evaluate"
      BY <1>0, <2>2, <3>1, <3>d, <3>2 DEF ThreadOK, ThreadType, FollowEdges, Cmd
    <3>4. thread'[t].pc \notin Sending
      BY <1>0, <2>2, <3>3, Resumed DEF Sending
    <3> QED
      BY <3>4 DEF Sends
  <2> QED
    BY <2>1, <2>2
<1>5. CASE StartStep
  BY <1>2, <1>5, StartMoves DEF Sends
<1>6. CASE OutsideStep
  BY <1>2, <1>6, OutsideKeeps
<1> QED
  BY <1>1, <1>2, <1>3, <1>4, <1>5, <1>6, Steps

\* A step that writes none of the rows of a command.
LEMMA OutboxKept ==
  ASSUME TypeInv, DispatchInv, [Next]_vars, Outboxes, NEW c \in Command,
         row'[c] # "none" => row[c] # "none",
         outbox'[c] = outbox[c], node'[c] \in {node[c], "CANCELLED"},
         \A t \in Thread : Sends(t, c)' => Sends(t, c)
  PROVE  OutboxOK(c)'
BY DEF Outboxes, OutboxOK

\* Every step keeps the outbox rows right.
LEMMA OutboxesNext ==
  ASSUME TypeInv, DispatchInv, [Next]_vars, GateHeld, ApiOutside, Outboxes
  PROVE  Outboxes'
<1>0. ThreadsOK /\ Worker \subseteq Thread
  BY DEF TypeInv, Thread
<1> SUFFICES ASSUME NEW c \in Command PROVE OutboxOK(c)'
  BY DEF Outboxes
<1>1. ASSUME NEW t \in Thread, CreateCommand(t) PROVE OutboxOK(c)'
  <2>d. PICK d : d = Head(thread[t].todo)
    OBVIOUS
  <2> DEFINE rec == [thread[t] EXCEPT !.todo = Tail(@), !.cmd = d,
                                      !.pc = IF link[RobotFor(d)] THEN "send" ELSE "refused"]
  <2>0. ThreadOK(t, thread[t])
    BY DEF TypeInv, ThreadsOK
  <2>1. d \in Command
    BY <1>1, <2>0, <2>d, HeadTailProperties DEF CreateCommand, At, ThreadOK, ThreadType
  <2>2. /\ row' = [row EXCEPT ![d] = "CREATED"] /\ node' = [node EXCEPT ![d] = "RUNNING"]
        /\ outbox' = [outbox EXCEPT ![d] = IF Adapter[d] = "NAVIGATION" THEN "PENDING" ELSE @]
        /\ Move(t, rec)
    BY <1>1, <2>0, <2>d DEF CreateCommand, ThreadOK, ThreadType, Move
  <2>3. rec.cmd = d
    BY <2>0 DEF ThreadOK, ThreadType
  <2>4. thread'[t].cmd = d /\ \A u \in Thread : u # t => thread'[u] = thread[u]
    BY <1>0, <2>2, <2>3, Others
  <2>5. CASE c = d
    BY <2>1, <2>2, <2>5 DEF OutboxOK, TypeInv, RowTypes
  <2>6. CASE c # d
    <3>1. \A u \in Thread : Sends(u, c)' => Sends(u, c)
      BY <2>4, <2>6 DEF Sends
    <3> QED
      BY <2>1, <2>2, <2>6, <3>1, OutboxKept DEF TypeInv, RowTypes
  <2> QED
    BY <2>5, <2>6
<1>2. CASE \A t \in Thread : ~CreateCommand(t)
  <2>0. \A t \in Thread : Sends(t, c)' => Sends(t, c)
    BY <1>2, SendersMove
  <2>a. ASSUME NEW t \in Thread, thread[t].pc \in Sending
        PROVE  /\ Cmd(t) \in Command /\ row[Cmd(t)] # "none" /\ Sends(t, Cmd(t)) /\ SendOK(t)
               /\ Adapter[Cmd(t)] = "NAVIGATION" => outbox[Cmd(t)] # "none"
    BY <2>a DEF TypeInv, ThreadsOK, ThreadOK, DispatchInv, Senders, SendOK, Cmd, Sends,
       Outboxes, OutboxOK
  <2>1. ASSUME NEW t \in Thread, RecordSent(t) PROVE OutboxOK(c)'
    <3>1. /\ outbox' = [outbox EXCEPT ![Cmd(t)] = "SENT"] /\ UNCHANGED <<row, node>>
          /\ thread[t].pc \in Sending
      BY <2>1 DEF RecordSent, At, Sending
    <3>2. CASE c # Cmd(t)
      BY <2>0, <2>a, <3>1, <3>2, OutboxKept DEF TypeInv, RowTypes
    <3>3. CASE c = Cmd(t)
      <4>1. outbox'[c] = "SENT"
        BY <3>1, <3>3 DEF TypeInv, RowTypes
      <4>2. Adapter[c] = "NAVIGATION" /\ c \in UnderGate => node[c] \in {"RUNNING", "CANCELLED"}
        BY <2>a, <3>1, <3>3 DEF Outboxes, OutboxOK
      <4> QED
        BY <3>1, <4>1, <4>2 DEF OutboxOK
    <3> QED
      BY <3>2, <3>3
  <2>2. ASSUME NEW t \in Thread, Refused(t) PROVE OutboxOK(c)'
    <3>1. /\ outbox' = [outbox EXCEPT ![Cmd(t)] = IF @ = "none" THEN @ ELSE "FAILED"]
          /\ row' = [row EXCEPT ![Cmd(t)] = "FAILED"]
          /\ node' = [node EXCEPT ![Cmd(t)] = "FAILED"]
          /\ thread[t].pc \in Sending /\ Resume(t, thread[t])
      BY <2>2 DEF Refused, At, Sending
    <3>2. CASE c # Cmd(t)
      BY <2>0, <2>a, <3>1, <3>2, OutboxKept DEF TypeInv, RowTypes
    <3>3. CASE c = Cmd(t)
      <4>1. Adapter[c] = "NAVIGATION" => outbox'[c] = "FAILED"
        BY <2>a, <3>1, <3>3 DEF TypeInv, RowTypes
      <4>2. \A u \in Thread : ~Sends(u, c)'
        <5>1. \A u \in Thread : u # t => ~Sends(u, c)
          BY <2>a, <3>1, <3>3 DEF DispatchInv, SendersApart
        <5>2. thread'[t].pc \notin Sending
          <6>1. ThreadOK(t, thread[t])
            BY <1>0 DEF ThreadsOK
          <6> QED
            BY <1>0, <3>1, <6>1, Resumed DEF ThreadOK, Dispatching, Sending, Home
        <5> QED
          BY <2>0, <5>1, <5>2 DEF Sends
      <4> QED
        BY <4>1, <4>2 DEF OutboxOK
    <3> QED
      BY <3>2, <3>3
  <2>3. ASSUME NEW t \in Thread, Send(t) \/ MarkDispatched(t) PROVE OutboxOK(c)'
    <3>1. UNCHANGED <<node, outbox>> /\ (row'[c] # "none" => row[c] # "none")
      BY <2>3, <2>a DEF Send, MarkDispatched, rows, At, Sending, TypeInv, RowTypes
    <3> QED
      BY <2>0, <3>1, OutboxKept
  <2>4. ASSUME NEW t \in Thread, TopicPublished(t) PROVE OutboxOK(c)'
    <3>1. /\ Adapter[Cmd(t)] = "TOPIC" /\ outbox' = outbox
          /\ row' = [row EXCEPT ![Cmd(t)] = "SUCCEEDED"]
          /\ node' = [node EXCEPT ![Cmd(t)] = "SUCCEEDED"]
      BY <2>4, <2>a DEF TopicPublished, At, Sending, SendOK, Cmd
    <3>2. CASE c = Cmd(t)
      BY <3>1, <3>2 DEF OutboxOK
    <3>3. CASE c # Cmd(t)
      BY <2>0, <3>1, <3>3, OutboxKept DEF TypeInv, RowTypes
    <3> QED
      BY <3>2, <3>3
  <2>5. ASSUME NEW w \in Worker, ApplyResult(w) PROVE OutboxOK(c)'
    <3>1. /\ thread[w].pc = "gate" /\ gate \in {Nobody, w}
      BY <2>5 DEF ApplyResult, At, GateFree
    <3>2. Cmd(w) \in Command /\ row[Cmd(w)] # "none"
      <4>1. Cmd(w) \in Command /\ InHand(w, Cmd(w))
        BY <1>0, <3>1 DEF ThreadsOK, ThreadOK, InHand, Cmd
      <4> QED
        BY <4>1 DEF DispatchInv, Holders, HolderOK, HandOK, Commands, CommandOK
    <3>3. \A u \in Thread : Cmd(w) \in UnderGate => ~Sends(u, Cmd(w))
      <4> SUFFICES ASSUME NEW u \in Thread, Cmd(w) \in UnderGate, Sends(u, Cmd(w)) PROVE FALSE
        OBVIOUS
      <4>1. u # Api
        BY DEF ApiOutside
      <4>2. u \in Worker \cup {Timer} /\ thread[u].pc \in Sending
        BY <4>1 DEF Thread, Sends
      <4>3. gate = u
        BY <4>2 DEF GateHeld, Dispatching
      <4>4. u # Nobody
        BY DispatchAssumption
      <4> QED
        BY <3>1, <4>2, <4>3, <4>4 DEF Sending
    <3>4. CASE run = "RUNNING" /\ node[Cmd(w)] = "RUNNING"
      <4>1. PICK ok : ok = (thread[w].msg.outcome = "SUCCEEDED")
        OBVIOUS
      <4>2. /\ node' = [node EXCEPT ![Cmd(w)] = Verdict(ok)]
            /\ row' = [row EXCEPT ![Cmd(w)] = Verdict(ok)]
            /\ outbox' = [outbox EXCEPT ![Cmd(w)] = IF @ = "none" THEN @
                            ELSE IF ok THEN "ACKNOWLEDGED" ELSE "FAILED"]
        BY <2>5, <3>4, <4>1 DEF ApplyResult
      <4>3. CASE c # Cmd(w)
        BY <2>0, <3>2, <4>2, <4>3, OutboxKept DEF TypeInv, RowTypes
      <4>4. CASE c = Cmd(w)
        <5>1. Adapter[c] = "NAVIGATION" => outbox[c] # "none"
          BY <3>2, <4>4 DEF Outboxes, OutboxOK
        <5>2. Adapter[c] = "NAVIGATION" => outbox'[c] \in {"ACKNOWLEDGED", "FAILED"}
          BY <3>2, <4>2, <4>4, <5>1 DEF TypeInv, RowTypes
        <5>3. c \in UnderGate => \A u \in Thread : ~Sends(u, c)'
          BY <2>0, <3>3, <4>4
        <5> QED
          BY <5>2, <5>3 DEF OutboxOK
      <4> QED
        BY <4>3, <4>4
    <3>5. CASE ~(run = "RUNNING" /\ node[Cmd(w)] = "RUNNING")
      <4>1. /\ node'[c] = node[c] /\ outbox'[c] = outbox[c]
            /\ row'[c] # "none" => row[c] # "none"
        BY <2>5, <3>2, <3>5 DEF ApplyResult, TypeInv, RowTypes
      <4> QED
        BY <2>0, <4>1, OutboxKept
    <3> QED
      BY <3>4, <3>5
  <2>6. ASSUME NEW w \in Worker, Receive(w), ~ApplyResult(w) PROVE OutboxOK(c)'
    <3>1. rows' = rows
      BY <2>6 DEF Receive, HandlePublished, HandleResponse, HandleIncoming, CallHandler,
         EndMessage, ApplyFeedback, EvaluateResult
    <3> QED
      BY <2>0, <3>1, OutboxKept DEF rows
  <2>7. CASE StartStep
    <3>1. node'[c] \in {node[c], "CANCELLED"} /\ outbox' = outbox
      BY <2>7 DEF StartStep, StartRun, DelayOver, LeaveDelay, BeginCancel, CancelNavigation,
         EndCancel, rows, TypeInv, RowTypes
    <3> QED
      BY <2>0, <2>7, <3>1, StartRows, OutboxKept
  <2>8. CASE OutsideStep
    BY <2>0, <2>8, OutsideKeeps, OutboxKept DEF rows
  <2> QED
    BY <1>2, <2>1, <2>2, <2>3, <2>4, <2>5, <2>6, <2>7, <2>8, Steps DEF Dispatch
<1> QED
  BY <1>1, <1>2

\* A navigation goal that is dispatched under the callback gate has an outbox row that is
\* acknowledged or failed from the moment its node has succeeded or failed, and for good:
\* the answer cannot overtake markDispatched, whose SENT would hide it (the gate of
\* WorkflowExecutor, held by handlers and by the timer while they dispatch).
THEOREM OutboxSettlesHolds == Spec => []OutboxSettles
<1> DEFINE Inv == TypeInv /\ DispatchInv /\ GateHeld /\ ApiOutside /\ Outboxes
<1>1. Init => Inv
  <2> SUFFICES ASSUME Init PROVE GateHeld /\ ApiOutside /\ Outboxes
    BY InitTyped, DispatchInvInit
  <2>1. \A t \in Thread : thread[t].pc = "idle" /\ thread[t].todo = << >>
    BY DEF Init, Rested
  <2>2. ToSet(<< >>) = {} /\ Api \in Thread /\ Worker \cup {Timer} \subseteq Thread
    BY DEF ToSet, Thread
  <2> QED
    BY <2>1, <2>2 DEF Init, GateHeld, ApiOutside, Outboxes, OutboxOK, Sends, Dispatching,
       Sending
<1>2. Inv /\ [Next]_vars => Inv'
  BY Typing, DispatchInvNext, GateHeldNext, ApiOutsideNext, OutboxesNext
<1>3. Inv => OutboxSettles
  <2>1. UnderGate \subseteq Command
    BY StartedOnce DEF UnderGate, ToSet
  <2> QED
    BY <2>1 DEF OutboxSettles, Outboxes, OutboxOK
<1> QED
  BY <1>1, <1>2, <1>3, PTL DEF Spec

-----------------------------------------------------------------------------
\* With the connections up: a goal the robot has got is waited for by its handler,
\* with the verdict in a queue once there is one; or a worker has a verdict in hand
\* for it; or the handler has been called.
Waiting(c) == IF OnTopics(c) THEN <<c, "result">> \in listening ELSE c \in pending

\* The message is the answer to the goal, for its handler.
Answers(m, c) ==
  /\ m.server = ServerOf[c] /\ m.kind = "result" /\ m.outcome # "none" /\ Concerns(m, c)
  /\ ~OnTopics(c) => m.about = c

\* The answer is in the queue of the robot or among the responses.
Coming(c) == \E m \in ToSet(strand[RobotFor(c)]) \cup responses : Answers(m, c)

\* The answer is in the hands of a worker.
Holding(c) == \E w \in Worker : InHand(w, c) /\ Answers(thread[w].msg, c)

\* A goal that was made is answered, or its answer is in hand, or its handler waits and
\* the answer, once given, is on its way.
Awaited(c) ==
  goal[c] # "none" =>
    applied[c] # << >> \/ Holding(c) \/ (Waiting(c) /\ (Decided(c) => Coming(c)))

\* With no connection lost, every goal is awaited.
AwaitInv ==
  /\ drops \in Nat
  /\ drops = 0 => (\A r \in Robot : link[r]) /\ \A c \in Command : Awaited(c)

\* A step of another thread leaves a handler waiting, and what is in hand in hand.
LEMMA AwaitedKept ==
  ASSUME TypeInv, DispatchInv, [Next]_vars, NEW c \in Command, Awaited(c),
         goal'[c] = goal[c],
         Waiting(c) => Waiting(c)',
         Coming(c) => Coming(c)',
         \A w \in Worker : InHand(w, c) => InHand(w, c)' /\ thread'[w].msg = thread[w].msg
  PROVE  Awaited(c)'
<1>1. applied[c] # << >> => applied'[c] # << >>
  BY Grows
<1>2. Holding(c) => Holding(c)'
  BY DEF Holding, Answers, Concerns
<1> QED
  BY <1>1, <1>2 DEF Awaited, Decided

\* Dispatching makes goals whose handlers wait, and disturbs none.
LEMMA DispatchAwaited ==
  ASSUME TypeInv, DispatchInv, [Next]_vars, NEW t \in Thread, Dispatch(t),
         \A r \in Robot : link[r], NEW c \in Command, Awaited(c)
  PROVE  Awaited(c)'
<1>0. Worker \subseteq Thread /\ ThreadOK(t, thread[t]) /\ SendOK(t)
  BY DEF Thread, TypeInv, ThreadsOK, DispatchInv, Senders
<1>1. ASSUME NEW w \in Worker, InHand(w, c)
      PROVE  InHand(w, c)' /\ thread'[w].msg = thread[w].msg
  <2>1. CASE w # t
    <3>1. thread'[w] = thread[w]
      BY <1>0, <2>1, DispatchMoves
    <3> QED
      BY <1>1, <3>1 DEF InHand
  <2>2. CASE w = t
    <3>1. /\ thread[w].pc \in Dispatching
          /\ thread'[w].pc \in Dispatching \cup {Home(w)}
          /\ thread'[w].msg = thread[w].msg
          /\ thread'[w].calls = thread[w].calls
      BY <2>2, DispatchMoves
    <3>2. Home(w) = "evaluate"
      BY DispatchAssumption DEF Home
    <3>3. c \in thread[w].calls /\ thread'[w].pc # "idle"
      BY <1>1, <3>1, <3>2 DEF InHand, Dispatching, Sending
    <3> QED
      BY <3>1, <3>3 DEF InHand
  <2> QED
    BY <2>1, <2>2
<1>2. queues' = queues
  BY DEF Dispatch, CreateCommand, Send, RecordSent, MarkDispatched, Refused, TopicPublished
<1>3. CASE ~ Send(t)
  <2>1. UNCHANGED <<handlers, goal>>
    BY <1>3 DEF Dispatch, CreateCommand, RecordSent, MarkDispatched, Refused, TopicPublished,
       world
  <2> QED
    BY <1>1, <1>2, <2>1, AwaitedKept DEF Waiting, Coming, handlers, queues
<1>4. CASE Send(t)
  <2>1. Cmd(t) \in Command /\ RobotFor(Cmd(t)) \in Robot
    BY <1>0, <1>4, DispatchAssumption DEF Send, At, ThreadOK, Sending, Cmd, RobotFor
  <2>2. /\ listening' = listening \cup Subscriptions(Cmd(t))
        /\ pending' = IF Adapter[Cmd(t)] \in {"SERVICE", "ACTION"}
                        THEN pending \cup {Cmd(t)} ELSE pending
        /\ goal' = [goal EXCEPT ![Cmd(t)] = IF Adapter[Cmd(t)] = "TOPIC" THEN @ ELSE "working"]
    BY <1>4, <2>1 DEF Send
  <2>3. CASE c # Cmd(t)
    <3>1. goal'[c] = goal[c] /\ (Waiting(c) => Waiting(c)')
      BY <2>1, <2>2, <2>3 DEF Waiting, TypeInv, HandlerTypes
    <3> QED
      BY <1>1, <1>2, <3>1, AwaitedKept DEF Coming, queues
  <2>4. CASE c = Cmd(t)
    <3>1. goal[c] = "none"
      BY <1>0, <1>4, <2>4 DEF Send, At, SendOK, Sending, Cmd
    <3>2. goal'[c] = IF Adapter[c] = "TOPIC" THEN "none" ELSE "working"
      BY <2>2, <2>4, <3>1 DEF TypeInv, HandlerTypes
    <3>3. Adapter[c] \in {"SERVICE", "ACTION"} => c \in pending' /\ ~OnTopics(c)
      BY <2>2, <2>4 DEF OnTopics
    <3>4. Adapter[c] \in {"ACTIONLIB", "NAVIGATION"} =>
            <<c, "result">> \in listening' /\ OnTopics(c)
      BY <2>2, <2>4 DEF Subscriptions, OnTopics
    <3>5. Adapter[c] \in Adapters
      BY DispatchAssumption
    <3> QED
      BY <3>2, <3>3, <3>4, <3>5 DEF Awaited, Waiting, Decided, Adapters
  <2> QED
    BY <2>3, <2>4
<1> QED
  BY <1>3, <1>4

\* A message leaves its queue: its handler takes it in hand, if it answers the goal.
LEMMA IncomingAwaited ==
  ASSUME TypeInv, DispatchInv, [Next]_vars, MessagesSent, NEW w \in Worker,
         thread[w].pc = "idle",
         NEW m \in MessageType, Sent(m), NEW r, HandleIncoming(w, m, r),
         NEW c \in Command, Awaited(c), goal' = goal,
         Coming(c) => Coming(c)' \/ Answers(m, c)
  PROVE  Awaited(c)'
<1>0. ThreadsOK /\ w \in Thread /\ Worker \subseteq Thread
  BY DEF TypeInv, Thread
<1> DEFINE rec == [Rested EXCEPT !.pc = "calls", !.msg = m, !.strand = r,
                                 !.calls = Handlers(m)]
<1>1. /\ Move(w, rec) /\ rec.pc = "calls" /\ rec.msg = m /\ rec.calls = Handlers(m)
      /\ listening' = listening
      /\ pending' = IF m.kind = "result" THEN pending \ Handlers(m) ELSE pending
  BY DEF HandleIncoming, Rested
<1>2. /\ thread'[w].pc = "calls" /\ thread'[w].msg = m /\ thread'[w].calls = Handlers(m)
      /\ \A v \in Worker : v # w => thread'[v] = thread[v]
  <2> HIDE DEF rec
  <2> QED
    BY <1>0, <1>1, Others
<1>3. \A v \in Worker : InHand(v, c) => InHand(v, c)' /\ thread'[v].msg = thread[v].msg
  BY <1>2 DEF InHand
<1>4. CASE Answers(m, c) /\ Waiting(c)
  <2>1. c \in Handlers(m)
    BY <1>4 DEF Answers, Waiting, Handlers
  <2>2. Holding(c)'
    BY <1>2, <1>4, <2>1 DEF Holding, InHand, Answers, Concerns
  <2> QED
    BY <2>2 DEF Awaited
<1>5. CASE ~Answers(m, c) /\ Waiting(c)
  <2>1. Waiting(c)'
    <3>1. CASE OnTopics(c)
      BY <1>1, <1>5, <3>1 DEF Waiting
    <3>2. CASE ~OnTopics(c)
      <4> SUFFICES ASSUME m.kind = "result", c \in Handlers(m) PROVE FALSE
        BY <1>1, <1>5, <3>2 DEF Waiting
      <4>1. m.server = ServerOf[c] /\ m.about = c
        BY <3>2 DEF Handlers
      <4>2. PICK d \in Command : SentBy(m, d)
        BY DEF Sent
      <4>3. c = d
        BY <4>1, <4>2, DispatchAssumption DEF SentBy
      <4>4. m.outcome # "none"
        BY <3>2, <4>2, <4>3 DEF SentBy, OnTopics
      <4> QED
        BY <1>5, <4>1, <4>4 DEF Answers, Concerns
    <3> QED
      BY <3>1, <3>2
  <2> QED
    BY <1>3, <1>5, <2>1, AwaitedKept
<1>6. CASE ~Waiting(c)
  <2>1. applied[c] # << >> => applied'[c] # << >>
    BY Grows
  <2>2. Holding(c) => Holding(c)'
    BY <1>3 DEF Holding, Answers, Concerns
  <2> QED
    BY <1>6, <2>1, <2>2 DEF Awaited
<1> QED
  BY <1>4, <1>5, <1>6

\* A message that is handled reaches the handler of its goal.
LEMMA ReceiveAwaited ==
  ASSUME TypeInv, DispatchInv, [Next]_vars, MessagesSent, NEW w \in Worker, Receive(w),
         NEW c \in Command, Awaited(c)
  PROVE  Awaited(c)'
<1>0. ThreadsOK /\ w \in Thread /\ ThreadOK(w, thread[w]) /\ HolderOK(w) /\ Worker \subseteq Thread
  BY DEF TypeInv, ThreadsOK, Thread, DispatchInv, Holders
<1>a. goal' = goal /\ (applied[c] # << >> => applied'[c] # << >>)
  BY ReceiveRows, Grows
<1>b. \A v \in Worker : v # w => thread'[v] = thread[v]
  BY <1>0, ReceiveMoves
<1>1. CASE HandlePublished(w)
  <2>1. PICK r \in Robot : /\ strand[r] # << >> /\ HandleIncoming(w, Head(strand[r]), r)
                           /\ strand' = [strand EXCEPT ![r] = Tail(@)] /\ responses' = responses
                           /\ thread[w].pc = "idle"
    BY <1>1 DEF HandlePublished, At
  <2>2. strand[r] \in Seq(MessageType)
    BY DEF TypeInv, HandlerTypes
  <2>3. Head(strand[r]) \in MessageType /\ Head(strand[r]) \in ToSet(strand[r])
        /\ ToSet(strand[r]) = {Head(strand[r])} \cup ToSet(Tail(strand[r]))
    <3>1. /\ Tail(strand[r]) \in Seq(MessageType) /\ Len(Tail(strand[r])) = Len(strand[r]) - 1
          /\ Len(strand[r]) \in Nat \ {0} /\ Head(strand[r]) \in MessageType
          /\ \A i \in 1..Len(Tail(strand[r])) : Tail(strand[r])[i] = strand[r][i+1]
      BY <2>1, <2>2, HeadTailProperties, EmptySeq
    <3>2. /\ DOMAIN strand[r] = 1..Len(strand[r])
          /\ DOMAIN Tail(strand[r]) = 1..Len(strand[r])-1 /\ Head(strand[r]) = strand[r][1]
      BY <2>2, <3>1
    <3>3. \A i \in 1..Len(strand[r])-1 : Tail(strand[r])[i] = strand[r][i+1]
                                         /\ i+1 \in 1..Len(strand[r])
      BY <3>1
    <3>4. \A i \in 2..Len(strand[r]) : i-1 \in 1..Len(strand[r])-1
                                       /\ Tail(strand[r])[i-1] = strand[r][i]
      BY <3>1
    <3>5. ToSet(strand[r]) \subseteq {Head(strand[r])} \cup ToSet(Tail(strand[r]))
      <4> SUFFICES ASSUME NEW i \in 1..Len(strand[r]), i # 1
                   PROVE  strand[r][i] \in ToSet(Tail(strand[r]))
        BY <3>2 DEF ToSet
      <4>1. i \in 2..Len(strand[r])
        BY <3>1
      <4> QED
        BY <3>2, <3>4, <4>1 DEF ToSet
    <3>6. Head(strand[r]) \in ToSet(strand[r])
      BY <3>1, <3>2 DEF ToSet
    <3>7. ToSet(Tail(strand[r])) \subseteq ToSet(strand[r])
      BY <3>2, <3>3 DEF ToSet
    <3> QED
      BY <3>1, <3>5, <3>6, <3>7
  <2>4. Coming(c) => Coming(c)' \/ Answers(Head(strand[r]), c)
    <3> SUFFICES ASSUME NEW m \in ToSet(strand[RobotFor(c)]) \cup responses, Answers(m, c),
                        m # Head(strand[r])
                 PROVE  Coming(c)'
      BY DEF Coming
    <3>1. m \in ToSet(strand'[RobotFor(c)]) \cup responses'
      BY <2>1, <2>3, DispatchAssumption DEF RobotFor, TypeInv, HandlerTypes
    <3> QED
      BY <3>1 DEF Coming, Answers, Concerns
  <2>5. Sent(Head(strand[r]))
    BY <2>3 DEF MessagesSent
  <2> QED
    BY <1>a, <2>1, <2>3, <2>4, <2>5, IncomingAwaited
<1>2. CASE HandleResponse(w)
  <2>1. PICK m \in responses : HandleIncoming(w, m, Nobody) /\ responses' = responses \ {m}
                               /\ strand' = strand /\ thread[w].pc = "idle"
    BY <1>2 DEF HandleResponse, At
  <2>2. Coming(c) => Coming(c)' \/ Answers(m, c)
    BY <2>1 DEF Coming, Answers, Concerns
  <2>3. Sent(m) /\ m \in MessageType
    BY DEF MessagesSent, TypeInv, HandlerTypes
  <2> QED
    BY <1>a, <2>1, <2>2, <2>3, IncomingAwaited
<1>3. ASSUME queues' = queues, thread'[w].msg = thread[w].msg,
             Waiting(c) => Waiting(c)' \/ Holding(c)',
             InHand(w, c) => InHand(w, c)' \/ applied'[c] # << >>
                               \/ ~Answers(thread[w].msg, c)
      PROVE  Awaited(c)'
  <2>1. Holding(c) => Holding(c)' \/ applied'[c] # << >>
    BY <1>3, <1>b DEF Holding, Answers, Concerns, InHand
  <2>2. Coming(c) => Coming(c)'
    BY <1>3 DEF Coming, Answers, Concerns, queues
  <2> QED
    BY <1>3, <1>a, <2>1, <2>2 DEF Awaited, Decided
<1>4. ASSUME Go(w, "calls")
      PROVE  /\ thread'[w].msg = thread[w].msg /\ thread'[w].calls = thread[w].calls
             /\ thread'[w].pc = "calls"
  <2>1. thread'[w] = [thread[w] EXCEPT !.pc = "calls"]
    BY <1>0, <1>4, Others DEF Go
  <2> QED
    BY <1>0, <2>1 DEF ThreadOK, ThreadType
<1>5. CASE CallHandler(w)
  <2>1. PICK d \in thread[w].calls :
          LET m == thread[w].msg IN
          \/ /\ OnTopics(d) /\ (~Concerns(m, d) \/ ~Terminal(m) \/ (m.kind = "result" /\ d \in finished))
             /\ Move(w, [thread[w] EXCEPT !.calls = @ \ {d}, !.cmd = d])
             /\ UNCHANGED handlers
          \/ /\ Move(w, [[thread[w] EXCEPT !.calls = @ \ {d}, !.cmd = d] EXCEPT !.pc = "gate"])
             /\ \/ UNCHANGED handlers
                \/ /\ OnTopics(d) /\ Concerns(m, d) /\ Terminal(m) /\ m.kind = "result"
                   /\ Finish(d) /\ UNCHANGED pending
    BY <1>5 DEF CallHandler
  <2> DEFINE rec(pc) == [thread[w] EXCEPT !.calls = @ \ {d}, !.cmd = d, !.pc = pc]
             m == thread[w].msg
  <2>2. /\ thread[w].pc = "calls" /\ d \in Command /\ InHand(w, d) /\ queues' = queues
        /\ m \in MessageType
    BY <1>0, <1>5, <2>1 DEF CallHandler, At, ThreadOK, ThreadType, InHand
  <2>3. ServerOf[d] = m.server /\ d \notin finished
    BY <1>0, <2>1, <2>2 DEF HolderOK, HandOK
  <2>4. PICK pc \in {"calls", "gate"} :
          /\ Move(w, rec(pc))
          /\ pc = "calls" => /\ UNCHANGED handlers
                             /\ ~Concerns(m, d) \/ ~Terminal(m)
          /\ pc = "gate" => \/ UNCHANGED handlers
                            \/ /\ OnTopics(d) /\ Concerns(m, d) /\ Terminal(m)
                               /\ m.kind = "result" /\ Finish(d) /\ UNCHANGED pending
    BY <1>0, <2>1, <2>2, <2>3 DEF ThreadOK, ThreadType
  <2>5. /\ thread'[w].pc = pc /\ thread'[w].msg = m /\ thread'[w].cmd = d
        /\ thread'[w].calls = thread[w].calls \ {d}
    <3>1. thread'[w] = rec(pc)
      BY <1>0, <2>4, Others
    <3> QED
      BY <1>0, <3>1 DEF ThreadOK, ThreadType
  <2>6. InHand(w, c) => InHand(w, c)' \/ ~Answers(m, c)
    <3>1. CASE c # d
      BY <2>2, <2>5, <3>1 DEF InHand
    <3>2. CASE c = d
      BY <2>2, <2>4, <2>5, <3>2 DEF InHand, Answers, Terminal
    <3> QED
      BY <3>1, <3>2
  <2>7. Waiting(c) => Waiting(c)' \/ Holding(c)'
    <3>1. CASE UNCHANGED handlers
      BY <3>1 DEF Waiting, handlers
    <3>2. CASE c # d /\ Finish(d) /\ UNCHANGED pending
      BY <3>2 DEF Waiting, Finish
    <3>3. CASE /\ c = d /\ pc = "gate" /\ OnTopics(d) /\ Concerns(m, d) /\ Terminal(m)
               /\ m.kind = "result"
      <4>1. InHand(w, c)' /\ Answers(thread[w].msg, c)
        BY <2>3, <2>5, <3>3 DEF InHand, Answers, Terminal
      <4> QED
        BY <2>5, <4>1 DEF Holding, Answers, Concerns
    <3> QED
      BY <2>4, <3>1, <3>2, <3>3
  <2> QED
    BY <1>3, <2>2, <2>5, <2>6, <2>7
<1>6. CASE EndMessage(w)
  <2>1. ~InHand(w, c) /\ queues' = queues /\ handlers' = handlers
    BY <1>6 DEF EndMessage, At, InHand
  <2>2. \A v \in Worker : InHand(v, c) => InHand(v, c)' /\ thread'[v].msg = thread[v].msg
    BY <1>b, <2>1 DEF InHand
  <2> QED
    BY <1>a, <2>1, <2>2, AwaitedKept DEF Waiting, Coming, queues, handlers
<1>7. CASE ApplyFeedback(w) \/ EvaluateResult(w)
  <2>1. /\ Go(w, "calls") /\ queues' = queues /\ handlers' = handlers
        /\ thread[w].pc = "gate" => thread[w].msg.kind = "feedback"
    BY <1>7 DEF ApplyFeedback, EvaluateResult, At
  <2>2. InHand(w, c) => InHand(w, c)' \/ ~Answers(thread[w].msg, c)
    BY <1>4, <2>1 DEF InHand, Answers
  <2> QED
    BY <1>3, <1>4, <2>1, <2>2 DEF Waiting, handlers
<1>8. CASE ApplyResult(w)
  <2>d. PICK d : d = thread[w].cmd
    OBVIOUS
  <2>1. /\ d \in Command /\ queues' = queues /\ handlers' = handlers
        /\ thread[w].pc = "gate"
        /\ applied' = [applied EXCEPT ![d] = Append(@, thread[w].msg.outcome)]
    BY <1>0, <1>8, <2>d DEF ApplyResult, At, ThreadOK, Cmd
  <2>2. applied'[d] # << >>
    <3>1. applied[d] = << >>
      BY <1>0, <2>1, <2>d DEF HolderOK, HandOK, InHand
    <3>2. Append(applied[d], thread[w].msg.outcome) # << >>
      BY <3>1
    <3> QED
      BY <2>1, <3>2 DEF TypeInv, HandlerTypes
  <2>3. /\ thread'[w].msg = thread[w].msg /\ thread'[w].calls = thread[w].calls
        /\ thread'[w].pc # "idle"
    <3>1. CASE Go(w, "calls")
      BY <1>4, <3>1
    <3>2. CASE FollowEdges(w, d, [thread[w] EXCEPT !.back = "evaluate", !.done = d])
      <4> DEFINE rec == [thread[w] EXCEPT !.todo = Starts[d] \o @, !.back = "evaluate",
                                          !.done = d]
      <4>1. Starts[d] \o thread[w].todo \in Seq(Command)
        BY <1>0, <2>1, StartedOnce, ConcatProperties DEF ThreadOK, ThreadType
      <4>2. /\ rec \in ThreadType /\ Resume(w, rec) /\ rec.back = "evaluate"
            /\ rec.msg = thread[w].msg /\ rec.calls = thread[w].calls
        BY <1>0, <2>1, <3>2, <4>1 DEF ThreadOK, ThreadType, FollowEdges
      <4> QED
        BY <1>0, <4>2, Resumed
    <3> QED
      BY <1>8, <2>d, <3>1, <3>2 DEF ApplyResult, Cmd
  <2>4. InHand(w, c) => InHand(w, c)' \/ applied'[c] # << >>
    BY <2>1, <2>2, <2>3, <2>d DEF InHand
  <2> QED
    BY <1>3, <2>1, <2>3, <2>4 DEF Waiting, handlers
<1> QED
  BY <1>1, <1>2, <1>5, <1>6, <1>7, <1>8 DEF Receive

\* A decided goal is heard by its handler while the connection is up.
LEMMA DeliverHeard ==
  ASSUME TypeInv, NEW c \in Command, NEW m \in MessageType, Deliver(c, m),
         NEW d \in Command, Coming(d)
  PROVE  Coming(d)'
<1>1. RobotFor(c) \in Robot /\ strand[RobotFor(c)] \in Seq(MessageType)
      /\ RobotFor(d) \in Robot
  BY DispatchAssumption DEF RobotFor, TypeInv, HandlerTypes
<1>2. ToSet(strand[RobotFor(c)]) \subseteq ToSet(Append(strand[RobotFor(c)], m))
  <2> DEFINE s == strand[RobotFor(c)]
  <2>1. /\ Append(s, m) \in Seq(MessageType) /\ Len(Append(s, m)) = Len(s) + 1
        /\ \A i \in 1..Len(s) : Append(s, m)[i] = s[i]
        /\ Append(s, m)[Len(s)+1] = m /\ Len(s) \in Nat
    BY <1>1, AppendProperties
  <2>2. DOMAIN Append(s, m) = 1..Len(s)+1 /\ DOMAIN s = 1..Len(s)
    BY <1>1, <2>1
  <2> QED
    BY <2>1, <2>2 DEF ToSet
<1>3. /\ ToSet(strand[RobotFor(d)]) \subseteq ToSet(strand'[RobotFor(d)])
      /\ responses \subseteq responses'
  BY <1>1, <1>2 DEF Deliver, queues, TypeInv, HandlerTypes
<1> QED
  BY <1>3 DEF Coming, Answers, Concerns

\* What a robot that is connected sends is put in a queue, if it is heard.
LEMMA DeliverQueued ==
  ASSUME TypeInv, NEW c \in Command, NEW m \in MessageType, Deliver(c, m),
         link[RobotFor(c)], Heard(c, m.kind)
  PROVE  m \in ToSet(strand'[RobotFor(c)]) \cup responses'
<1>1. RobotFor(c) \in Robot /\ strand[RobotFor(c)] \in Seq(MessageType)
  BY DispatchAssumption DEF RobotFor, TypeInv, HandlerTypes
<1>2. m \in ToSet(Append(strand[RobotFor(c)], m))
  <2> DEFINE s == strand[RobotFor(c)]
  <2>1. /\ Append(s, m) \in Seq(MessageType) /\ Len(Append(s, m)) = Len(s) + 1
        /\ Append(s, m)[Len(s)+1] = m /\ Len(s) \in Nat
    BY <1>1, AppendProperties
  <2>2. DOMAIN Append(s, m) = 1..Len(s)+1
    BY <2>1
  <2> QED
    BY <2>1, <2>2 DEF ToSet
<1> QED
  BY <1>1, <1>2 DEF Deliver, TypeInv, HandlerTypes

\* What the robots say arrives.
LEMMA OutsideAwaited ==
  ASSUME TypeInv, DispatchInv, [Next]_vars, OutsideStep, \A r \in Robot : link[r],
         NEW c \in Command, Awaited(c)
  PROVE  Awaited(c)'
<1>1. UNCHANGED <<thread, handlers, applied>>
  BY OutsideKeeps
<1>2. (Waiting(c) => Waiting(c)') /\ (Holding(c) => Holding(c)')
      /\ \A w \in Worker : InHand(w, c) => InHand(w, c)' /\ thread'[w].msg = thread[w].msg
  BY <1>1 DEF Waiting, handlers, InHand, Holding, Answers, Concerns
<1>3. CASE (\E r \in Robot : LinkDown(r) \/ LinkUp(r)) \/ UNCHANGED vars
  <2>1. goal' = goal /\ queues' = queues
    BY <1>3 DEF LinkDown, LinkUp, vars, world
  <2> QED
    BY <1>2, <2>1, AwaitedKept DEF Coming, Answers, Concerns, queues
<1>4. ASSUME NEW d \in Command, RobotReports(d) PROVE Awaited(c)'
  <2>1. goal' = goal /\ goal[d] \in {"working", "SUCCEEDED", "FAILED"}
    BY <1>4 DEF RobotReports, TypeInv, HandlerTypes
  <2>2. PICK kind \in {"feedback", "result"}, value \in 0..1,
             outcome \in {"none", "SUCCEEDED", "FAILED"} :
          Deliver(d, Message(d, kind, value, outcome))
    BY <1>4, <2>1 DEF RobotReports
  <2>3. Coming(c) => Coming(c)'
    BY <2>2, MessageTyped, DeliverHeard
  <2> QED
    BY <1>2, <2>1, <2>3, AwaitedKept
<1>5. ASSUME NEW d \in Command, RobotFinishes(d) PROVE Awaited(c)'
  <2>1. PICK verdict \in {"SUCCEEDED", "FAILED"} :
          /\ goal[d] = "working" /\ goal' = [goal EXCEPT ![d] = verdict]
          /\ Deliver(d, Message(d, "result", 0, verdict))
    BY <1>5 DEF RobotFinishes
  <2> DEFINE m == Message(d, "result", 0, verdict)
  <2>2. m \in MessageType
    BY MessageTyped
  <2>3. Coming(c) => Coming(c)'
    BY <2>1, <2>2, DeliverHeard
  <2>4. CASE c # d
    <3>1. goal'[c] = goal[c]
      BY <2>1, <2>4 DEF TypeInv, HandlerTypes
    <3> QED
      BY <1>2, <2>3, <3>1, AwaitedKept
  <2>5. CASE c = d
    <3>1. applied[c] # << >> \/ Holding(c) => Awaited(c)'
      BY <1>1, <1>2 DEF Awaited
    <3>2. ASSUME Waiting(c) PROVE Coming(c)'
      <4>1. Heard(c, "result")
        BY <3>2 DEF Heard, Waiting
      <4>2. m.kind = "result" /\ m.server = ServerOf[c] /\ m.outcome = verdict
            /\ m.about = IF ServerOf[c] \in Anonymous THEN NoGoal ELSE c
        BY <2>5 DEF Message
      <4>3. link[RobotFor(c)]
        BY DispatchAssumption DEF RobotFor
      <4>4. m \in ToSet(strand'[RobotFor(c)]) \cup responses'
        <5> HIDE DEF m
        <5> QED
          BY <2>1, <2>2, <2>5, <4>1, <4>2, <4>3, DeliverQueued DEF m
      <4>5. Answers(m, c)
        <5> HIDE DEF m
        <5> QED
          BY <4>2, DispatchAssumption DEF Answers, Concerns
      <4>6. Answers(m, c)'
        <5> HIDE DEF m
        <5> QED
          BY <4>5 DEF Answers, Concerns, m, Message
      <4> QED
        BY <4>4, <4>6 DEF Coming
    <3> QED
      BY <1>2, <2>1, <2>5, <3>1, <3>2 DEF Awaited
  <2> QED
    BY <2>4, <2>5
<1> QED
  BY <1>3, <1>4, <1>5 DEF OutsideStep

\* Every step keeps the goals awaited.
LEMMA AwaitNext ==
  ASSUME TypeInv, DispatchInv, [Next]_vars, MessagesSent, AwaitInv
  PROVE  AwaitInv'
<1>1. /\ drops' \in Nat /\ (drops' = 0 => drops = 0)
      /\ drops' = 0 /\ (\A r \in Robot : link[r]) => \A r \in Robot : link'[r]
  <2>1. ASSUME NEW r \in Robot, LinkDown(r) PROVE drops' \in Nat /\ drops' # 0
    BY <2>1 DEF LinkDown, AwaitInv
  <2>2. ASSUME NEW r \in Robot, LinkUp(r)
        PROVE  drops' = drops /\ ((\A q \in Robot : link[q]) => \A q \in Robot : link'[q])
    BY <2>2 DEF LinkUp, TypeInv, HandlerTypes
  <2>3. ASSUME NEW t \in Thread, Dispatch(t) PROVE UNCHANGED <<drops, link>>
    BY <2>3 DEF Dispatch, CreateCommand, Send, RecordSent, MarkDispatched, Refused,
       TopicPublished, world
  <2>4. ASSUME NEW w \in Worker, Receive(w) PROVE UNCHANGED <<drops, link>>
    BY <2>4 DEF Receive, HandlePublished, HandleResponse, HandleIncoming, CallHandler,
       EndMessage, ApplyFeedback, ApplyResult, EvaluateResult, world
  <2>5. CASE StartStep
    BY <2>5 DEF StartStep, StartRun, DelayOver, LeaveDelay, BeginCancel, CancelNavigation,
       EndCancel, world, AwaitInv
  <2>6. ASSUME NEW c \in Command, RobotFinishes(c) \/ RobotReports(c)
        PROVE  UNCHANGED <<drops, link>>
    BY <2>6 DEF RobotFinishes, RobotReports, RobotSteps
  <2>7. CASE UNCHANGED vars
    BY <2>7 DEF vars, world, AwaitInv
  <2> QED
    BY <2>1, <2>2, <2>3, <2>4, <2>5, <2>6, <2>7, Steps DEF OutsideStep, AwaitInv
<1>2. ASSUME drops' = 0, NEW c \in Command PROVE Awaited(c)'
  <2>1. (\A r \in Robot : link[r]) /\ Awaited(c)
    BY <1>1, <1>2 DEF AwaitInv
  <2>2. CASE StartStep
    <3>1. \A w \in Worker : thread'[w] = thread[w]
      BY <2>2, StartMoves, DispatchAssumption DEF Thread
    <3>2. UNCHANGED <<goal, handlers>> /\ queues' = queues
      BY <2>2, StartRows DEF StartStep, StartRun, DelayOver, LeaveDelay, BeginCancel,
         CancelNavigation, EndCancel
    <3> QED
      BY <2>1, <3>1, <3>2, AwaitedKept DEF InHand, Waiting, Coming, Answers, Concerns,
         handlers, queues
  <2> QED
    BY <2>1, <2>2, Steps, DispatchAwaited, ReceiveAwaited, OutsideAwaited
<1> QED
  BY <1>1, <1>2 DEF AwaitInv

\* With the connections up throughout, each decided goal has had its handler called when
\* all that was sent is handled: no order of subscribing, sending, answering and handling,
\* and no other goal of the server, makes a handler miss its answer or drop it (sendGoal
\* subscribes before it publishes; a handler is removed only by its own result).
THEOREM NoVerdictLostHolds == Spec => []NoVerdictLost
<1> DEFINE Inv == TypeInv /\ DispatchInv /\ MessagesSent /\ AwaitInv
<1>1. Init => Inv
  <2> SUFFICES ASSUME Init PROVE MessagesSent /\ AwaitInv
    BY InitTyped, DispatchInvInit
  <2>1. \A t \in Thread : thread[t].pc = "idle"
    BY DEF Init, Rested
  <2>2. \A r \in Robot : ToSet(strand[r]) = {}
    BY DEF Init, ToSet
  <2> QED
    BY <2>1, <2>2 DEF MessagesSent, AwaitInv, Awaited, Init, Thread
<1>2. Inv /\ [Next]_vars => Inv'
  BY Typing, DispatchInvNext, MessagesNext, AwaitNext
<1>3. Inv => NoVerdictLost
  <2> SUFFICES ASSUME Inv, Quiet, drops = 0, NEW c \in Command,
                      goal[c] \in {"SUCCEEDED", "FAILED"}, applied[c] = << >>
               PROVE  FALSE
    BY DEF NoVerdictLost
  <2>1. Awaited(c)
    BY DEF AwaitInv
  <2>2. ~Holding(c)
    <3>1. \A w \in Worker : thread[w].pc = "idle"
      BY DispatchAssumption DEF Quiet, Thread, TypeInv, ThreadsOK, ThreadOK, Place,
         Dispatching, Sending
    <3> QED
      BY <3>1 DEF Holding, InHand
  <2>3. ~Coming(c)
    <3>1. strand[RobotFor(c)] = << >> /\ responses = {}
      BY DispatchAssumption DEF Quiet, RobotFor
    <3> QED
      BY <3>1 DEF Coming, ToSet
  <2> QED
    BY <2>1, <2>2, <2>3 DEF Awaited, Decided
<1> QED
  BY <1>1, <1>2, <1>3, PTL DEF Spec
=============================================================================
