------------------------- MODULE SshExecutor_proofs -------------------------
(***************************************************************************)
(* Proofs about the execution runtime, for any number of robots, tasks,    *)
(* strands and threads, and about the SSH executor, whose jobs run on it,  *)
(* for every profile.  The inductive invariant of the runtime says who     *)
(* owns a strand, where a queued task is, that a strand runs one task, and *)
(* how far the shutdown has drained the pools; that of the executor says   *)
(* what the results of a job tell of its progress.                         *)
(***************************************************************************)
EXTENDS SshExecutor, FiniteSetTheorems, TLAPS

-----------------------------------------------------------------------------
(* The execution runtime *)

\* A strand belongs to one robot, which every task bound to it is a task of.
StrandsOwned ==
  /\ \A r, q \in Robot : strandOf[r] = strandOf[q] /\ strandOf[r] # NoStrand => r = q
  /\ \A t \in Task : group[t] \in Robot =>
       strandOf[group[t]] # NoStrand /\ lane[t] = strandOf[group[t]]
  /\ \A t \in Task : lane[t] \in Strand => group[t] \in Robot

\* A queue holds the queued tasks of its lane, each once.
QueuesHold ==
  \A l \in Lane : \A i \in 1 .. Len(queue[l]) :
    /\ status[queue[l][i]] = "queued"
    /\ lane[queue[l][i]] = l
    /\ \A k \in 1 .. Len(queue[l]) : queue[l][i] = queue[l][k] => i = k

OneTaskPerStrand ==
  \A t, u \in Task :
    /\ status[t] = "running" /\ status[u] = "running"
    /\ lane[t] = lane[u] /\ lane[t] \in Strand
    => t = u

\* The pools are drained one after the other, once no task is accepted.
DrainedInOrder ==
  /\ accepting => joiner = "none"
  /\ joiner \in {"blocking", "joined"} => PoolIdle(Lane \ {"blocking"})
  /\ joiner = "joined" => PoolIdle({"blocking"})

RuntimeInv == /\ RuntimeTypeOK
        /\ StrandsOwned
        /\ QueuesHold
        /\ OneTaskPerStrand
        /\ DrainedInOrder

-----------------------------------------------------------------------------
(* Queues *)

LEMMA AppendFacts ==
  ASSUME NEW S, NEW s \in Seq(S), NEW e \in S
  PROVE  /\ Append(s, e) \in Seq(S)
         /\ Len(Append(s, e)) = Len(s) + 1
         /\ \A i \in 1 .. Len(s) : Append(s, e)[i] = s[i]
         /\ Append(s, e)[Len(s) + 1] = e
  OBVIOUS

LEMMA TailFacts ==
  ASSUME NEW S, NEW s \in Seq(S), s # << >>
  PROVE  /\ Head(s) \in S /\ Head(s) = s[1]
         /\ Tail(s) \in Seq(S)
         /\ 1 \in 1 .. Len(s)
         /\ Len(Tail(s)) = Len(s) - 1
         /\ \A i \in 1 .. Len(Tail(s)) : i + 1 \in 1 .. Len(s) /\ Tail(s)[i] = s[i + 1]
  OBVIOUS

LEMMA Lanes ==
  /\ Strand \subseteq Lane /\ "parallel" \in Lane /\ "blocking" \in Lane
  /\ NoStrand \notin Strand
  /\ "parallel" \notin Strand /\ "blocking" \notin Strand
  /\ "parallel" \notin Robot /\ "blocking" \notin Robot
BY RuntimeAssumption DEF Lane

\* The strand bound to a robot is its own, or one that no robot has and that
\* no task is bound to.
LEMMA StrandForFacts ==
  ASSUME RuntimeTypeOK, StrandsOwned, NEW r \in Robot, NEW s \in StrandFor(r)
  PROVE  /\ s \in Strand /\ s # NoStrand
         /\ \A q \in Robot : strandOf[q] = s => q = r
         /\ strandOf[r] # NoStrand => s = strandOf[r]
         /\ strandOf[r] = NoStrand => \A t \in Task : lane[t] # s
<1>1. CASE strandOf[r] # NoStrand
  <2>1. s = strandOf[r] /\ s \in Strand
    BY <1>1 DEF StrandFor, RuntimeTypeOK
  <2> QED
    BY <1>1, <2>1 DEF StrandsOwned
<1>2. CASE strandOf[r] = NoStrand
  <2>1. s \in Strand /\ \A q \in Robot : strandOf[q] # s
    BY <1>2 DEF StrandFor
  <2>2. ASSUME NEW t \in Task, lane[t] = s
        PROVE  FALSE
    BY <2>1, <2>2 DEF StrandsOwned
  <2> QED
    BY <1>2, <2>1, <2>2, Lanes
<1> QED
  BY <1>1, <1>2

\* The queue of a strand no task is bound to is empty.
LEMMA UnboundQueue ==
  ASSUME RuntimeTypeOK, QueuesHold, NEW s \in Strand,
         \A t \in Task : lane[t] # s
  PROVE  queue[s] = << >>
<1>1. s \in Lane /\ queue[s] \in Seq(Task)
  BY DEF RuntimeTypeOK, Lane
<1>2. ASSUME queue[s] # << >>
      PROVE  FALSE
  <2>1. 1 \in 1 .. Len(queue[s]) /\ queue[s][1] \in Task
    BY <1>1, <1>2, TailFacts
  <2> QED
    BY <1>1, <2>1 DEF QueuesHold
<1> QED
  BY <1>2

\* A task that is not queued is in no queue.
LEMMA NotInQueue ==
  ASSUME QueuesHold, NEW t \in Task, status[t] # "queued",
         NEW l \in Lane, NEW i \in 1 .. Len(queue[l])
  PROVE  queue[l][i] # t
BY DEF QueuesHold

-----------------------------------------------------------------------------
(* The inductive invariant *)

\* A task joins the queue of its lane: what Submit and Expire have in common.
LEMMA EnqueueKeepsQueues ==
  ASSUME RuntimeTypeOK, QueuesHold, NEW t \in Task, NEW l \in Lane,
         status[t] # "queued",
         lane' \in [Task -> Lane], lane'[t] = l,
         \A u \in Task : u # t => lane'[u] = lane[u],
         Enqueue(t, l)
  PROVE  /\ queue' \in [Lane -> Seq(Task)]
         /\ status' \in [Task -> Status]
         /\ QueuesHold'
<1>1. /\ queue' = [queue EXCEPT ![l] = Append(queue[l], t)]
      /\ status' = [status EXCEPT ![t] = "queued"]
  BY DEF Enqueue
<1>2. queue[l] \in Seq(Task) /\ \A k \in Lane : queue[k] \in Seq(Task)
  BY DEF RuntimeTypeOK
<1>3. queue' \in [Lane -> Seq(Task)]
  BY <1>1, <1>2, AppendFacts DEF RuntimeTypeOK
<1>4. /\ status' \in [Task -> Status]
      /\ status'[t] = "queued"
      /\ \A u \in Task : u # t => status'[u] = status[u]
  BY <1>1 DEF RuntimeTypeOK, Status
<1>5. ASSUME NEW k \in Lane, NEW i \in 1 .. Len(queue[k])
      PROVE  /\ queue[k][i] \in Task /\ queue[k][i] # t
             /\ status'[queue[k][i]] = "queued" /\ lane'[queue[k][i]] = k
             /\ \A m \in 1 .. Len(queue[k]) : queue[k][i] = queue[k][m] => i = m
  <2>1. queue[k][i] \in Task
    BY <1>2
  <2>2. queue[k][i] # t
    BY NotInQueue
  <2> QED
    BY <1>4, <2>1, <2>2 DEF QueuesHold
<1>6. QueuesHold'
  <2> SUFFICES ASSUME NEW k \in Lane, NEW i \in 1 .. Len(queue'[k])
               PROVE  /\ status'[queue'[k][i]] = "queued"
                      /\ lane'[queue'[k][i]] = k
                      /\ \A m \in 1 .. Len(queue'[k]) :
                           queue'[k][i] = queue'[k][m] => i = m
    BY DEF QueuesHold
  <2>1. CASE k # l
    <3>1. queue'[k] = queue[k]
      BY <1>1, <2>1 DEF RuntimeTypeOK
    <3> QED
      BY <1>5, <3>1
  <2>2. CASE k = l
    <3>1. queue'[k] = Append(queue[l], t)
      BY <1>1, <2>2 DEF RuntimeTypeOK
    <3>2. /\ Len(queue'[k]) = Len(queue[l]) + 1 /\ Len(queue[l]) \in Nat
          /\ \A m \in 1 .. Len(queue[l]) : queue'[k][m] = queue[l][m]
          /\ queue'[k][Len(queue[l]) + 1] = t
      BY <1>2, <3>1, AppendFacts
    <3>3. CASE i = Len(queue[l]) + 1
      <4>1. ASSUME NEW m \in 1 .. Len(queue'[k]), queue'[k][i] = queue'[k][m], i # m
            PROVE  FALSE
        <5>1. m \in 1 .. Len(queue[l])
          BY <3>2, <3>3, <4>1
        <5> QED
          BY <1>5, <3>2, <3>3, <4>1, <5>1
      <4> QED
        BY <1>4, <2>2, <3>2, <3>3, <4>1
    <3>4. CASE i \in 1 .. Len(queue[l])
      <4>1. ASSUME NEW m \in 1 .. Len(queue'[k]), queue'[k][i] = queue'[k][m]
            PROVE  i = m
        <5>1. CASE m \in 1 .. Len(queue[l])
          BY <1>5, <3>2, <3>4, <4>1, <5>1
        <5>2. CASE m = Len(queue[l]) + 1
          BY <1>5, <3>2, <3>4, <4>1, <5>2
        <5> QED
          BY <3>2, <5>1, <5>2
      <4> QED
        BY <1>5, <2>2, <3>2, <3>4, <4>1
    <3> QED
      BY <3>2, <3>3, <3>4
  <2> QED
    BY <2>1, <2>2
<1> QED
  BY <1>3, <1>4, <1>6

\* Binding a robot to its strand, and one new task with it.
LEMMA BindKeepsOwners ==
  ASSUME RuntimeTypeOK, StrandsOwned, NEW r \in Robot, NEW s \in StrandFor(r),
         NEW t \in Task, Bind(r, s),
         lane' = [lane EXCEPT ![t] = s], group' = [group EXCEPT ![t] = r]
  PROVE  /\ strandOf' \in [Robot -> Strand \cup {NoStrand}]
         /\ lane' \in [Task -> Lane]
         /\ group' \in [Task -> Robot \cup {"parallel", "blocking"}]
         /\ StrandsOwned'
<1>1. /\ s \in Strand /\ s # NoStrand
      /\ \A q \in Robot : strandOf[q] = s => q = r
      /\ strandOf[r] # NoStrand => s = strandOf[r]
  BY StrandForFacts
<1>2. /\ strandOf' \in [Robot -> Strand \cup {NoStrand}]
      /\ strandOf'[r] = s
      /\ \A q \in Robot : q # r => strandOf'[q] = strandOf[q]
  BY <1>1 DEF Bind, RuntimeTypeOK
<1>3. /\ lane' \in [Task -> Lane] /\ lane'[t] = s
      /\ \A u \in Task : u # t => lane'[u] = lane[u]
  BY <1>1, Lanes DEF RuntimeTypeOK
<1>4. /\ group' \in [Task -> Robot \cup {"parallel", "blocking"}] /\ group'[t] = r
      /\ \A u \in Task : u # t => group'[u] = group[u]
  BY DEF RuntimeTypeOK
<1>5. \A p, q \in Robot : strandOf'[p] = strandOf'[q] /\ strandOf'[p] # NoStrand => p = q
  BY <1>1, <1>2 DEF StrandsOwned
<1>6. \A u \in Task : group'[u] \in Robot =>
        strandOf'[group'[u]] # NoStrand /\ lane'[u] = strandOf'[group'[u]]
  BY <1>1, <1>2, <1>3, <1>4 DEF StrandsOwned
<1>7. \A u \in Task : lane'[u] \in Strand => group'[u] \in Robot
  BY <1>3, <1>4 DEF StrandsOwned
<1> QED
  BY <1>2, <1>3, <1>4, <1>5, <1>6, <1>7 DEF StrandsOwned

LEMMA InitRuntimeInv == RuntimeInit => RuntimeInv
<1> SUFFICES ASSUME RuntimeInit PROVE RuntimeInv
  OBVIOUS
<1>1. RuntimeTypeOK
  BY Lanes DEF RuntimeInit, RuntimeTypeOK, Status
<1>2. StrandsOwned /\ OneTaskPerStrand
  BY Lanes DEF RuntimeInit, StrandsOwned, OneTaskPerStrand
<1>3. QueuesHold
  BY DEF RuntimeInit, QueuesHold
<1>4. DrainedInOrder
  BY DEF RuntimeInit, DrainedInOrder
<1> QED
  BY <1>1, <1>2, <1>3, <1>4 DEF RuntimeInv

LEMMA PostRobotKeeps ==
  ASSUME RuntimeInv, NEW r \in Robot, NEW t \in Task, PostRobot(r, t)
  PROVE  RuntimeInv'
<1>1. PICK s \in StrandFor(r) : Bind(r, s) /\ Submit(t, s, r)
  BY DEF PostRobot
<1>2. /\ accepting /\ UNCHANGED <<accepting, joiner>>
      /\ status[t] = "new" /\ lane' = [lane EXCEPT ![t] = s]
      /\ group' = [group EXCEPT ![t] = r] /\ Enqueue(t, s)
  BY <1>1 DEF PostRobot, Submit
<1>3. s \in Lane
  BY StrandForFacts, Lanes DEF RuntimeInv
<1>4. /\ strandOf' \in [Robot -> Strand \cup {NoStrand}]
      /\ lane' \in [Task -> Lane]
      /\ group' \in [Task -> Robot \cup {"parallel", "blocking"}]
      /\ StrandsOwned'
  BY <1>1, <1>2, BindKeepsOwners DEF RuntimeInv
<1>5. lane'[t] = s /\ \A u \in Task : u # t => lane'[u] = lane[u]
  BY <1>2 DEF RuntimeInv, RuntimeTypeOK
<1>6. queue' \in [Lane -> Seq(Task)] /\ status' \in [Task -> Status] /\ QueuesHold'
  BY <1>2, <1>3, <1>4, <1>5, EnqueueKeepsQueues DEF RuntimeInv
<1>7. RuntimeTypeOK'
  BY <1>2, <1>4, <1>6 DEF RuntimeInv, RuntimeTypeOK
<1>8. OneTaskPerStrand'
  <2>1. status'[t] # "running" /\ \A u \in Task : u # t => status'[u] = status[u]
    BY <1>2 DEF Enqueue, RuntimeInv, RuntimeTypeOK
  <2> QED
    BY <1>5, <2>1 DEF RuntimeInv, OneTaskPerStrand
<1>9. DrainedInOrder'
  BY <1>2 DEF RuntimeInv, DrainedInOrder
<1> QED
  BY <1>4, <1>6, <1>7, <1>8, <1>9 DEF RuntimeInv

LEMMA PostRobotAfterKeeps ==
  ASSUME RuntimeInv, NEW r \in Robot, NEW t \in Task, PostRobotAfter(r, t)
  PROVE  RuntimeInv'
<1>1. PICK s \in StrandFor(r) : Bind(r, s) /\ lane' = [lane EXCEPT ![t] = s]
  BY DEF PostRobotAfter
<1>2. /\ accepting /\ UNCHANGED <<accepting, joiner, queue>>
      /\ status[t] = "new"
      /\ group' = [group EXCEPT ![t] = r]
      /\ status' = [status EXCEPT ![t] = "armed"]
  BY DEF PostRobotAfter
<1>3. /\ strandOf' \in [Robot -> Strand \cup {NoStrand}]
      /\ lane' \in [Task -> Lane]
      /\ group' \in [Task -> Robot \cup {"parallel", "blocking"}]
      /\ StrandsOwned'
  BY <1>1, <1>2, BindKeepsOwners DEF RuntimeInv
<1>4. /\ status' \in [Task -> Status] /\ status'[t] = "armed"
      /\ \A u \in Task : u # t => status'[u] = status[u] /\ lane'[u] = lane[u]
  BY <1>1, <1>2 DEF RuntimeInv, RuntimeTypeOK, Status
<1>5. RuntimeTypeOK'
  BY <1>2, <1>3, <1>4 DEF RuntimeInv, RuntimeTypeOK
<1>6. QueuesHold'
  <2>1. ASSUME NEW l \in Lane, NEW i \in 1 .. Len(queue[l])
        PROVE  queue[l][i] \in Task /\ queue[l][i] # t
    <3>1. queue[l] \in Seq(Task)
      BY DEF RuntimeInv, RuntimeTypeOK
    <3>2. status[t] # "queued" /\ QueuesHold
      BY <1>2 DEF RuntimeInv
    <3> QED
      BY <3>1, <3>2, NotInQueue
  <2> QED
    BY <1>2, <1>4, <2>1 DEF RuntimeInv, QueuesHold
<1>7. OneTaskPerStrand'
  BY <1>4 DEF RuntimeInv, OneTaskPerStrand
<1>8. DrainedInOrder'
  BY <1>2 DEF RuntimeInv, DrainedInOrder
<1> QED
  BY <1>3, <1>5, <1>6, <1>7, <1>8 DEF RuntimeInv

LEMMA PostPoolKeeps ==
  ASSUME RuntimeInv, NEW t \in Task, NEW l \in {"parallel", "blocking"}, PostPool(t, l)
  PROVE  RuntimeInv'
<1>1. /\ accepting /\ UNCHANGED <<accepting, joiner, strandOf>>
      /\ status[t] = "new" /\ lane' = [lane EXCEPT ![t] = l]
      /\ group' = [group EXCEPT ![t] = l] /\ Enqueue(t, l)
  BY DEF PostPool, Submit
<1>2. l \in Lane /\ l \notin Strand /\ l \notin Robot
  BY Lanes
<1>3. /\ lane' \in [Task -> Lane] /\ lane'[t] = l
      /\ group' \in [Task -> Robot \cup {"parallel", "blocking"}] /\ group'[t] = l
      /\ \A u \in Task : u # t => lane'[u] = lane[u] /\ group'[u] = group[u]
  BY <1>1, <1>2 DEF RuntimeInv, RuntimeTypeOK
<1>4. queue' \in [Lane -> Seq(Task)] /\ status' \in [Task -> Status] /\ QueuesHold'
  BY <1>1, <1>2, <1>3, EnqueueKeepsQueues DEF RuntimeInv
<1>5. RuntimeTypeOK'
  BY <1>1, <1>3, <1>4 DEF RuntimeInv, RuntimeTypeOK
<1>6. StrandsOwned'
  BY <1>1, <1>2, <1>3 DEF RuntimeInv, StrandsOwned
<1>7. OneTaskPerStrand'
  BY <1>2, <1>1, <1>3 DEF Enqueue, RuntimeInv, RuntimeTypeOK, OneTaskPerStrand
<1>8. DrainedInOrder'
  BY <1>1 DEF RuntimeInv, DrainedInOrder
<1> QED
  BY <1>4, <1>5, <1>6, <1>7, <1>8 DEF RuntimeInv

LEMMA PostRefusedKeeps ==
  ASSUME RuntimeInv, NEW t \in Task, PostRefused(t)
  PROVE  RuntimeInv'
<1>1. /\ UNCHANGED <<accepting, joiner, strandOf, queue, lane, group>>
      /\ status[t] = "new"
      /\ status' \in [Task -> Status] /\ status'[t] = "refused"
      /\ \A u \in Task : u # t => status'[u] = status[u]
  BY DEF PostRefused, RuntimeInv, RuntimeTypeOK, Status
<1>2. RuntimeTypeOK' /\ StrandsOwned'
  BY <1>1 DEF RuntimeInv, RuntimeTypeOK, StrandsOwned
<1>3. QueuesHold'
  <2>1. ASSUME NEW l \in Lane, NEW i \in 1 .. Len(queue[l])
        PROVE  queue[l][i] \in Task /\ queue[l][i] # t
    <3>1. queue[l] \in Seq(Task)
      BY DEF RuntimeInv, RuntimeTypeOK
    <3>2. status[t] # "queued" /\ QueuesHold
      BY <1>1 DEF RuntimeInv
    <3> QED
      BY <3>1, <3>2, NotInQueue
  <2> QED
    BY <1>1, <2>1 DEF RuntimeInv, QueuesHold
<1>4. OneTaskPerStrand'
  BY <1>1 DEF RuntimeInv, OneTaskPerStrand
<1>5. DrainedInOrder'
  BY <1>1 DEF RuntimeInv, DrainedInOrder, PoolIdle, Open
<1> QED
  BY <1>2, <1>3, <1>4, <1>5 DEF RuntimeInv

LEMMA ExpireKeeps ==
  ASSUME RuntimeInv, NEW t \in Task, Expire(t)
  PROVE  RuntimeInv'
<1>1. /\ UNCHANGED <<accepting, joiner, strandOf, lane, group>>
      /\ status[t] = "armed" /\ Enqueue(t, lane[t])
      /\ lane[t] \in Lane /\ lane \in [Task -> Lane]
  BY DEF Expire, RuntimeInv, RuntimeTypeOK
<1>2. queue' \in [Lane -> Seq(Task)] /\ status' \in [Task -> Status] /\ QueuesHold'
  BY <1>1, EnqueueKeepsQueues DEF RuntimeInv
<1>3. RuntimeTypeOK' /\ StrandsOwned'
  BY <1>1, <1>2 DEF RuntimeInv, RuntimeTypeOK, StrandsOwned
<1>4. status'[t] = "queued" /\ \A u \in Task : u # t => status'[u] = status[u]
  BY <1>1 DEF Enqueue, RuntimeInv, RuntimeTypeOK
<1>5. OneTaskPerStrand'
  BY <1>1, <1>4 DEF RuntimeInv, OneTaskPerStrand
<1>6. DrainedInOrder'
  BY <1>1, <1>4 DEF RuntimeInv, DrainedInOrder, PoolIdle, Open
<1> QED
  BY <1>2, <1>3, <1>5, <1>6 DEF RuntimeInv

LEMMA FinishKeeps ==
  ASSUME RuntimeInv, NEW t \in Task, Finish(t)
  PROVE  RuntimeInv'
<1>1. /\ UNCHANGED <<accepting, joiner, strandOf, queue, lane, group>>
      /\ status[t] = "running"
      /\ status' \in [Task -> Status] /\ status'[t] = "done"
      /\ \A u \in Task : u # t => status'[u] = status[u]
  BY DEF Finish, RuntimeInv, RuntimeTypeOK, Status
<1>2. RuntimeTypeOK' /\ StrandsOwned'
  BY <1>1 DEF RuntimeInv, RuntimeTypeOK, StrandsOwned
<1>3. QueuesHold'
  <2>1. ASSUME NEW l \in Lane, NEW i \in 1 .. Len(queue[l])
        PROVE  queue[l][i] \in Task /\ queue[l][i] # t
    <3>1. queue[l] \in Seq(Task)
      BY DEF RuntimeInv, RuntimeTypeOK
    <3>2. status[t] # "queued" /\ QueuesHold
      BY <1>1 DEF RuntimeInv
    <3> QED
      BY <3>1, <3>2, NotInQueue
  <2> QED
    BY <1>1, <2>1 DEF RuntimeInv, QueuesHold
<1>4. OneTaskPerStrand'
  BY <1>1 DEF RuntimeInv, OneTaskPerStrand
<1>5. DrainedInOrder'
  BY <1>1 DEF RuntimeInv, DrainedInOrder, PoolIdle, Open
<1> QED
  BY <1>2, <1>3, <1>4, <1>5 DEF RuntimeInv

\* What a thread takes: the task that has waited longest in a lane.
LEMMA StartFacts ==
  ASSUME RuntimeInv, NEW l \in Lane, Start(l)
  PROVE  /\ queue[l] \in Seq(Task) /\ queue[l] # << >>
         /\ Head(queue[l]) \in Task
         /\ status[Head(queue[l])] = "queued" /\ lane[Head(queue[l])] = l
         /\ status' \in [Task -> Status]
         /\ status'[Head(queue[l])] = "running"
         /\ \A u \in Task : u # Head(queue[l]) => status'[u] = status[u]
         /\ queue' \in [Lane -> Seq(Task)]
         /\ queue'[l] = Tail(queue[l])
         /\ \A k \in Lane : k # l => queue'[k] = queue[k]
         /\ UNCHANGED <<accepting, joiner, strandOf, lane, group>>
<1>1. /\ queue[l] # << >>
      /\ status' = [status EXCEPT ![Head(queue[l])] = "running"]
      /\ queue' = [queue EXCEPT ![l] = Tail(queue[l])]
      /\ UNCHANGED <<accepting, joiner, strandOf, lane, group>>
  BY DEF Start
<1>2. queue[l] \in Seq(Task)
  BY DEF RuntimeInv, RuntimeTypeOK
<1>3. /\ Head(queue[l]) \in Task /\ Head(queue[l]) = queue[l][1]
      /\ 1 \in 1 .. Len(queue[l]) /\ Tail(queue[l]) \in Seq(Task)
  BY <1>1, <1>2, TailFacts
<1>4. status[Head(queue[l])] = "queued" /\ lane[Head(queue[l])] = l
  BY <1>3 DEF RuntimeInv, QueuesHold
<1> QED
  BY <1>1, <1>2, <1>3, <1>4 DEF RuntimeInv, RuntimeTypeOK, Status

LEMMA StartKeeps ==
  ASSUME RuntimeInv, NEW l \in Lane, Start(l)
  PROVE  RuntimeInv'
<1> DEFINE t == Head(queue[l])
<1>1. /\ queue[l] \in Seq(Task) /\ queue[l] # << >>
      /\ t \in Task /\ status[t] = "queued" /\ lane[t] = l
      /\ status' \in [Task -> Status] /\ status'[t] = "running"
      /\ \A u \in Task : u # t => status'[u] = status[u]
      /\ queue' \in [Lane -> Seq(Task)] /\ queue'[l] = Tail(queue[l])
      /\ \A k \in Lane : k # l => queue'[k] = queue[k]
      /\ UNCHANGED <<accepting, joiner, strandOf, lane, group>>
  BY StartFacts
<1>2. t = queue[l][1] /\ 1 \in 1 .. Len(queue[l])
  BY <1>1, TailFacts
<1> HIDE DEF t
<1>3. RuntimeTypeOK' /\ StrandsOwned'
  BY <1>1 DEF RuntimeInv, RuntimeTypeOK, StrandsOwned
<1>4. QueuesHold'
  <2> SUFFICES ASSUME NEW k \in Lane, NEW i \in 1 .. Len(queue'[k])
               PROVE  /\ status'[queue'[k][i]] = "queued"
                      /\ lane'[queue'[k][i]] = k
                      /\ \A m \in 1 .. Len(queue'[k]) :
                           queue'[k][i] = queue'[k][m] => i = m
    BY DEF QueuesHold
  <2>1. CASE k # l
    <3>1. queue'[k] = queue[k] /\ queue[k] \in Seq(Task)
      BY <1>1, <2>1 DEF RuntimeInv, RuntimeTypeOK
    <3>2. queue[k][i] # t
      BY <1>1, <2>1, <3>1 DEF RuntimeInv, QueuesHold
    <3>3. queue[k][i] \in Task
      BY <3>1
    <3> QED
      BY <1>1, <3>1, <3>2, <3>3 DEF RuntimeInv, QueuesHold
  <2>2. CASE k = l
    <3>1. ASSUME NEW m \in 1 .. Len(queue'[l])
          PROVE  m + 1 \in 1 .. Len(queue[l]) /\ queue'[l][m] = queue[l][m + 1]
      BY <1>1, <3>1, TailFacts
    <3>2. /\ i + 1 \in 1 .. Len(queue[l]) /\ queue'[l][i] = queue[l][i + 1]
          /\ i + 1 # 1
      BY <2>2, <3>1
    <3>3. queue[l][i + 1] # t /\ queue[l][i + 1] \in Task
      <4>1. queue[l] \in Seq(Task)
        BY <1>1 DEF RuntimeInv, RuntimeTypeOK
      <4>2. queue[l][i + 1] # queue[l][1]
        BY <1>1, <1>2, <3>2 DEF RuntimeInv, QueuesHold
      <4> QED
        BY <1>2, <3>2, <4>1, <4>2
    <3>4. status'[queue'[l][i]] = "queued" /\ lane'[queue'[l][i]] = l
      BY <1>1, <3>2, <3>3 DEF RuntimeInv, QueuesHold
    <3>5. ASSUME NEW m \in 1 .. Len(queue'[l]), queue'[l][i] = queue'[l][m]
          PROVE  i = m
      <4>1. m + 1 \in 1 .. Len(queue[l]) /\ queue[l][i + 1] = queue[l][m + 1]
        BY <3>1, <3>2, <3>5
      <4>2. i + 1 = m + 1
        BY <3>2, <4>1 DEF RuntimeInv, QueuesHold
      <4> QED
        BY <4>2
    <3> QED
      BY <2>2, <3>4, <3>5
  <2> QED
    BY <2>1, <2>2
<1>5. OneTaskPerStrand'
  <2>1. l \in Strand => \A u \in Task : ~(status[u] = "running" /\ lane[u] = l)
    BY DEF Start, Running
  <2> QED
    BY <1>1, <2>1 DEF RuntimeInv, OneTaskPerStrand
<1>6. DrainedInOrder'
  BY <1>1 DEF RuntimeInv, DrainedInOrder, PoolIdle, Open
<1> QED
  BY <1>3, <1>4, <1>5, <1>6 DEF RuntimeInv

LEMMA JoinKeeps ==
  ASSUME RuntimeInv, Join
  PROVE  RuntimeInv'
<1>1. UNCHANGED <<strandOf, queue, lane, group>>
  BY DEF Join, BeginJoin, CancelTimers, JoinProtocol, JoinBlocking
<1>2. CASE CancelTimers
  <2>1. /\ status' \in [Task -> Status]
        /\ \A u \in Task : status'[u] = IF status[u] = "armed" THEN "dropped"
                                                              ELSE status[u]
        /\ joiner = "cancelling" /\ joiner' = "protocol" /\ accepting' = accepting
    BY <1>2 DEF CancelTimers, RuntimeInv, RuntimeTypeOK, Status
  <2>2. RuntimeTypeOK' /\ StrandsOwned'
    BY <1>1, <2>1 DEF RuntimeInv, RuntimeTypeOK, StrandsOwned
  <2>3. QueuesHold'
    <3>1. \A l \in Lane : \A i \in 1 .. Len(queue[l]) : queue[l][i] \in Task
      BY DEF RuntimeInv, RuntimeTypeOK
    <3> QED
      BY <1>1, <2>1, <3>1 DEF RuntimeInv, QueuesHold
  <2>4. OneTaskPerStrand' /\ DrainedInOrder'
    BY <1>1, <2>1 DEF RuntimeInv, OneTaskPerStrand, DrainedInOrder
  <2> QED
    BY <2>2, <2>3, <2>4 DEF RuntimeInv
<1>3. ASSUME BeginJoin \/ JoinProtocol \/ JoinBlocking
      PROVE  RuntimeInv'
  <2>1. UNCHANGED status
    BY <1>3 DEF BeginJoin, JoinProtocol, JoinBlocking
  <2>2. RuntimeTypeOK'
    BY <1>1, <1>3, <2>1 DEF RuntimeInv, RuntimeTypeOK, BeginJoin, JoinProtocol,
         JoinBlocking
  <2>4. StrandsOwned' /\ QueuesHold' /\ OneTaskPerStrand'
    BY <1>1, <2>1 DEF RuntimeInv, StrandsOwned, QueuesHold, OneTaskPerStrand
  <2>3. DrainedInOrder'
    BY <1>1, <1>3, <2>1 DEF RuntimeInv, DrainedInOrder, PoolIdle, BeginJoin,
         JoinProtocol, JoinBlocking
  <2> QED
    BY <2>2, <2>3, <2>4 DEF RuntimeInv
<1> QED
  BY <1>2, <1>3 DEF Join

LEMMA NextRuntimeInv ==
  ASSUME RuntimeInv, [RuntimeNext]_runtime
  PROVE  RuntimeInv'
<1>1. CASE UNCHANGED runtime
  BY <1>1 DEF RuntimeInv, RuntimeTypeOK, StrandsOwned, QueuesHold, OneTaskPerStrand,
       DrainedInOrder, PoolIdle, runtime
<1>2. ASSUME NEW t \in Task, Post(t)
      PROVE  RuntimeInv'
  BY <1>2, PostRobotKeeps, PostRobotAfterKeeps, PostPoolKeeps, PostRefusedKeeps
     DEF Post, PostParallel, PostBlocking
<1> QED
  BY <1>1, <1>2, ExpireKeeps, FinishKeeps, StartKeeps, JoinKeeps DEF RuntimeNext

LEMMA RuntimeInvariant == RuntimeSpec => []RuntimeInv
<1>1. RuntimeInv /\ [RuntimeNext]_runtime => RuntimeInv'
  BY NextRuntimeInv
<1> QED
  BY InitRuntimeInv, <1>1, PTL DEF RuntimeSpec

-----------------------------------------------------------------------------
(* What it implies *)

\* Every lane a queue names, every task bound to a lane, is what it should be.
THEOREM RuntimeTypes == RuntimeSpec => []RuntimeTypeOK
<1>1. RuntimeInv => RuntimeTypeOK
  BY DEF RuntimeInv
<1> QED
  BY RuntimeInvariant, <1>1, PTL

LEMMA OneTask == RuntimeInv => OneTaskPerRobot
BY DEF RuntimeInv, RuntimeTypeOK, StrandsOwned, OneTaskPerStrand, OneTaskPerRobot

\* "Tasks for one robot are serialized", whichever threads posted them, with
\* timers, and while join() drains the pools.
THEOREM RobotsSerialized == RuntimeSpec => []OneTaskPerRobot
BY RuntimeInvariant, OneTask, PTL

\* When join() has returned, no task that was accepted is still to run.
THEOREM ShutdownDrains == RuntimeSpec => []Drained
<1>1. RuntimeInv => Drained
  BY DEF RuntimeInv, RuntimeTypeOK, DrainedInOrder, PoolIdle, Drained
<1> QED
  BY RuntimeInvariant, <1>1, PTL

-----------------------------------------------------------------------------
(* The refinement: a queue per robot *)

LEMMA InitMaps == RuntimeInit => Queues!Init
BY DEF RuntimeInit, Queues!Init, Waiting, Active

\* Only tasks of robots show in Active, and only their running.
LEMMA ActiveUnchanged ==
  ASSUME \A u \in Task : \A q \in Robot :
           (status'[u] = "running" /\ group'[u] = q)
             <=> (status[u] = "running" /\ group[u] = q)
  PROVE  Active' = Active
BY DEF Active

LEMMA WaitingUnchanged ==
  ASSUME RuntimeInv, UNCHANGED strandOf, \A s \in Strand : queue'[s] = queue[s]
  PROVE  Waiting' = Waiting
BY DEF RuntimeInv, RuntimeTypeOK, Waiting

\* Binding a robot to a strand changes nothing in what waits for the others,
\* nor for that robot: a strand that is new has an empty queue.
LEMMA BindMaps ==
  ASSUME RuntimeInv, NEW r \in Robot, NEW s \in StrandFor(r), Bind(r, s)
  PROVE  /\ Waiting[r] = queue[s] /\ s \in Strand
         /\ strandOf'[r] = s /\ s # NoStrand
         /\ \A q \in Robot : q # r =>
              strandOf'[q] = strandOf[q] /\ strandOf[q] # s
<1>1. /\ s \in Strand /\ s # NoStrand
      /\ \A q \in Robot : strandOf[q] = s => q = r
      /\ strandOf[r] # NoStrand => s = strandOf[r]
      /\ strandOf[r] = NoStrand => \A t \in Task : lane[t] # s
  BY StrandForFacts DEF RuntimeInv
<1>2. strandOf[r] = NoStrand => queue[s] = << >>
  BY <1>1, UnboundQueue DEF RuntimeInv
<1>3. Waiting[r] = queue[s]
  BY <1>1, <1>2 DEF Waiting
<1> QED
  BY <1>1, <1>3 DEF Bind, RuntimeInv, RuntimeTypeOK

LEMMA PostRobotMaps ==
  ASSUME RuntimeInv, NEW r \in Robot, NEW t \in Task, PostRobot(r, t)
  PROVE  Queues!Enter(r, t)
<1>1. PICK s \in StrandFor(r) : Bind(r, s) /\ Submit(t, s, r)
  BY DEF PostRobot
<1>2. /\ Waiting[r] = queue[s] /\ s \in Lane
      /\ strandOf'[r] = s /\ s # NoStrand
      /\ \A q \in Robot : q # r => strandOf'[q] = strandOf[q] /\ strandOf[q] # s
  BY <1>1, BindMaps, Lanes
<1>3. /\ queue'[s] = Append(queue[s], t)
      /\ \A k \in Lane : k # s => queue'[k] = queue[k]
      /\ status[t] = "new" /\ status'[t] = "queued"
      /\ \A u \in Task : u # t => status'[u] = status[u] /\ group'[u] = group[u]
  BY <1>1, <1>2 DEF Submit, Enqueue, RuntimeInv, RuntimeTypeOK
<1>4. \A q \in Robot : Waiting'[q] = IF q = r THEN Append(Waiting[r], t) ELSE Waiting[q]
  <2>1. Waiting'[r] = Append(Waiting[r], t)
    BY <1>2, <1>3 DEF Waiting
  <2>2. ASSUME NEW q \in Robot, q # r
        PROVE  Waiting'[q] = Waiting[q]
    BY <1>2, <1>3, <2>2, Lanes DEF Waiting, RuntimeInv, RuntimeTypeOK
  <2> QED
    BY <2>1, <2>2
<1>5. Waiting' = [Waiting EXCEPT ![r] = Append(Waiting[r], t)]
  BY <1>4 DEF Waiting
<1>6. Active' = Active
  BY <1>3, ActiveUnchanged
<1> QED
  BY <1>5, <1>6 DEF Queues!Enter

LEMMA PostRobotAfterMaps ==
  ASSUME RuntimeInv, NEW r \in Robot, NEW t \in Task, PostRobotAfter(r, t)
  PROVE  UNCHANGED Queues!work
<1>1. PICK s \in StrandFor(r) : Bind(r, s) /\ lane' = [lane EXCEPT ![t] = s]
  BY DEF PostRobotAfter
<1>2. /\ Waiting[r] = queue[s]
      /\ strandOf'[r] = s /\ s # NoStrand
      /\ \A q \in Robot : q # r => strandOf'[q] = strandOf[q]
  BY <1>1, BindMaps
<1>3. /\ queue' = queue /\ status[t] = "new" /\ status'[t] = "armed"
      /\ \A u \in Task : u # t => status'[u] = status[u] /\ group'[u] = group[u]
  BY DEF PostRobotAfter, RuntimeInv, RuntimeTypeOK
<1>4. \A q \in Robot : Waiting'[q] = Waiting[q]
  <2>1. Waiting'[r] = Waiting[r]
    BY <1>2, <1>3 DEF Waiting
  <2>2. ASSUME NEW q \in Robot, q # r
        PROVE  Waiting'[q] = Waiting[q]
    BY <1>2, <1>3, <2>2 DEF Waiting
  <2> QED
    BY <2>1, <2>2
<1>5. Waiting' = Waiting
  BY <1>4 DEF Waiting
<1>6. Active' = Active
  BY <1>3, ActiveUnchanged
<1> QED
  BY <1>5, <1>6 DEF Queues!work

LEMMA PostPoolMaps ==
  ASSUME RuntimeInv, NEW t \in Task, NEW l \in {"parallel", "blocking"}, PostPool(t, l)
  PROVE  UNCHANGED Queues!work
<1>1. /\ UNCHANGED strandOf
      /\ status[t] = "new" /\ status'[t] = "queued"
      /\ \A u \in Task : u # t => status'[u] = status[u] /\ group'[u] = group[u]
      /\ \A s \in Strand : queue'[s] = queue[s]
  BY Lanes DEF PostPool, Submit, Enqueue, RuntimeInv, RuntimeTypeOK
<1> QED
  BY <1>1, WaitingUnchanged, ActiveUnchanged DEF Queues!work

\* A timer that fires puts its task behind what waits for its robot.
LEMMA ExpireMaps ==
  ASSUME RuntimeInv, NEW t \in Task, Expire(t)
  PROVE  [Queues!Next]_(Queues!work)
<1>1. /\ UNCHANGED <<strandOf, group>>
      /\ status[t] = "armed" /\ status'[t] = "queued"
      /\ \A u \in Task : u # t => status'[u] = status[u]
      /\ lane[t] \in Lane
      /\ queue'[lane[t]] = Append(queue[lane[t]], t)
      /\ \A k \in Lane : k # lane[t] => queue'[k] = queue[k]
  BY DEF Expire, Enqueue, RuntimeInv, RuntimeTypeOK
<1>2. Active' = Active
  BY <1>1, ActiveUnchanged
<1>3. CASE lane[t] \in Strand
  <2>1. /\ group[t] \in Robot /\ strandOf[group[t]] = lane[t]
        /\ \A q \in Robot : strandOf[q] = lane[t] => q = group[t]
    BY <1>3, Lanes DEF RuntimeInv, StrandsOwned
  <2>2. \A q \in Robot : Waiting'[q] =
          IF q = group[t] THEN Append(Waiting[group[t]], t) ELSE Waiting[q]
    BY <1>1, <1>3, <2>1, Lanes DEF Waiting, RuntimeInv, RuntimeTypeOK
  <2>3. Waiting' = [Waiting EXCEPT ![group[t]] = Append(Waiting[group[t]], t)]
    BY <2>2 DEF Waiting
  <2> QED
    BY <1>2, <2>1, <2>3 DEF Queues!Next, Queues!Enter
<1>4. CASE lane[t] \notin Strand
  BY <1>1, <1>2, <1>4, Lanes, WaitingUnchanged DEF Queues!work
<1> QED
  BY <1>3, <1>4

\* The thread that starts a task takes the first of its robot, which has none
\* running.
LEMMA StartMaps ==
  ASSUME RuntimeInv, NEW l \in Lane, Start(l)
  PROVE  [Queues!Next]_(Queues!work)
<1> DEFINE t == Head(queue[l])
<1>1. /\ queue[l] # << >>
      /\ t \in Task /\ status[t] = "queued" /\ lane[t] = l
      /\ status'[t] = "running" /\ \A u \in Task : u # t => status'[u] = status[u]
      /\ queue'[l] = Tail(queue[l])
      /\ \A k \in Lane : k # l => queue'[k] = queue[k]
      /\ UNCHANGED <<strandOf, lane, group>>
  BY StartFacts
<1>2. l \in Strand => \A u \in Task : ~(status[u] = "running" /\ lane[u] = l)
  BY DEF Start, Running
<1>3. CASE l \in Strand
  <2> DEFINE r == group[t]
  <2>1. /\ r \in Robot /\ strandOf[r] = l /\ strandOf[r] # NoStrand
        /\ \A q \in Robot : strandOf[q] = l => q = r
        /\ \A u \in Task : group[u] = r => lane[u] = l
    BY <1>1, <1>3, Lanes DEF RuntimeInv, StrandsOwned
  <2>2. Waiting[r] = queue[l] /\ Head(Waiting[r]) = t
    BY <2>1 DEF Waiting
  <2> HIDE DEF r
  <2>3. Waiting' = [Waiting EXCEPT ![r] = Tail(Waiting[r])]
    <3>1. \A q \in Robot : Waiting'[q] = IF q = r THEN Tail(Waiting[r]) ELSE Waiting[q]
      BY <1>1, <2>1, <2>2, Lanes DEF Waiting, RuntimeInv, RuntimeTypeOK
    <3> QED
      BY <3>1 DEF Waiting
  <2>4. Active[r] = {}
    BY <1>2, <1>3, <2>1 DEF Active
  <2>5. Active' = [Active EXCEPT ![r] = {t}]
    <3> HIDE DEF t
    <3>1. group[t] = r
      BY DEF r, t
    <3>2. \A q \in Robot : Active'[q] = IF q = r THEN {t} ELSE Active[q]
      <4>1. ASSUME NEW q \in Robot, q = r
            PROVE  Active'[q] = {t}
        BY <1>1, <1>2, <1>3, <2>1, <3>1, <4>1 DEF Active
      <4>2. ASSUME NEW q \in Robot, q # r
            PROVE  Active'[q] = Active[q]
        BY <1>1, <3>1, <4>2 DEF Active
      <4> QED
        BY <4>1, <4>2
    <3> QED
      BY <3>2 DEF Active
  <2>6. Queues!Begin(r)
    BY <1>1, <2>2, <2>3, <2>4, <2>5 DEF Queues!Begin
  <2> QED
    BY <2>1, <2>6 DEF Queues!Next
<1>4. CASE l \notin Strand
  <2>1. group[t] \notin Robot
    BY <1>1, <1>4 DEF RuntimeInv, RuntimeTypeOK, StrandsOwned
  <2>2. \A s \in Strand : queue'[s] = queue[s]
    BY <1>1, <1>4, Lanes
  <2> HIDE DEF t
  <2>3. Active' = Active
    BY <1>1, <2>1, ActiveUnchanged
  <2> QED
    BY <1>1, <2>2, <2>3, WaitingUnchanged DEF Queues!work
<1> QED
  BY <1>3, <1>4

LEMMA FinishMaps ==
  ASSUME RuntimeInv, NEW t \in Task, Finish(t)
  PROVE  [Queues!Next]_(Queues!work)
<1>1. /\ UNCHANGED <<strandOf, queue, lane, group>>
      /\ status[t] = "running" /\ status'[t] = "done"
      /\ \A u \in Task : u # t => status'[u] = status[u]
  BY DEF Finish, RuntimeInv, RuntimeTypeOK
<1>2. Waiting' = Waiting
  BY <1>1, WaitingUnchanged
<1>3. CASE group[t] \in Robot
  <2> DEFINE r == group[t]
  <2>1. \A u \in Task : status[u] = "running" /\ group[u] = r => u = t
    BY <1>1, <1>3, OneTask DEF OneTaskPerRobot
  <2>2. Active[r] # {}
    BY <1>1, <1>3 DEF Active
  <2>3. \A q \in Robot : Active'[q] = IF q = r THEN {} ELSE Active[q]
    <3>1. Active'[r] = {}
      BY <1>1, <1>3, <2>1 DEF Active
    <3>2. ASSUME NEW q \in Robot, q # r
          PROVE  Active'[q] = Active[q]
      BY <1>1, <3>2 DEF Active
    <3> QED
      BY <3>1, <3>2
  <2>4. Active' = [Active EXCEPT ![r] = {}]
    BY <2>3 DEF Active
  <2>5. Queues!End(r)
    BY <1>2, <2>2, <2>4 DEF Queues!End
  <2> QED
    BY <1>3, <2>5 DEF Queues!Next
<1>4. CASE group[t] \notin Robot
  <2>1. Active' = Active
    BY <1>1, <1>4, ActiveUnchanged
  <2> QED
    BY <1>2, <2>1 DEF Queues!work
<1> QED
  BY <1>3, <1>4

LEMMA OthersMap ==
  ASSUME RuntimeInv, Join \/ (\E t \in Task : PostRefused(t)) \/ UNCHANGED runtime
  PROVE  UNCHANGED Queues!work
<1>1. UNCHANGED <<strandOf, queue, group>>
  BY DEF Join, BeginJoin, CancelTimers, JoinProtocol, JoinBlocking, PostRefused, runtime
<1>2. \A u \in Task : status'[u] = "running" <=> status[u] = "running"
  BY DEF Join, BeginJoin, CancelTimers, JoinProtocol, JoinBlocking, PostRefused,
       runtime, RuntimeInv, RuntimeTypeOK
<1> QED
  BY <1>1, <1>2, WaitingUnchanged, ActiveUnchanged DEF Queues!work

LEMMA NextMaps ==
  ASSUME RuntimeInv, [RuntimeNext]_runtime
  PROVE  [Queues!Next]_(Queues!work)
<1>1. ASSUME NEW t \in Task, Post(t)
      PROVE  [Queues!Next]_(Queues!work)
  <2>1. ASSUME NEW r \in Robot, PostRobot(r, t)
        PROVE  Queues!Next
    BY <2>1, PostRobotMaps DEF Queues!Next
  <2>2. PostParallel(t) \/ PostBlocking(t) => UNCHANGED Queues!work
    BY PostPoolMaps DEF PostParallel, PostBlocking
  <2> QED
    BY <1>1, <2>1, <2>2, PostRobotAfterMaps, OthersMap DEF Post
<1> QED
  BY <1>1, ExpireMaps, StartMaps, FinishMaps, OthersMap DEF RuntimeNext

\* The runtime implements a queue per robot, served one task at a time in the
\* order its tasks became due, for any number of robots, strands and threads.
THEOREM RuntimeImplementsQueues == RuntimeSpec => RobotQueuesSpec
<1>1. RuntimeInv /\ [RuntimeNext]_runtime => [Queues!Next]_(Queues!work)
  BY NextMaps
<1> QED
  BY RuntimeInvariant, InitMaps, <1>1, PTL DEF RuntimeSpec, RobotQueuesSpec, Queues!Spec

-----------------------------------------------------------------------------
(* The SSH executor *)

Result == [step : Nat, attempt : Nat, ok : BOOLEAN]
Error == {"none", "invalid request", "startup profile timeout",
          "startup step failed", "readiness check failed"}
JobRecord == [at : Nat, attempt : Nat, elapsed : Int, ended : BOOLEAN,
              success : BOOLEAN, timed_out : BOOLEAN, error : Error,
              results : Seq(Result), answers : Nat]

JobTypeOK == job \in [Job -> JobRecord]

\* Only a valid request is posted and run.
OnlyValid ==
  \A j \in Job :
    status[j] # "new" \/ job[j].results # << >> => ValidRequest(Profile[j])

\* Where a job is in its plan.
Placed(j) ==
  ValidRequest(Profile[j]) =>
    /\ job[j].at \in 1 .. Len(Plan(j))
    /\ job[j].attempt \in 1 .. MaxAttempts(j, job[j].at)

\* The results are the attempts made, in order; those of the current step come
\* before the current attempt.
Ordered(j) ==
  LET h == job[j].results IN
  /\ \A k \in 1 .. Len(h) :
       /\ h[k].step \in 1 .. job[j].at
       /\ h[k].attempt \in 1 .. MaxAttempts(j, h[k].step)
       /\ ~job[j].ended /\ h[k].step = job[j].at => h[k].attempt < job[j].attempt
  /\ \A k, m \in 1 .. Len(h) : k < m =>
       \/ h[k].step < h[m].step
       \/ h[k].step = h[m].step /\ h[k].attempt < h[m].attempt

\* A job leaves a step behind only with a result that is ok.
Earned(j) ==
  LET h == job[j].results IN
  /\ \A k \in 1 .. Len(h) - 1 : ~h[k].ok => h[k + 1].step = h[k].step
  /\ ~job[j].ended /\ h # << >> /\ ~h[Len(h)].ok => h[Len(h)].step = job[j].at
  /\ \A i \in 1 .. job[j].at - 1 : \E k \in 1 .. Len(h) : h[k].step = i /\ h[k].ok
  /\ job[j].success =>
       /\ job[j].ended
       /\ job[j].at = Len(Plan(j))
       /\ \E k \in 1 .. Len(h) : h[k].step = job[j].at /\ h[k].ok

InTime(j) == ValidRequest(Profile[j]) => job[j].elapsed <= Profile[j].timeout + Grace

JobInv(j) == Placed(j) /\ Ordered(j) /\ Earned(j) /\ InTime(j)

IInv == JobTypeOK /\ OnlyValid /\ \A j \in Job : JobInv(j)

-----------------------------------------------------------------------------
(* The runtime under the executor *)

LEMMA StepsOfRuntime ==
  ASSUME [Next]_ssh
  PROVE  [RuntimeNext]_runtime
<1>1. ASSUME NEW j \in Job, Execute(j)
      PROVE  RuntimeNext
  BY <1>1, SshAssumption DEF Execute, RuntimeNext, Post
<1>2. ASSUME NEW j \in Job, ExecuteRefused(j)
      PROVE  UNCHANGED runtime
  BY <1>2 DEF ExecuteRefused
<1>3. ASSUME NEW j \in Job, JobStep(j)
      PROVE  [RuntimeNext]_runtime
  BY <1>3, SshAssumption DEF JobStep, Attempt, TimeOut, Answer, RuntimeNext
<1>4. ASSUME NEW t \in Task \ Job, OtherTask(t)
      PROVE  RuntimeNext
  BY <1>4 DEF OtherTask, RuntimeNext
<1>5. ASSUME Pools
      PROVE  RuntimeNext
  BY <1>5 DEF Pools, RuntimeNext
<1>6. ASSUME UNCHANGED ssh
      PROVE  UNCHANGED runtime
  BY <1>6 DEF ssh
<1> QED
  BY <1>1, <1>2, <1>3, <1>4, <1>5, <1>6 DEF Next

\* Jobs are tasks like any other: what holds of the runtime, its serialized
\* robots and its shutdown, holds while SSH jobs occupy the blocking pool.
THEOREM JobsOnRuntime == Spec => RuntimeSpec
<1>1. Init => RuntimeInit
  BY DEF Init
<1>2. [Next]_ssh => [RuntimeNext]_runtime
  BY StepsOfRuntime
<1> QED
  BY <1>1, <1>2, PTL DEF Spec, RuntimeSpec

-----------------------------------------------------------------------------
(* Profiles *)

\* The plan of a valid request is its steps, then its checks, which start
\* nothing that outlives them.
LEMMA PlanFacts ==
  ASSUME NEW j \in Job, ValidRequest(Profile[j])
  PROVE  /\ Len(Plan(j)) \in Nat /\ 1 \in 1 .. Len(Plan(j))
         /\ Profile[j].timeout \in Nat
         /\ \A i \in 1 .. Len(Plan(j)) :
              /\ Plan(j)[i] \in StepRecord
              /\ Plan(j)[i].timeout \in StepTimeouts
              /\ Plan(j)[i].retries \in StepRetries
              /\ i > Len(Profile[j].steps) => Plan(j)[i].mode # "detached"
<1> DEFINE s == Profile[j].steps  c == Profile[j].checks
<1>1. s \in Seq(StepRecord) /\ c \in Seq(StepRecord)
  BY ProfileAssumption
<1>2. s # << >> /\ Profile[j].timeout \in Nat
  BY SshAssumption DEF ValidRequest
<1>3. \A i \in 1 .. Len(s) : s[i].timeout \in StepTimeouts /\ s[i].retries \in StepRetries
  BY <1>1 DEF ValidRequest, ValidStep
<1>4. \A i \in 1 .. Len(c) : /\ c[i].timeout \in StepTimeouts
                             /\ c[i].retries \in StepRetries
                             /\ c[i].mode # "detached"
  BY <1>1 DEF ValidRequest, ValidStep
<1>5. Plan(j) = s \o c
  BY DEF Plan
<1> HIDE DEF s, c
<1>6. /\ Len(s \o c) = Len(s) + Len(c)
      /\ Len(s) \in Nat \ {0} /\ Len(c) \in Nat
      /\ \A i \in 1 .. Len(s) : (s \o c)[i] = s[i] /\ s[i] \in StepRecord
      /\ \A i \in Len(s) + 1 .. Len(s) + Len(c) :
           /\ i - Len(s) \in 1 .. Len(c)
           /\ (s \o c)[i] = c[i - Len(s)] /\ c[i - Len(s)] \in StepRecord
  BY <1>1, <1>2
<1>7. ASSUME NEW i \in 1 .. Len(Plan(j))
      PROVE  /\ Plan(j)[i] \in StepRecord
             /\ Plan(j)[i].timeout \in StepTimeouts
             /\ Plan(j)[i].retries \in StepRetries
             /\ i > Len(s) => Plan(j)[i].mode # "detached"
  <2>1. CASE i <= Len(s)
    <3>1. i \in 1 .. Len(s)
      BY <1>5, <1>6, <2>1
    <3> QED
      BY <1>3, <1>5, <1>6, <2>1, <3>1
  <2>2. CASE i > Len(s)
    <3>1. i \in Len(s) + 1 .. Len(s) + Len(c)
      BY <1>5, <1>6, <2>2
    <3> QED
      BY <1>4, <1>5, <1>6, <3>1
  <2> QED
    BY <1>5, <1>6, <2>1, <2>2
<1> QED
  BY <1>2, <1>5, <1>6, <1>7 DEF s

LEMMA StepFacts ==
  ASSUME NEW j \in Job, ValidRequest(Profile[j]), NEW i \in 1 .. Len(Plan(j))
  PROVE  /\ Plan(j)[i].timeout \in Nat \ {0}
         /\ Plan(j)[i].interval \in Nat
         /\ MaxAttempts(j, i) \in Nat \ {0}
         /\ i <= Len(Profile[j].steps) => MaxAttempts(j, i) = 1
<1>1. /\ Plan(j)[i] \in StepRecord
      /\ Plan(j)[i].timeout \in StepTimeouts /\ Plan(j)[i].retries \in StepRetries
  BY PlanFacts
<1>2. Plan(j)[i].retries \in Nat /\ Plan(j)[i].timeout \in Nat \ {0}
  BY <1>1, SshAssumption
<1>3. Len(Profile[j].steps) \in Nat
  BY ProfileAssumption
<1> QED
  BY <1>1, <1>2, <1>3 DEF StepRecord, MaxAttempts, IsCheck

-----------------------------------------------------------------------------
(* One attempt *)

\* What an attempt does to a job: it passes the step or the profile, or fails
\* and is repeated, or ends the job; its result is recorded in each case.
Outcome(j, p, new) ==
  \/ /\ p.ok /\ job[j].at < Len(Plan(j))
     /\ new.at = job[j].at + 1 /\ new.attempt = 1
     /\ ~new.ended /\ new.success = job[j].success
  \/ /\ p.ok /\ job[j].at = Len(Plan(j))
     /\ new.at = job[j].at /\ new.attempt = job[j].attempt
     /\ new.ended /\ new.success
  \/ /\ ~p.ok /\ job[j].attempt + 1 \in 1 .. MaxAttempts(j, job[j].at)
     /\ new.at = job[j].at /\ new.attempt = job[j].attempt + 1
     /\ ~new.ended /\ new.success = job[j].success
  \/ /\ ~p.ok
     /\ new.at = job[j].at /\ new.attempt = job[j].attempt
     /\ new.ended /\ new.success = job[j].success

LEMMA AdvancedRecord ==
  ASSUME NEW rec \in JobRecord, NEW a \in Nat
  PROVE  [rec EXCEPT !.at = a, !.attempt = 1] \in JobRecord
BY DEF JobRecord

LEMMA TimedOutRecord ==
  ASSUME NEW rec \in JobRecord, NEW e \in Error
  PROVE  [rec EXCEPT !.timed_out = TRUE, !.error = e, !.ended = TRUE] \in JobRecord
BY DEF JobRecord

LEMMA AnsweredRecord ==
  ASSUME NEW rec \in JobRecord, NEW n \in Nat
  PROVE  [rec EXCEPT !.answers = n] \in JobRecord
BY DEF JobRecord

LEMMA FailedRecord ==
  ASSUME NEW rec \in JobRecord, NEW e \in Error
  PROVE  [rec EXCEPT !.ended = TRUE, !.error = e] \in JobRecord
BY DEF JobRecord

Entry(j, p) == [step |-> job[j].at, attempt |-> job[j].attempt, ok |-> p.ok]

LEMMA AttemptFacts ==
  ASSUME IInv, NEW j \in Job, Attempt(j)
  PROVE  \E p \in Outcomes(j) :
           /\ p.ok \in BOOLEAN
           /\ job' = [job EXCEPT ![j] = job'[j]]
           /\ job'[j] \in JobRecord
           /\ job'[j].results = Append(job[j].results, Entry(j, p))
           /\ Outcome(j, p, job'[j])
           /\ job'[j].elapsed <= Profile[j].timeout + Grace
<1> DEFINE J == job[j]  i == J.at  left == Left(j)
<1>1. ValidRequest(Profile[j]) /\ ~J.ended /\ left > 0
  BY DEF Attempt, Runs, IInv, OnlyValid
<1>2. /\ J \in JobRecord /\ i \in 1 .. Len(Plan(j))
      /\ J.attempt \in 1 .. MaxAttempts(j, i)
      /\ left = Profile[j].timeout - J.elapsed
  BY <1>1 DEF IInv, JobTypeOK, JobInv, Placed, Left
<1>3. /\ Profile[j].timeout \in Nat /\ Grace \in Nat
      /\ Plan(j)[i].timeout \in Nat \ {0} /\ Plan(j)[i].interval \in Nat
      /\ MaxAttempts(j, i) \in Nat /\ Len(Plan(j)) \in Nat
  BY <1>1, <1>2, PlanFacts, StepFacts, SshAssumption
<1>4. PICK p \in Outcomes(j) :
        job' = [job EXCEPT ![j] = IF p.ok THEN Passed(j, Recorded(j, p))
                                          ELSE Retried(j, Recorded(j, p))]
  BY DEF Attempt
<1> DEFINE rec == Recorded(j, p)
<1>5. /\ p.ok \in BOOLEAN /\ p.timed_out \in BOOLEAN /\ p.time \in Nat
      /\ p.time <= left + Grace
  <2>1. ExecutionTimeout(j) \in Nat /\ ExecutionTimeout(j) <= left
    BY <1>1, <1>2, <1>3 DEF ExecutionTimeout, StepTime, Min2, Left, JobRecord
  <2> DEFINE time == ExecutionTimeout(j)
  <2> HIDE DEF time
  <2>2. \/ \E b \in BOOLEAN : \E d \in 0 .. time - 1 :
             p = [ok |-> b, timed_out |-> FALSE, time |-> d]
        \/ p = [ok |-> FALSE, timed_out |-> TRUE, time |-> time + Grace]
    BY DEF Outcomes, time
  <2>3. time \in Nat /\ time <= left /\ left \in Int
    BY <1>2, <1>3, <2>1 DEF time, JobRecord
  <2>4. CASE p = [ok |-> FALSE, timed_out |-> TRUE, time |-> time + Grace]
    BY <1>3, <2>3, <2>4
  <2>5. ASSUME NEW b \in BOOLEAN, NEW d \in 0 .. time - 1,
               p = [ok |-> b, timed_out |-> FALSE, time |-> d]
        PROVE  /\ p.ok \in BOOLEAN /\ p.timed_out \in BOOLEAN /\ p.time \in Nat
               /\ p.time <= left + Grace
    BY <1>3, <2>3, <2>5
  <2> QED
    BY <2>2, <2>4, <2>5
<1>6. Entry(j, p) \in Result
  BY <1>2, <1>3, <1>5 DEF Entry, Result, JobRecord
<1>7. /\ rec \in JobRecord
      /\ rec.results = Append(J.results, Entry(j, p))
      /\ rec.at = i /\ rec.attempt = J.attempt
      /\ rec.ended = J.ended /\ rec.success = J.success
      /\ rec.elapsed = J.elapsed + p.time
  <2>1. PICK r \in Seq(Result), e \in Int, b \in BOOLEAN :
          /\ rec = [J EXCEPT !.results = r, !.elapsed = e, !.timed_out = b]
          /\ r = Append(J.results, Entry(j, p)) /\ e = J.elapsed + p.time
    <3>1. /\ Append(J.results, Entry(j, p)) \in Seq(Result)
          /\ J.elapsed + p.time \in Int
      BY <1>2, <1>5, <1>6 DEF JobRecord
    <3>2. (J.timed_out \/ p.timed_out) \in BOOLEAN
      OBVIOUS
    <3> QED
      BY <3>1, <3>2 DEF Recorded, Entry
  <2> HIDE DEF rec
  <2> QED
    BY <1>2, <2>1 DEF JobRecord
<1> HIDE DEF rec
<1>10. /\ rec.elapsed \in Int /\ Profile[j].timeout - rec.elapsed \in Int
       /\ rec.elapsed <= Profile[j].timeout + Grace
  <2>1. J.elapsed \in Int
    BY <1>2 DEF JobRecord
  <2>2. left = Profile[j].timeout - J.elapsed
    BY <1>2
  <2>3. Profile[j].timeout \in Nat /\ Grace \in Nat
    BY <1>3
  <2>4. p.time \in Nat /\ p.time <= left + Grace
    BY <1>5
  <2>5. rec.elapsed = J.elapsed + p.time
    BY <1>7
  <2> HIDE DEF J, left
  <2> QED
    BY <2>1, <2>2, <2>3, <2>4, <2>5
<1>11. rec \in JobRecord
  BY <1>7
<1>8. CASE p.ok
  <2>1. job'[j] = Passed(j, rec) /\ job' = [job EXCEPT ![j] = job'[j]]
    BY <1>4, <1>8 DEF IInv, JobTypeOK, rec
  <2>2. /\ Passed(j, rec) \in JobRecord
        /\ Passed(j, rec).results = rec.results
        /\ Passed(j, rec).elapsed = rec.elapsed
        /\ Outcome(j, p, Passed(j, rec))
    <3>1. CASE i = Len(Plan(j))
      BY <1>7, <1>8, <3>1 DEF Passed, JobRecord, Outcome
    <3>2. CASE i # Len(Plan(j))
      <4>1. Passed(j, rec) = [rec EXCEPT !.at = i + 1, !.attempt = 1]
        BY <1>7, <3>2 DEF Passed
      <4>2. i + 1 \in Nat /\ i < Len(Plan(j))
        BY <1>2, <1>3, <3>2
      <4> DEFINE new == Passed(j, rec)
      <4>3. /\ new \in JobRecord
            /\ new.results = rec.results /\ new.elapsed = rec.elapsed
            /\ new.at = i + 1 /\ new.attempt = 1
            /\ new.ended = rec.ended /\ new.success = rec.success
        <5>1. [rec EXCEPT !.at = i + 1, !.attempt = 1] \in JobRecord
          BY <1>11, <4>2, AdvancedRecord
        <5> QED
          BY <1>11, <4>1, <5>1 DEF JobRecord
      <4> HIDE DEF new
      <4>4. Outcome(j, p, new)
        BY <1>1, <1>7, <1>8, <4>2, <4>3 DEF Outcome
      <4> QED
        BY <4>3, <4>4 DEF new
    <3> QED
      BY <3>1, <3>2
  <2> QED
    BY <1>5, <1>7, <1>10, <2>1, <2>2
<1>9. CASE ~p.ok
  <2> DEFINE over == Profile[j].timeout - rec.elapsed
  <2>1. job'[j] = Retried(j, rec) /\ job' = [job EXCEPT ![j] = job'[j]]
    BY <1>4, <1>9 DEF IInv, JobTypeOK, rec
  <2>2. over \in Int
    BY <1>10
  <2>3. /\ Retried(j, rec) \in JobRecord
        /\ Retried(j, rec).results = rec.results
        /\ Retried(j, rec).elapsed <= Profile[j].timeout + Grace
        /\ Outcome(j, p, Retried(j, rec))
    <3>1. CASE over <= 0
      <4>1. Retried(j, rec) = [rec EXCEPT !.timed_out = TRUE,
                !.error = "startup profile timeout", !.ended = TRUE]
        BY <3>1 DEF Retried, Abandoned
      <4> DEFINE new == Retried(j, rec)
      <4>2. /\ new \in JobRecord
            /\ new.results = rec.results /\ new.elapsed = rec.elapsed
            /\ new.at = rec.at /\ new.attempt = rec.attempt
            /\ new.ended /\ new.success = rec.success
        <5>1. "startup profile timeout" \in Error
          BY DEF Error
        <5>2. Retried(j, rec) \in JobRecord
          BY <1>11, <4>1, <5>1, TimedOutRecord
        <5> QED
          BY <1>11, <4>1, <5>2 DEF JobRecord
      <4> HIDE DEF new
      <4>3. Outcome(j, p, new)
        BY <1>7, <1>9, <4>2 DEF Outcome
      <4> QED
        BY <1>10, <4>2, <4>3 DEF new
    <3>2. CASE over > 0 /\ J.attempt < MaxAttempts(j, i)
      <4> DEFINE pause == Min2(Plan(j)[i].interval, over)
      <4>1. pause \in Nat /\ pause <= over
        BY <1>3, <2>2, <3>2 DEF Min2
      <4>2. Retried(j, rec) = [rec EXCEPT !.attempt = J.attempt + 1,
                                          !.elapsed = rec.elapsed + pause]
        BY <1>7, <2>2, <3>2 DEF Retried
      <4> HIDE DEF pause
      <4>3. rec.elapsed + pause <= Profile[j].timeout + Grace
        BY <1>3, <1>10, <4>1
      <4>4. J.attempt + 1 \in 1 .. MaxAttempts(j, i)
        BY <1>2, <1>3, <3>2
      <4> DEFINE new == Retried(j, rec)
      <4>5. /\ new \in JobRecord
            /\ new.results = rec.results /\ new.elapsed = rec.elapsed + pause
            /\ new.at = rec.at /\ new.attempt = J.attempt + 1
            /\ new.ended = rec.ended /\ new.success = rec.success
        <5>1. J.attempt + 1 \in Nat /\ rec.elapsed + pause \in Int
          BY <1>10, <4>1, <4>4
        <5> QED
          BY <1>11, <4>2, <5>1 DEF JobRecord
      <4> HIDE DEF new
      <4>6. Outcome(j, p, new)
        BY <1>1, <1>7, <1>9, <4>4, <4>5 DEF Outcome
      <4> QED
        BY <4>3, <4>5, <4>6 DEF new
    <3>3. CASE over > 0 /\ ~(J.attempt < MaxAttempts(j, i))
      <4> DEFINE e == IF IsCheck(j, rec.at) THEN "readiness check failed"
                                            ELSE "startup step failed"
      <4>1. Retried(j, rec) = [rec EXCEPT !.ended = TRUE, !.error = e]
        BY <1>7, <2>2, <3>3 DEF Retried
      <4>2. e \in Error
        BY DEF Error
      <4> HIDE DEF e
      <4> DEFINE new == Retried(j, rec)
      <4>3. /\ new \in JobRecord
            /\ new.results = rec.results /\ new.elapsed = rec.elapsed
            /\ new.at = rec.at /\ new.attempt = rec.attempt
            /\ new.ended /\ new.success = rec.success
        <5>1. Retried(j, rec) \in JobRecord
          BY <1>11, <4>1, <4>2, FailedRecord
        <5> QED
          BY <1>11, <4>1, <5>1 DEF JobRecord
      <4> HIDE DEF new
      <4>4. Outcome(j, p, new)
        BY <1>7, <1>9, <4>3 DEF Outcome
      <4> QED
        BY <1>10, <4>3, <4>4 DEF new
    <3> QED
      BY <2>2, <3>1, <3>2, <3>3
  <2> QED
    BY <1>5, <1>7, <2>1, <2>3
<1> QED
  BY <1>5, <1>8, <1>9

-----------------------------------------------------------------------------
(* The inductive invariant *)

LEMMA InitIInv == Init => IInv
<1> SUFFICES ASSUME Init PROVE IInv
  OBVIOUS
<1>1. job = [j \in Job |-> NewJob] /\ \A t \in Task : status[t] = "new"
  BY DEF Init, RuntimeInit
<1>2. JobTypeOK
  BY <1>1 DEF JobTypeOK, JobRecord, Error, NewJob
<1>3. ASSUME NEW j \in Job
      PROVE  /\ status[j] = "new" /\ job[j].results = << >>
             /\ JobInv(j)
  <2>1. /\ job[j].results = << >> /\ job[j].at = 1 /\ job[j].attempt = 1
        /\ ~job[j].success /\ job[j].elapsed = 0
    BY <1>1 DEF NewJob
  <2>2. Placed(j)
    BY <2>1, PlanFacts, StepFacts DEF Placed
  <2>3. Ordered(j) /\ Earned(j)
    BY <2>1 DEF Ordered, Earned
  <2>4. InTime(j)
    BY <2>1, SshAssumption, PlanFacts DEF InTime
  <2> QED
    BY <1>1, <2>1, <2>2, <2>3, <2>4, SshAssumption DEF JobInv
<1> QED
  BY <1>2, <1>3 DEF IInv, OnlyValid

\* What a job has done does not change when it is refused, given up or answered.
LEMMA SameProgress ==
  ASSUME NEW j \in Job, JobInv(j),
         job'[j].at = job[j].at, job'[j].attempt = job[j].attempt,
         job'[j].results = job[j].results, job'[j].elapsed = job[j].elapsed,
         job'[j].success = job[j].success, job[j].ended => job'[j].ended
  PROVE  JobInv(j)'
<1>1. Placed(j)' /\ InTime(j)'
  BY DEF JobInv, Placed, InTime
<1>2. Ordered(j)'
  BY DEF JobInv, Ordered
<1>3. Earned(j)'
  BY DEF JobInv, Earned
<1> QED
  BY <1>1, <1>2, <1>3 DEF JobInv

LEMMA AttemptKeeps ==
  ASSUME IInv, NEW j \in Job, Attempt(j)
  PROVE  IInv'
<1> DEFINE h == job[j].results  i == job[j].at  a == job[j].attempt
           n == Len(h)  new == job'[j]
<1>1. PICK p \in Outcomes(j) :
        /\ p.ok \in BOOLEAN
        /\ job' = [job EXCEPT ![j] = new]
        /\ new \in JobRecord
        /\ new.results = Append(h, Entry(j, p))
        /\ Outcome(j, p, new)
        /\ new.elapsed <= Profile[j].timeout + Grace
  BY AttemptFacts
<1>2. /\ ValidRequest(Profile[j]) /\ ~job[j].ended
      /\ status' = status
  BY DEF Attempt, Runs, runtime, IInv, OnlyValid
<1>3. /\ job[j] \in JobRecord /\ h \in Seq(Result) /\ i \in Nat /\ a \in Nat
      /\ i \in 1 .. Len(Plan(j)) /\ a \in 1 .. MaxAttempts(j, i)
      /\ Ordered(j) /\ Earned(j) /\ ~job[j].success
  <2>1. job[j] \in JobRecord /\ Placed(j) /\ Ordered(j) /\ Earned(j)
    BY DEF IInv, JobTypeOK, JobInv
  <2>2. h \in Seq(Result) /\ i \in Nat /\ a \in Nat
    BY <2>1 DEF JobRecord
  <2> QED
    BY <1>2, <2>1, <2>2 DEF Placed, Earned
<1>4. /\ n \in Nat
      /\ Len(new.results) = n + 1
      /\ \A k \in 1 .. n : new.results[k] = h[k]
      /\ new.results[n + 1].step = i /\ new.results[n + 1].attempt = a
      /\ new.results[n + 1].ok = p.ok
      /\ Len(Plan(j)) \in Nat /\ MaxAttempts(j, i) \in Nat
  <2>1. Entry(j, p) \in Result
    BY <1>1, <1>3 DEF Entry, Result
  <2>2. /\ Entry(j, p).step = i /\ Entry(j, p).attempt = a /\ Entry(j, p).ok = p.ok
    BY DEF Entry
  <2>3. /\ n \in Nat /\ Len(new.results) = n + 1
        /\ \A k \in 1 .. n : new.results[k] = h[k]
        /\ new.results[n + 1] = Entry(j, p)
    BY <1>1, <1>3, <2>1, AppendFacts
  <2> QED
    BY <1>2, <1>3, <2>2, <2>3, PlanFacts, StepFacts
<1>5. \A k \in 1 .. n : h[k].step \in Nat /\ h[k].attempt \in Nat
  <2>1. \A k \in 1 .. n : h[k] \in Result
    BY <1>3
  <2> QED
    BY <2>1 DEF Result
<1>6. JobTypeOK' /\ \A k \in Job : k # j => job'[k] = job[k]
  BY <1>1 DEF IInv, JobTypeOK
<1>7. OnlyValid'
  BY <1>2, <1>6 DEF IInv, OnlyValid
<1> HIDE DEF h, i, a, n, new
<1>8. /\ new.at \in Nat /\ new.attempt \in Nat
      /\ new.at = i \/ new.at = i + 1
      /\ new.at \in 1 .. Len(Plan(j))
      /\ new.attempt \in 1 .. MaxAttempts(j, new.at)
  <2>1. CASE new.at = i
    BY <1>1, <1>3, <1>4, <2>1 DEF Outcome, JobRecord, i, a
  <2>2. CASE new.at # i
    <3>1. new.at = i + 1 /\ i < Len(Plan(j)) /\ new.attempt = 1
      BY <1>1, <2>2 DEF Outcome, i
    <3>2. i + 1 \in 1 .. Len(Plan(j))
      BY <1>3, <1>4, <3>1
    <3>3. MaxAttempts(j, i + 1) \in Nat \ {0}
      BY <1>2, <3>2, StepFacts
    <3> QED
      BY <1>3, <3>1, <3>2, <3>3
  <2> QED
    BY <2>1, <2>2
<1>9. Placed(j)'
  BY <1>8 DEF Placed, new, Plan, MaxAttempts, IsCheck
<1>10. Ordered(j)'
  <2>1. ASSUME NEW k \in 1 .. n + 1
        PROVE  /\ new.results[k].step \in 1 .. new.at
               /\ new.results[k].attempt \in 1 .. MaxAttempts(j, new.results[k].step)
               /\ ~new.ended /\ new.results[k].step = new.at
                    => new.results[k].attempt < new.attempt
    <3>1. ~new.ended /\ new.at = i => new.attempt = a + 1
      BY <1>1, <1>3 DEF Outcome, i, a
    <3>2. CASE k = n + 1
      BY <1>3, <1>4, <1>8, <3>1, <3>2
    <3>3. CASE k \in 1 .. n
      <4>1. /\ h[k].step \in 1 .. i
            /\ h[k].attempt \in 1 .. MaxAttempts(j, h[k].step)
            /\ h[k].step = i => h[k].attempt < a
        BY <1>2, <1>3, <3>3 DEF Ordered, h, i, a, n
      <4>2. new.results[k] = h[k]
        BY <1>4, <3>3
      <4>3. h[k].step \in 1 .. new.at
        BY <1>3, <1>8, <4>1
      <4>4. ~new.ended /\ h[k].step = new.at => h[k].attempt < new.attempt
        BY <1>3, <1>5, <1>8, <3>1, <3>3, <4>1
      <4> QED
        BY <4>1, <4>2, <4>3, <4>4
    <3> QED
      BY <1>4, <3>2, <3>3
  <2>2. ASSUME NEW k \in 1 .. n + 1, NEW m \in 1 .. n + 1, k < m
        PROVE  \/ new.results[k].step < new.results[m].step
               \/ /\ new.results[k].step = new.results[m].step
                  /\ new.results[k].attempt < new.results[m].attempt
    <3>1. k \in 1 .. n
      BY <1>4, <2>2
    <3>2. CASE m = n + 1
      <4>1. h[k].step \in 1 .. i /\ (h[k].step = i => h[k].attempt < a)
        BY <1>2, <1>3, <3>1 DEF Ordered, h, i, a, n
      <4>2. new.results[k] = h[k]
        BY <1>4, <3>1
      <4>3. h[k].step < i \/ (h[k].step = i /\ h[k].attempt < a)
        <5>1. i \in Nat /\ h[k].step \in Nat
          BY <1>3, <1>5, <3>1
        <5>2. h[k].step <= i
          BY <4>1, <5>1
        <5>3. h[k].step = i => h[k].attempt < a
          BY <4>1
        <5> QED
          BY <5>1, <5>2, <5>3
      <4> QED
        BY <1>4, <3>2, <4>2, <4>3
    <3>3. CASE m \in 1 .. n
      <4>1. \/ h[k].step < h[m].step
            \/ h[k].step = h[m].step /\ h[k].attempt < h[m].attempt
        BY <1>3, <2>2, <3>1, <3>3 DEF Ordered, h, n
      <4> QED
        BY <1>4, <3>1, <3>3, <4>1
    <3> QED
      BY <1>4, <3>2, <3>3
  <2> QED
    BY <1>4, <2>1, <2>2 DEF Ordered, new, MaxAttempts, IsCheck, Plan
<1>11. Earned(j)'
  <2>1. ASSUME NEW k \in 1 .. n, ~new.results[k].ok
        PROVE  new.results[k + 1].step = new.results[k].step
    <3>1. CASE k = n
      <4>1. h # << >> /\ ~h[n].ok
        BY <1>4, <2>1, <3>1 DEF n
      <4>2. h[n].step = i
        BY <1>2, <1>3, <4>1 DEF Earned, h, i, n
      <4> QED
        BY <1>4, <3>1, <4>2
    <3>2. CASE k # n
      <4>1. k \in 1 .. n - 1 /\ k + 1 \in 1 .. n
        BY <1>4, <3>2
      <4>2. h[k + 1].step = h[k].step
        BY <1>3, <1>4, <2>1, <4>1 DEF Earned, h, n
      <4> QED
        BY <1>4, <4>1, <4>2
    <3> QED
      BY <3>1, <3>2
  <2>2. ~new.ended /\ ~new.results[n + 1].ok => new.results[n + 1].step = new.at
    BY <1>1, <1>4 DEF Outcome, i
  <2>3. ASSUME NEW b \in 1 .. i - 1
        PROVE  \E k \in 1 .. n + 1 : new.results[k].step = b /\ new.results[k].ok
    <3>1. PICK k \in 1 .. n : h[k].step = b /\ h[k].ok
      BY <1>3 DEF Earned, h, i, n
    <3> QED
      BY <1>4, <3>1
  <2>4. p.ok => \E k \in 1 .. n + 1 : new.results[k].step = i /\ new.results[k].ok
    <3>1. n + 1 \in 1 .. n + 1
      BY <1>4
    <3> QED
      BY <1>4, <3>1
  <2>5. ASSUME NEW b \in 1 .. new.at - 1
        PROVE  \E k \in 1 .. n + 1 : new.results[k].step = b /\ new.results[k].ok
    <3>1. CASE b \in 1 .. i - 1
      BY <2>3, <3>1
    <3>2. CASE b \notin 1 .. i - 1
      <4>1. new.at = i + 1 /\ b = i
        BY <1>3, <1>8, <3>2
      <4>2. p.ok
        BY <1>1, <1>3, <4>1 DEF Outcome, i
      <4> QED
        BY <2>4, <4>1, <4>2
    <3> QED
      BY <3>1, <3>2
  <2>6. new.success => p.ok /\ new.ended /\ new.at = i /\ i = Len(Plan(j))
    BY <1>1, <1>3 DEF Outcome, i
  <2>7. /\ \A k \in 1 .. Len(new.results) - 1 :
             ~new.results[k].ok => new.results[k + 1].step = new.results[k].step
        /\ ~new.ended /\ ~new.results[Len(new.results)].ok
             => new.results[Len(new.results)].step = new.at
    BY <1>4, <2>1, <2>2
  <2>8. new.success =>
          /\ new.ended /\ new.at = Len(Plan(j))
          /\ \E k \in 1 .. n + 1 : new.results[k].step = new.at /\ new.results[k].ok
    BY <2>4, <2>6
  <2> QED
    BY <1>4, <2>5, <2>7, <2>8 DEF Earned, new, Plan
<1>12. InTime(j)'
  BY <1>1 DEF InTime, new
<1>13. ASSUME NEW k \in Job, k # j
       PROVE  JobInv(k)'
  BY <1>6, <1>13, SameProgress DEF IInv
<1> QED
  BY <1>6, <1>7, <1>9, <1>10, <1>11, <1>12, <1>13 DEF IInv, JobInv

LEMMA JobStepKeeps ==
  ASSUME RuntimeInv, IInv, NEW j \in Job, TimeOut(j) \/ Answer(j) \/ ExecuteRefused(j)
  PROVE  IInv'
<1>1. job[j] \in JobRecord /\ JobInv(j) /\ job \in [Job -> JobRecord]
  BY DEF IInv, JobTypeOK
<1>2. ASSUME TimeOut(j)
      PROVE  IInv'
  <2>1. /\ job' = [job EXCEPT ![j] = Abandoned(job[j])] /\ status' = status
    BY <1>2 DEF TimeOut, runtime
  <2>2. /\ Abandoned(job[j]) \in JobRecord
        /\ Abandoned(job[j]).at = job[j].at /\ Abandoned(job[j]).attempt = job[j].attempt
        /\ Abandoned(job[j]).results = job[j].results
        /\ Abandoned(job[j]).elapsed = job[j].elapsed
        /\ Abandoned(job[j]).success = job[j].success /\ Abandoned(job[j]).ended
    <3>1. Abandoned(job[j]) = [job[j] EXCEPT !.timed_out = TRUE,
             !.error = "startup profile timeout", !.ended = TRUE]
      BY DEF Abandoned
    <3>2. "startup profile timeout" \in Error
      BY DEF Error
    <3>3. Abandoned(job[j]) \in JobRecord
      BY <1>1, <3>1, <3>2, TimedOutRecord
    <3> QED
      BY <1>1, <3>1, <3>3 DEF JobRecord
  <2>3. /\ job' \in [Job -> JobRecord] /\ job'[j] = Abandoned(job[j])
        /\ \A k \in Job : k # j => job'[k] = job[k]
    BY <1>1, <2>1, <2>2
  <2>4. \A k \in Job : JobInv(k)' /\ job'[k].results = job[k].results
    BY <2>2, <2>3, SameProgress DEF IInv
  <2> QED
    BY <2>1, <2>3, <2>4 DEF IInv, JobTypeOK, OnlyValid
<1>3. ASSUME Answer(j) \/ ExecuteRefused(j)
      PROVE  IInv'
  <2>1. PICK new \in JobRecord :
          /\ job' = [job EXCEPT ![j] = new]
          /\ new.at = job[j].at /\ new.attempt = job[j].attempt
          /\ new.results = job[j].results /\ new.elapsed = job[j].elapsed
          /\ new.success = job[j].success /\ new.ended = job[j].ended
    <3>1. CASE Answer(j)
      <4> DEFINE new == [job[j] EXCEPT !.answers = @ + 1]
      <4>1. job' = [job EXCEPT ![j] = new]
        BY <3>1 DEF Answer
      <4>2. new \in JobRecord /\ new.at = job[j].at /\ new.attempt = job[j].attempt
            /\ new.results = job[j].results /\ new.elapsed = job[j].elapsed
            /\ new.success = job[j].success /\ new.ended = job[j].ended
        <5>1. job[j].answers + 1 \in Nat
          BY <1>1 DEF JobRecord
        <5>2. new = [job[j] EXCEPT !.answers = job[j].answers + 1]
          OBVIOUS
        <5>3. new \in JobRecord
          BY <1>1, <5>1, <5>2, AnsweredRecord
        <5> QED
          BY <1>1, <5>2, <5>3 DEF JobRecord
      <4> HIDE DEF new
      <4> QED
        BY <4>1, <4>2
    <3>2. CASE ExecuteRefused(j)
      <4> DEFINE new == [job[j] EXCEPT !.error = "invalid request"]
      <4>1. job' = [job EXCEPT ![j] = new]
        BY <3>2 DEF ExecuteRefused
      <4>2. new \in JobRecord /\ new.at = job[j].at /\ new.attempt = job[j].attempt
            /\ new.results = job[j].results /\ new.elapsed = job[j].elapsed
            /\ new.success = job[j].success /\ new.ended = job[j].ended
        BY <1>1 DEF JobRecord, Error
      <4> HIDE DEF new
      <4> QED
        BY <4>1, <4>2
    <3> QED
      BY <1>3, <3>1, <3>2
  <2>2. /\ job' \in [Job -> JobRecord] /\ job'[j] = new
        /\ \A k \in Job : k # j => job'[k] = job[k]
    BY <1>1, <2>1
  <2>3. \A k \in Job : JobInv(k)' /\ job'[k].results = job[k].results
    BY <2>1, <2>2, SameProgress DEF IInv
  <2>4. \A k \in Job : status'[k] # "new" => status[k] # "new"
    BY <1>3, SshAssumption
       DEF Answer, Finish, ExecuteRefused, runtime, RuntimeInv, RuntimeTypeOK
  <2> QED
    BY <2>2, <2>3, <2>4 DEF IInv, JobTypeOK, OnlyValid
<1> QED
  BY <1>2, <1>3

\* The runtime's other steps leave what the jobs have done, and post no job.
LEMMA RuntimeStepKeeps ==
  ASSUME RuntimeInv, IInv, UNCHANGED job,
         \A k \in Job : status'[k] # "new" => status[k] # "new" \/ ValidRequest(Profile[k])
  PROVE  IInv'
<1>1. \A k \in Job : JobInv(k)'
  BY SameProgress DEF IInv
<1> QED
  BY <1>1 DEF IInv, JobTypeOK, OnlyValid

LEMMA PostChangesOne ==
  ASSUME RuntimeInv, NEW t \in Task, Post(t) \/ Expire(t) \/ Finish(t),
         NEW u \in Task, u # t
  PROVE  status'[u] = status[u]
BY DEF Post, PostRobot, PostRobotAfter, PostParallel, PostBlocking, PostPool,
       PostRefused, Expire, Finish, Submit, Enqueue, RuntimeInv, RuntimeTypeOK

LEMMA NextIInv ==
  ASSUME RuntimeInv, IInv, [Next]_ssh
  PROVE  IInv'
<1>1. ASSUME NEW j \in Job, Execute(j)
      PROVE  IInv'
  <2>1. /\ ValidRequest(Profile[j]) /\ UNCHANGED job /\ Post(j) /\ j \in Task
    BY <1>1, SshAssumption DEF Execute, Post
  <2> QED
    BY <2>1, PostChangesOne, RuntimeStepKeeps, SshAssumption
<1>2. ASSUME NEW j \in Job, ExecuteRefused(j) \/ JobStep(j)
      PROVE  IInv'
  BY <1>2, AttemptKeeps, JobStepKeeps DEF JobStep
<1>3. ASSUME NEW t \in Task \ Job, OtherTask(t)
      PROVE  IInv'
  BY <1>3, PostChangesOne, RuntimeStepKeeps, SshAssumption DEF OtherTask
<1>4. ASSUME Pools
      PROVE  IInv'
  <2>1. ASSUME Join
        PROVE  \A t \in Task : status'[t] # "new" => status[t] # "new"
    BY <2>1 DEF Join, BeginJoin, CancelTimers, JoinProtocol, JoinBlocking,
         RuntimeInv, RuntimeTypeOK
  <2>2. ASSUME NEW l \in Lane, Start(l)
        PROVE  \A t \in Task : status'[t] # "new" => status[t] # "new"
    BY <2>2, StartFacts
  <2>3. ASSUME NEW t \in Task, Expire(t)
        PROVE  \A u \in Task : status'[u] # "new" => status[u] # "new"
    BY <2>3, PostChangesOne DEF Expire
  <2>4. \A t \in Task : status'[t] # "new" => status[t] # "new"
    BY <1>4, <2>1, <2>2, <2>3 DEF Pools
  <2> QED
    BY <1>4, <2>4, RuntimeStepKeeps, SshAssumption DEF Pools
<1>5. ASSUME UNCHANGED ssh
      PROVE  IInv'
  BY <1>5, RuntimeStepKeeps DEF ssh, runtime
<1> QED
  BY <1>1, <1>2, <1>3, <1>4, <1>5 DEF Next

LEMMA Invariant == Spec => []IInv
<1>1. Spec => []RuntimeInv
  BY JobsOnRuntime, RuntimeInvariant, PTL
<1>2. RuntimeInv /\ IInv /\ [Next]_ssh => IInv'
  BY NextIInv
<1> QED
  BY <1>1, <1>2, InitIInv, PTL DEF Spec

-----------------------------------------------------------------------------
(* What it implies *)

\* A job is done within timeout_ms and one grace period, whatever its steps,
\* retries and pauses add up to.
THEOREM JobsInTime == Spec => []DeadlineKept
<1>1. IInv => DeadlineKept
  BY DEF IInv, OnlyValid, JobInv, InTime, DeadlineKept
<1> QED
  BY Invariant, <1>1, PTL

\* A job reports success only if every step and check of its profile exited
\* with 0, each before the next was begun.
THEOREM SuccessEarned == Spec => []SuccessIsEarned
<1>1. IInv => SuccessIsEarned
  <2> SUFFICES ASSUME IInv, NEW j \in Job, job[j].success
               PROVE  /\ \A i \in DOMAIN Plan(j) :
                           \E k \in Attempts(j, i) : job[j].results[k].ok
                      /\ \A k, m \in DOMAIN job[j].results :
                           job[j].results[k].step < job[j].results[m].step => k < m
                      /\ \A k \in DOMAIN job[j].results :
                           k < Len(job[j].results) /\ ~job[j].results[k].ok
                             => job[j].results[k + 1].step = job[j].results[k].step
    BY DEF SuccessIsEarned
  <2> DEFINE h == job[j].results
  <2>1. /\ h \in Seq(Result) /\ DOMAIN h = 1 .. Len(h) /\ Len(h) \in Nat
        /\ Ordered(j) /\ Earned(j)
    BY DEF IInv, JobTypeOK, JobInv, JobRecord
  <2>2. \A k \in 1 .. Len(h) : h[k].step \in Nat
    <3>1. \A k \in 1 .. Len(h) : h[k] \in Result
      BY <2>1
    <3> QED
      BY <3>1 DEF Result
  <2>3. /\ job[j].at = Len(Plan(j))
        /\ \E k \in 1 .. Len(h) : h[k].step = job[j].at /\ h[k].ok
        /\ \A b \in 1 .. job[j].at - 1 : \E k \in 1 .. Len(h) : h[k].step = b /\ h[k].ok
    BY <2>1 DEF Earned
  <2>4. ValidRequest(Profile[j]) /\ Plan(j) \in Seq(StepRecord)
    <3>1. h # << >>
      BY <2>1, <2>3
    <3>2. ValidRequest(Profile[j])
      BY <3>1 DEF IInv, OnlyValid
    <3> QED
      BY <3>2, ProfileAssumption DEF Plan
  <2>5. ASSUME NEW i \in DOMAIN Plan(j)
        PROVE  \E k \in Attempts(j, i) : h[k].ok
    <3>1. i \in 1 .. Len(Plan(j)) /\ Len(Plan(j)) \in Nat
      BY <2>4
    <3>2. \E k \in 1 .. Len(h) : h[k].step = i /\ h[k].ok
      BY <2>3, <3>1
    <3> QED
      BY <2>1, <3>2 DEF Attempts
  <2>6. ASSUME NEW k \in DOMAIN h, NEW m \in DOMAIN h, h[k].step < h[m].step
        PROVE  k < m
    <3>1. CASE k = m
      BY <2>1, <2>2, <2>6, <3>1
    <3>2. CASE m < k
      <4>1. h[m].step < h[k].step \/ h[m].step = h[k].step
        BY <2>1, <3>2 DEF Ordered
      <4> QED
        BY <2>1, <2>2, <2>6, <4>1
    <3> QED
      BY <2>1, <3>1, <3>2
  <2>7. ASSUME NEW k \in DOMAIN h, k < Len(h), ~h[k].ok
        PROVE  h[k + 1].step = h[k].step
    <3>1. k \in 1 .. Len(h) - 1
      BY <2>1, <2>7
    <3> QED
      BY <2>1, <2>7, <3>1 DEF Earned
  <2> QED
    BY <2>5, <2>6, <2>7
<1> QED
  BY Invariant, <1>1, PTL

\* Startup steps are attempted once, and what is repeated is not detached.
THEOREM StepsStartOnce == Spec => []StartedOnce
<1>1. IInv => StartedOnce
  <2> SUFFICES ASSUME IInv, NEW j \in Job, NEW i \in DOMAIN Plan(j)
               PROVE  /\ i <= Len(Profile[j].steps) => Cardinality(Attempts(j, i)) <= 1
                      /\ Cardinality(Attempts(j, i)) > 1 => Plan(j)[i].mode # "detached"
    BY DEF StartedOnce
  <2> DEFINE h == job[j].results
  <2>1. h \in Seq(Result) /\ DOMAIN h = 1 .. Len(h) /\ Len(h) \in Nat /\ Ordered(j)
    BY DEF IInv, JobTypeOK, JobInv, JobRecord
  <2>2. Plan(j) \in Seq(StepRecord) /\ Len(Profile[j].steps) \in Nat
    BY ProfileAssumption DEF Plan
  <2>3. i \in 1 .. Len(Plan(j)) /\ Len(Plan(j)) \in Nat
    BY <2>2
  <2>4. CASE Attempts(j, i) = {}
    BY <2>4, FS_EmptySet
  <2>5. CASE Attempts(j, i) # {}
    <3>1. ValidRequest(Profile[j])
      <4>1. h # << >>
        BY <2>1, <2>5 DEF Attempts
      <4> QED
        BY <4>1 DEF IInv, OnlyValid
    <3>2. ASSUME i <= Len(Profile[j].steps)
          PROVE  Cardinality(Attempts(j, i)) = 1
      <4>1. MaxAttempts(j, i) = 1
        BY <2>3, <3>1, <3>2, StepFacts
      <4>2. \A k \in Attempts(j, i) : k \in 1 .. Len(h) /\ h[k].step = i /\ h[k].attempt = 1
        BY <2>1, <4>1 DEF Ordered, Attempts
      <4>3. ASSUME NEW k \in Attempts(j, i), NEW m \in Attempts(j, i), k < m
            PROVE  FALSE
        <5>1. h[k].step < h[m].step \/ h[k].attempt < h[m].attempt
          BY <2>1, <4>2, <4>3 DEF Ordered
        <5> QED
          BY <2>3, <4>2, <5>1
      <4>4. \A k, m \in Attempts(j, i) : k = m
        BY <4>2, <4>3
      <4>5. PICK k \in Attempts(j, i) : Attempts(j, i) = {k}
        BY <2>5, <4>4
      <4> QED
        BY <4>5, FS_Singleton
    <3>3. i > Len(Profile[j].steps) => Plan(j)[i].mode # "detached"
      BY <2>3, <3>1, PlanFacts
    <3> QED
      BY <2>2, <2>3, <3>2, <3>3
  <2> QED
    BY <2>4, <2>5
<1> QED
  BY Invariant, <1>1, PTL
=============================================================================
