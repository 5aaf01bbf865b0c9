----------------------- MODULE WorkflowExecutor_proofs -----------------------
(***************************************************************************)
(* Type correctness of the workflow executor, the bound on its cycles,     *)
(* that confirmations end by decisions and which runs stay ended, for      *)
(* every value of the constants that satisfies GraphAssumption and         *)
(* ExecutorAssumption.                                                     *)
(*                                                                         *)
(* Frames hold copies that grow stale, so a type invariant over the tables *)
(* alone says nothing of the next step.  The argument: node runs and       *)
(* commands are never deleted and never change hands (Grow), so what a     *)
(* copy holds and what a pending call addresses keep existing, whatever    *)
(* other threads write in between (FramesGrow); a handler only replaces    *)
(* its own stack, by frames made of typed parts (StackSet, Returned,       *)
(* Entered, Started); one lemma per action puts the two together.          *)
(***************************************************************************)
EXTENDS WorkflowExecutor, WorkflowGraph_proofs, SequenceTheorems, TLAPS

-----------------------------------------------------------------------------
(* Frames and stacks *)

Frames(owner, attempts) ==
  {f \in [run : Run, snap : UNION {Snapshot(r, owner, attempts) : r \in Run},
          todo : Seq(OpRecord)] : FrameOK(f, owner, attempts)}

\* Calls of one run are operations, so sequences of them are sequences of
\* operations.
LEMMA CallsAreOps ==
  ASSUME NEW r, NEW loaded, NEW owner, NEW attempts
  PROVE  Seq(CallsOn(r, loaded, owner, attempts)) \subseteq Seq(OpRecord)
<1>1. CallsOn(r, loaded, owner, attempts) \subseteq OpRecord
  BY DEF CallsOn
<1> QED
  BY <1>1, SeqMonotonic

\* A frame that is well typed belongs to the set Frames.
LEMMA FrameIn ==
  ASSUME NEW owner, NEW attempts, NEW f, FrameOK(f, owner, attempts)
  PROVE  f \in Frames(owner, attempts)
<1>1. f.todo \in Seq(OpRecord)
  BY CallsAreOps DEF FrameOK
<1>2. f = [run |-> f.run, snap |-> f.snap, todo |-> f.todo]
  BY DEF FrameOK, Frame
<1>3. /\ f.run \in Run
      /\ f.snap \in UNION {Snapshot(r, owner, attempts) : r \in Run}
  BY DEF FrameOK
<1> HIDE DEF FrameOK
<1> QED
  BY <1>1, <1>2, <1>3 DEF Frames

\* A stack is well typed when it is a sequence of such frames.
LEMMA StackFrames ==
  ASSUME NEW owner, NEW attempts, NEW s
  PROVE  StackOK(s, owner, attempts) <=> s \in Seq(Frames(owner, attempts))
<1>1. ASSUME StackOK(s, owner, attempts)
      PROVE  s \in Seq(Frames(owner, attempts))
  <2>1. FramesOf(s) \subseteq Frames(owner, attempts)
    BY <1>1, FrameIn DEF StackOK
  <2> QED
    BY <1>1, <2>1, SeqMonotonic DEF StackOK
<1>2. ASSUME s \in Seq(Frames(owner, attempts))
      PROVE  StackOK(s, owner, attempts)
  <2>1. /\ Len(s) \in Nat
        /\ DOMAIN s = 1..Len(s)
        /\ s \in [1..Len(s) -> Frames(owner, attempts)]
    BY <1>2, LenProperties
  <2>2. FramesOf(s) \subseteq Frames(owner, attempts)
    BY <2>1 DEF FramesOf
  <2>3. s \in [1..Len(s) -> FramesOf(s)]
    BY <2>1 DEF FramesOf
  <2>4. s \in Seq(FramesOf(s))
    BY <2>1, <2>3, SeqDef
  <2> QED
    BY <2>2, <2>4 DEF StackOK, Frames
<1> QED
  BY <1>1, <1>2

\* A frame made of typed parts is well typed.
LEMMA FrameMade ==
  ASSUME NEW owner, NEW attempts, NEW r \in Run,
         NEW snap \in Snapshot(r, owner, attempts),
         NEW todo \in Seq(CallsOn(r, Len(snap.node), owner, attempts)),
         todo # <<>>
  PROVE  Frame(r, snap, todo) \in Frames(owner, attempts)
<1> DEFINE f == Frame(r, snap, todo)
<1>1. f.run = r /\ f.snap = snap /\ f.todo = todo
  BY DEF Frame
<1>2. f = Frame(f.run, f.snap, f.todo)
  BY <1>1
<1> HIDE DEF f
<1>3. FrameOK(f, owner, attempts)
  BY <1>1, <1>2 DEF FrameOK
<1> QED
  BY <1>3, FrameIn DEF f

\* The parts of a frame.
LEMMA FrameParts ==
  ASSUME NEW owner, NEW attempts, NEW f \in Frames(owner, attempts)
  PROVE  /\ f = Frame(f.run, f.snap, f.todo)
         /\ f.run \in Run
         /\ f.snap \in Snapshot(f.run, owner, attempts)
         /\ f.todo \in Seq(CallsOn(f.run, Len(f.snap.node), owner, attempts))
         /\ f.todo # <<>>
BY DEF Frames, FrameOK

\* Pushing a typed frame, or nothing when it has nothing to do, keeps a stack
\* typed.
LEMMA PushOK ==
  ASSUME NEW owner, NEW attempts, NEW r \in Run,
         NEW snap \in Snapshot(r, owner, attempts),
         NEW todo \in Seq(CallsOn(r, Len(snap.node), owner, attempts)),
         NEW frames \in Seq(Frames(owner, attempts))
  PROVE  Push(Frame(r, snap, todo), frames) \in Seq(Frames(owner, attempts))
<1>1. CASE todo = <<>>
  BY <1>1 DEF Push, Frame
<1>2. CASE todo # <<>>
  <2>1. Frame(r, snap, todo) \in Frames(owner, attempts)
    BY <1>2, FrameMade
  <2>2. Push(Frame(r, snap, todo), frames) = <<Frame(r, snap, todo)>> \o frames
    BY <1>2 DEF Push, Frame
  <2>3. <<Frame(r, snap, todo)>> \in Seq(Frames(owner, attempts))
    BY <2>1
  <2> QED
    BY <2>2, <2>3, ConcatProperties
<1> QED
  BY <1>1, <1>2

-----------------------------------------------------------------------------
(* The tables only grow, and what was addressed before still is *)

Grow(owner, attempts, owner2, attempts2) ==
  /\ DOMAIN owner \subseteq DOMAIN owner2
  /\ \A i \in DOMAIN owner : owner2[i] = owner[i]
  /\ attempts \in [Run -> Nat] /\ attempts2 \in [Run -> Nat]
  /\ \A r \in Run : attempts[r] <= attempts2[r]

\* A node run that exists goes on existing: rows of node_runs are not
\* deleted.
LEMMA NodeRunGrows ==
  ASSUME NEW owner, NEW attempts, NEW owner2, NEW attempts2,
         Grow(owner, attempts, owner2, attempts2)
  PROVE  NodeRun(attempts) \subseteq NodeRun(attempts2)
BY DEF Grow, NodeRun

\* A copy loaded earlier stays a copy of some past of the run.
LEMMA SnapshotGrows ==
  ASSUME NEW owner, NEW attempts, NEW owner2, NEW attempts2,
         Grow(owner, attempts, owner2, attempts2),
         NEW r \in Run, NEW snap \in Snapshot(r, owner, attempts)
  PROVE  snap \in Snapshot(r, owner2, attempts2)
<1>1. NodeRun(attempts) \subseteq NodeRun(attempts2)
  BY NodeRunGrows
<1>2. Len(snap.node) \in Nat
  BY LenProperties DEF Snapshot, NodeRows
<1>3. Len(snap.node) <= attempts2[r]
  BY <1>2 DEF Grow, Snapshot
<1> QED
  BY <1>1, <1>3 DEF Grow, Snapshot

\* A call that addressed something that existed still does.
LEMMA CallsGrow ==
  ASSUME NEW owner, NEW attempts, NEW owner2, NEW attempts2,
         Grow(owner, attempts, owner2, attempts2),
         NEW r \in Run, NEW loaded \in Nat, NEW loaded2 \in Nat,
         loaded <= loaded2
  PROVE  /\ CallsOn(r, loaded, owner, attempts)
              \subseteq CallsOn(r, loaded2, owner2, attempts2)
         /\ Seq(CallsOn(r, loaded, owner, attempts))
              \subseteq Seq(CallsOn(r, loaded2, owner2, attempts2))
<1>1. ASSUME NEW call \in CallsOn(r, loaded, owner, attempts)
      PROVE  call \in CallsOn(r, loaded2, owner2, attempts2)
  <2>1. call.op = "boot" => attempts2[r] > 0
    BY DEF Grow, CallsOn
  <2>2. call.op \notin FreeOps => loaded2 > 0
    BY DEF CallsOn
  <2>3. call.op \in RowOps => call.c \in 1..loaded2
    BY DEF CallsOn
  <2>4. call.op \in CommandOps => call.i \in DOMAIN owner2 /\ owner2[call.i] = r
    BY DEF CallsOn, Grow
  <2> QED
    BY <2>1, <2>2, <2>3, <2>4 DEF CallsOn
<1> QED
  BY <1>1, SeqMonotonic

\* So do all the frames of a stack, whichever thread wrote the tables.
LEMMA FramesGrow ==
  ASSUME NEW owner, NEW attempts, NEW owner2, NEW attempts2,
         Grow(owner, attempts, owner2, attempts2)
  PROVE  /\ Frames(owner, attempts) \subseteq Frames(owner2, attempts2)
         /\ Seq(Frames(owner, attempts)) \subseteq Seq(Frames(owner2, attempts2))
<1>1. ASSUME NEW f \in Frames(owner, attempts)
      PROVE  f \in Frames(owner2, attempts2)
  <2>1. /\ f = Frame(f.run, f.snap, f.todo)
        /\ f.run \in Run
        /\ f.snap \in Snapshot(f.run, owner, attempts)
        /\ f.todo \in Seq(CallsOn(f.run, Len(f.snap.node), owner, attempts))
        /\ f.todo # <<>>
    BY FrameParts
  <2>2. f.snap \in Snapshot(f.run, owner2, attempts2)
    BY <2>1, SnapshotGrows
  <2>3. Len(f.snap.node) \in Nat
    BY <2>1, LenProperties DEF Snapshot, NodeRows
  <2>4. f.todo \in Seq(CallsOn(f.run, Len(f.snap.node), owner2, attempts2))
    BY <2>1, <2>3, CallsGrow
  <2> QED
    BY <2>1, <2>2, <2>4, FrameMade
<1> QED
  BY <1>1, SeqMonotonic

-----------------------------------------------------------------------------
(* Rows and copies *)

LEMMA RowWritten ==
  ASSUME NEW r \in Run, NEW rows \in NodeRows(r), NEW c \in 1..Len(rows),
         NEW k \in Key(r), NEW row \in NodeRow
  PROVE  /\ [rows EXCEPT ![c][k] = row] \in NodeRows(r)
         /\ Len([rows EXCEPT ![c][k] = row]) = Len(rows)
<1>1. rows \in Seq([Key(r) -> NodeRow])
  BY DEF NodeRows
<1>2. rows[c] \in [Key(r) -> NodeRow]
  BY <1>1, ElementOfSeq
<1>3. [rows[c] EXCEPT ![k] = row] \in [Key(r) -> NodeRow]
  BY <1>2
<1>4. [rows EXCEPT ![c][k] = row] = [rows EXCEPT ![c] = [rows[c] EXCEPT ![k] = row]]
  OBVIOUS
<1> QED
  BY <1>1, <1>3, <1>4, ExceptSeq DEF NodeRows

\* Writing the state of a row keeps its type and the number of attempts.
LEMMA StateWritten ==
  ASSUME NEW r \in Run, NEW rows \in NodeRows(r), NEW c \in 1..Len(rows),
         NEW k \in Key(r), NEW state \in NodeState
  PROVE  /\ [rows EXCEPT ![c][k].state = state] \in NodeRows(r)
         /\ Len([rows EXCEPT ![c][k].state = state]) = Len(rows)
<1> DEFINE row == [rows[c][k] EXCEPT !.state = state]
<1>1. rows \in Seq([Key(r) -> NodeRow])
  BY DEF NodeRows
<1>2. rows[c] \in [Key(r) -> NodeRow]
  BY <1>1, ElementOfSeq
<1>3. row \in NodeRow
  BY <1>2 DEF NodeRow
<1>4. [rows EXCEPT ![c][k].state = state] = [rows EXCEPT ![c][k] = row]
  OBVIOUS
<1> HIDE DEF row
<1> QED
  BY <1>3, <1>4, RowWritten

\* Writing command_attempt does too.
LEMMA TriesWritten ==
  ASSUME NEW r \in Run, NEW rows \in NodeRows(r), NEW c \in 1..Len(rows),
         NEW k \in Key(r), NEW tries \in Nat
  PROVE  /\ [rows EXCEPT ![c][k].tries = tries] \in NodeRows(r)
         /\ Len([rows EXCEPT ![c][k].tries = tries]) = Len(rows)
<1> DEFINE row == [rows[c][k] EXCEPT !.tries = tries]
<1>1. rows \in Seq([Key(r) -> NodeRow])
  BY DEF NodeRows
<1>2. rows[c] \in [Key(r) -> NodeRow]
  BY <1>1, ElementOfSeq
<1>3. row \in NodeRow
  BY <1>2 DEF NodeRow
<1>4. [rows EXCEPT ![c][k].tries = tries] = [rows EXCEPT ![c][k] = row]
  OBVIOUS
<1> HIDE DEF row
<1> QED
  BY <1>3, <1>4, RowWritten

\* What is known of a loaded copy.
LEMMA SnapshotParts ==
  ASSUME NEW owner, NEW attempts, NEW r \in Run,
         NEW snap \in Snapshot(r, owner, attempts)
  PROVE  /\ snap.node \in NodeRows(r) /\ Len(snap.node) \in Nat
         /\ snap.cycle \in Nat /\ snap.next \in BOOLEAN
         /\ snap.state \in RunState
         /\ Len(snap.node) > 0 => snap.state # "NONE"
         /\ snap.waiting \subseteq NodeRun(attempts)
         /\ snap.commands \subseteq DOMAIN owner
BY LenProperties, EmptySeq DEF Snapshot, NodeRows

\* A copy with other rows, as many as before, is a copy.
LEMMA CopyWritten ==
  ASSUME NEW owner, NEW attempts, NEW r \in Run,
         NEW snap \in Snapshot(r, owner, attempts),
         NEW rows \in NodeRows(r), Len(rows) = Len(snap.node)
  PROVE  [snap EXCEPT !.node = rows] \in Snapshot(r, owner, attempts)
<1>1. rows = <<>> <=> snap.node = <<>>
  BY EmptySeq DEF NodeRows, Snapshot
<1> QED
  BY <1>1 DEF Snapshot

\* SetNode, the write of a state to the copy.
LEMMA NodeSet ==
  ASSUME NEW owner, NEW attempts, NEW r \in Run,
         NEW snap \in Snapshot(r, owner, attempts),
         NEW c \in 1..Len(snap.node), NEW k \in Key(r), NEW state \in NodeState
  PROVE  /\ SetNode(snap, c, k, state) \in Snapshot(r, owner, attempts)
         /\ Len(SetNode(snap, c, k, state).node) = Len(snap.node)
<1> DEFINE rows == [snap.node EXCEPT ![c][k].state = state]
<1>1. rows \in NodeRows(r) /\ Len(rows) = Len(snap.node)
  BY SnapshotParts, StateWritten
<1>2. SetNode(snap, c, k, state) = [snap EXCEPT !.node = rows]
  BY DEF SetNode
<1>3. SetNode(snap, c, k, state).node = rows
  BY DEF SetNode, Snapshot
<1> HIDE DEF rows
<1> QED
  BY <1>1, <1>2, <1>3, CopyWritten

\* The copy a command's number is written to.
WithTries(snap, c, k, tries) == [snap EXCEPT !.node[c][k].tries = tries]

\* The write of command_attempt to the copy.
LEMMA CopyTries ==
  ASSUME NEW owner, NEW attempts, NEW r \in Run,
         NEW snap \in Snapshot(r, owner, attempts),
         NEW c \in 1..Len(snap.node), NEW k \in Key(r), NEW tries \in Nat
  PROVE  /\ WithTries(snap, c, k, tries) \in Snapshot(r, owner, attempts)
         /\ Len(WithTries(snap, c, k, tries).node) = Len(snap.node)
<1> DEFINE rows == [snap.node EXCEPT ![c][k].tries = tries]
<1>1. rows \in NodeRows(r) /\ Len(rows) = Len(snap.node)
  BY SnapshotParts, TriesWritten
<1>2. WithTries(snap, c, k, tries) = [snap EXCEPT !.node = rows]
  BY DEF WithTries
<1>3. WithTries(snap, c, k, tries).node = rows
  BY DEF WithTries, Snapshot
<1> HIDE DEF rows
<1> QED
  BY <1>1, <1>2, <1>3, CopyWritten

-----------------------------------------------------------------------------
(* Calls *)

AnyOp == KeyOps \cup RowOps \cup CommandOps \cup FreeOps \cup OtherOps

\* Op makes an operation of its name.
LEMMA OpIn ==
  ASSUME NEW op \in AnyOp
  PROVE  Op(op) \in OpRecord /\ Op(op).op = op
<1>1. NoEvent \in EventName
  BY DEF EventName
<1> QED
  BY <1>1 DEF Op, OpRecord, AnyOp

\* OnKey makes an operation on a node key.
LEMMA OnKeyIn ==
  ASSUME NEW op \in AnyOp, NEW k \in NodeKey
  PROVE  OnKey(op, k) \in OpRecord /\ OnKey(op, k).op = op /\ OnKey(op, k).k = k
BY OpIn DEF OnKey, OpRecord

\* OnNode makes an operation on a node run.
LEMMA OnNodeIn ==
  ASSUME NEW op \in AnyOp, NEW c \in Nat, NEW k \in NodeKey
  PROVE  /\ OnNode(op, c, k) \in OpRecord
         /\ OnNode(op, c, k).op = op
         /\ OnNode(op, c, k).c = c /\ OnNode(op, c, k).k = k
BY OpIn DEF OnNode, OpRecord

\* OnIndex makes an operation on an edge or a command.
LEMMA OnIndexIn ==
  ASSUME NEW op \in AnyOp, NEW i \in Nat
  PROVE  OnIndex(op, i) \in OpRecord /\ OnIndex(op, i).op = op /\ OnIndex(op, i).i = i
BY OpIn DEF OnIndex, OpRecord

\* An outcome changes nothing of what a call addresses.
LEMMA OutcomeIn ==
  ASSUME NEW call \in OpRecord, NEW ok \in BOOLEAN
  PROVE  /\ WithOutcome(call, ok) \in OpRecord
         /\ WithOutcome(call, ok).op = call.op
         /\ WithOutcome(call, ok).c = call.c /\ WithOutcome(call, ok).k = call.k
         /\ WithOutcome(call, ok).i = call.i
BY DEF WithOutcome, OpRecord

\* The kinds of operations are disjoint where their arguments differ.
LEMMA OpsApart ==
  /\ AnyOp = KeyOps \cup RowOps \cup CommandOps \cup FreeOps \cup OtherOps
  /\ KeyOps \cap (RowOps \cup CommandOps \cup FreeOps \cup OtherOps) = {}
  /\ RowOps \cap (FreeOps \cup OtherOps \cup {"result"}) = {}
  /\ CommandOps \cap (FreeOps \cup OtherOps) = {}
  /\ FreeOps \cap OtherOps = {}
  /\ "boot" \in FreeOps /\ "result" \in CommandOps /\ "edge" \in OtherOps
BY DEF AnyOp, KeyOps, RowOps, CommandOps, FreeOps, OtherOps

\* A call on a node key of a loaded run.
LEMMA KeyCall ==
  ASSUME NEW r \in Run, NEW loaded \in Nat, loaded > 0, NEW owner, NEW attempts,
         NEW k \in Key(r), NEW op \in KeyOps
  PROVE  OnKey(op, k) \in CallsOn(r, loaded, owner, attempts)
<1> DEFINE call == OnKey(op, k)
<1>1. call \in OpRecord /\ call.op = op /\ call.k = k
  BY OnKeyIn, NodeParts, OpsApart
<1> HIDE DEF call
<1>2. call \in CallsOn(r, loaded, owner, attempts)
  BY <1>1, OpsApart DEF CallsOn
<1> QED
  BY <1>2 DEF call

\* A call on a loaded row, and a command if it carries one.
LEMMA RowCallIn ==
  ASSUME NEW r \in Run, NEW loaded \in Nat, NEW owner, NEW attempts,
         NEW call \in OpRecord, call.op \in RowOps,
         call.c \in 1..loaded, call.k \in Key(r),
         call.op \in CommandOps => call.i \in DOMAIN owner /\ owner[call.i] = r
  PROVE  call \in CallsOn(r, loaded, owner, attempts)
<1>1. loaded > 0
  OBVIOUS
<1> QED
  BY <1>1, OpsApart DEF CallsOn

\* The calls made by OnNode on a loaded row.
LEMMA RowCall ==
  ASSUME NEW r \in Run, NEW loaded \in Nat, NEW owner, NEW attempts,
         NEW c \in 1..loaded, NEW k \in Key(r), NEW op \in RowOps \ CommandOps,
         NEW ok \in BOOLEAN
  PROVE  /\ OnNode(op, c, k) \in CallsOn(r, loaded, owner, attempts)
         /\ WithOutcome(OnNode(op, c, k), ok) \in CallsOn(r, loaded, owner, attempts)
<1> DEFINE call == OnNode(op, c, k)
           told == WithOutcome(call, ok)
<1>1. c \in Nat
  OBVIOUS
<1>2. call \in OpRecord /\ call.op = op /\ call.c = c /\ call.k = k
  BY <1>1, OnNodeIn, NodeParts, OpsApart
<1> HIDE DEF call
<1>3. told \in OpRecord /\ told.op = op /\ told.c = c /\ told.k = k
  BY <1>2, OutcomeIn
<1> HIDE DEF told
<1>4. /\ call \in CallsOn(r, loaded, owner, attempts)
      /\ told \in CallsOn(r, loaded, owner, attempts)
  BY <1>2, <1>3, RowCallIn
<1> QED
  BY <1>4 DEF call, told

\* The calls that take no argument, on a loaded run.
LEMMA RunCall ==
  ASSUME NEW r \in Run, NEW loaded \in Nat, loaded > 0, NEW owner, NEW attempts,
         NEW op \in OtherOps \ {"edge"}, NEW ok \in BOOLEAN
  PROVE  /\ Op(op) \in CallsOn(r, loaded, owner, attempts)
         /\ WithOutcome(Op(op), ok) \in CallsOn(r, loaded, owner, attempts)
<1> DEFINE call == Op(op)
           told == WithOutcome(call, ok)
<1>1. call \in OpRecord /\ call.op = op
  BY OpIn, OpsApart
<1> HIDE DEF call
<1>2. told \in OpRecord /\ told.op = op
  BY <1>1, OutcomeIn
<1> HIDE DEF told
<1>3. /\ call \in CallsOn(r, loaded, owner, attempts)
      /\ told \in CallsOn(r, loaded, owner, attempts)
  BY <1>1, <1>2, OpsApart DEF CallsOn
<1> QED
  BY <1>3 DEF call, told

\* The calls that need nothing of the copy.
LEMMA FreeCall ==
  ASSUME NEW r \in Run, NEW loaded \in Nat, NEW owner, NEW attempts,
         NEW op \in FreeOps, NEW ev \in EventName, op = "boot" => attempts[r] > 0
  PROVE  /\ Op(op) \in CallsOn(r, loaded, owner, attempts)
         /\ [Op(op) EXCEPT !.ev = ev] \in CallsOn(r, loaded, owner, attempts)
<1> DEFINE call == Op(op)
           with == [call EXCEPT !.ev = ev]
<1>1. call \in OpRecord /\ call.op = op
  BY OpIn, OpsApart
<1> HIDE DEF call
<1>2. with \in OpRecord /\ with.op = op
  BY <1>1 DEF OpRecord
<1> HIDE DEF with
<1>3. /\ call \in CallsOn(r, loaded, owner, attempts)
      /\ with \in CallsOn(r, loaded, owner, attempts)
  BY <1>1, <1>2, OpsApart DEF CallsOn
<1> QED
  BY <1>3 DEF call, with

\* The next iteration of followEdges.
LEMMA EdgeCall ==
  ASSUME NEW r \in Run, NEW loaded \in Nat, loaded > 0, NEW owner, NEW attempts,
         NEW i \in EdgeIds(r)
  PROVE  OnIndex("edge", i) \in CallsOn(r, loaded, owner, attempts)
<1> DEFINE call == OnIndex("edge", i)
<1>1. i \in Nat
  BY GraphAssumption
<1>2. call \in OpRecord /\ call.op = "edge" /\ call.i = i
  BY <1>1, OnIndexIn, OpsApart
<1> HIDE DEF call
<1>3. call \in CallsOn(r, loaded, owner, attempts)
  BY <1>2, OpsApart DEF CallsOn
<1> QED
  BY <1>3 DEF call

-----------------------------------------------------------------------------
(* What followEdges, the RESULT events and executeNode turn into *)

LEMMA FollowFromCalls ==
  ASSUME NEW r \in Run, NEW loaded \in Nat, loaded > 0, NEW owner, NEW attempts,
         NEW src, NEW kind, NEW event, NEW i
  PROVE  FollowFrom(r, src, kind, event, i)
           \in Seq(CallsOn(r, loaded, owner, attempts))
<1> DEFINE ids == OutEdges(r, src, kind, event, i)
           next == CHOOSE j \in ids : \A n \in ids : j <= n
<1>2. CASE ids = {}
  BY <1>2 DEF FollowFrom
<1>3. CASE ids # {}
  <2>1. next \in EdgeIds(r)
    BY <1>3, NextEdge
  <2>2. OnIndex("edge", next) \in CallsOn(r, loaded, owner, attempts)
    BY <2>1, EdgeCall
  <2>3. FollowFrom(r, src, kind, event, i) = <<OnIndex("edge", next)>>
    BY <1>3 DEF FollowFrom
  <2> QED
    BY <2>2, <2>3
<1> QED
  BY <1>2, <1>3

\* followEdges, from the first edge.
LEMMA FollowCalls ==
  ASSUME NEW r \in Run, NEW loaded \in Nat, loaded > 0, NEW owner, NEW attempts,
         NEW src, NEW kind, NEW event
  PROVE  FollowEdges(r, src, kind, event) \in Seq(CallsOn(r, loaded, owner, attempts))
BY FollowFromCalls DEF FollowEdges

\* The RESULT events of a node: event edges, then the workflows they start.
LEMMA EmitCalls ==
  ASSUME NEW r \in Run, NEW loaded \in Nat, loaded > 0, NEW owner, NEW attempts,
         NEW k \in Key(r), NEW ok \in BOOLEAN
  PROVE  EmitResult(r, k, ok) \in Seq(CallsOn(r, loaded, owner, attempts))
<1> DEFINE a == Graph[r].node[k]
           ev == IF ok THEN a.result ELSE a.fault
           C == CallsOn(r, loaded, owner, attempts)
           inject == [Op("inject") EXCEPT !.ev = ev]
<1>1. ev \in EventName
  BY NodeParts DEF NodeAttributes
<1>2. inject \in C
  BY <1>1, FreeCall DEF FreeOps
<1>3. FollowEdges(r, k, "event", ev) \in Seq(C)
  BY FollowCalls
<1>4. EmitResult(r, k, ok) = IF ev = NoEvent THEN <<>>
        ELSE FollowEdges(r, k, "event", ev)
             \o IF a.starts THEN <<inject>> ELSE <<>>
  BY DEF EmitResult
<1> HIDE DEF a, ev, C, inject
<1>5. <<inject>> \in Seq(C) /\ <<>> \in Seq(C)
  BY <1>2
<1>6. \A tail \in Seq(C) : FollowEdges(r, k, "event", ev) \o tail \in Seq(C)
  BY <1>3, ConcatProperties
<1> QED
  BY <1>4, <1>5, <1>6 DEF C

\* executeNode, by node type.
LEMMA ExecuteCall ==
  ASSUME NEW r \in Run, NEW loaded \in Nat, NEW owner, NEW attempts,
         NEW c \in 1..loaded, NEW k \in Key(r)
  PROVE  ExecuteNode(r, c, k) \in CallsOn(r, loaded, owner, attempts)
<1>1. loaded > 0
  OBVIOUS
<1>2. ASSUME NEW op \in {"complete", "fail", "context"}
      PROVE  OnKey(op, k) \in CallsOn(r, loaded, owner, attempts)
  BY <1>1, KeyCall DEF KeyOps
<1>3. ASSUME NEW op \in {"retry", "delay", "pause", "await", "subflow", "dispatch"}
      PROVE  OnNode(op, c, k) \in CallsOn(r, loaded, owner, attempts)
  BY RowCall DEF RowOps, CommandOps
<1>4. \/ \E op \in {"complete", "fail", "context"} : ExecuteNode(r, c, k) = OnKey(op, k)
      \/ \E op \in {"retry", "delay", "pause", "await", "subflow", "dispatch"} :
           ExecuteNode(r, c, k) = OnNode(op, c, k)
  BY DEF ExecuteNode
<1> QED
  BY <1>2, <1>3, <1>4

-----------------------------------------------------------------------------
(* Threads: what a step does to the stacks *)

GateOK == gate \in {NoThread, Timer, Callback}

\* What is known of the call a thread is about to make.
LEMMA TopParts ==
  ASSUME StacksOK, NEW t \in Thread, ~Idle(t)
  PROVE  /\ RunOf(t) \in Run
         /\ Snap(t) \in Snapshot(RunOf(t), Owner, Attempts)
         /\ Len(Snap(t).node) \in Nat
         /\ Len(Snap(t).node) <= Attempts[RunOf(t)]
         /\ Call(t) \in CallsOn(RunOf(t), Len(Snap(t).node), Owner, Attempts)
         /\ Tail(Top(t).todo)
              \in Seq(CallsOn(RunOf(t), Len(Snap(t).node), Owner, Attempts))
         /\ Tail(stack[t]) \in Seq(Frames(Owner, Attempts))
         /\ Top(t) = Frame(RunOf(t), Snap(t), Top(t).todo)
<1>1. stack[t] \in Seq(Frames(Owner, Attempts))
  BY StackFrames DEF StacksOK
<1>2. stack[t] # <<>>
  BY DEF Idle
<1>3. Top(t) \in Frames(Owner, Attempts) /\ Tail(stack[t]) \in Seq(Frames(Owner, Attempts))
  BY <1>1, <1>2, HeadTailProperties DEF Top
<1>4. /\ Top(t) = Frame(RunOf(t), Snap(t), Top(t).todo)
      /\ RunOf(t) \in Run
      /\ Snap(t) \in Snapshot(RunOf(t), Owner, Attempts)
      /\ Top(t).todo \in Seq(CallsOn(RunOf(t), Len(Snap(t).node), Owner, Attempts))
      /\ Top(t).todo # <<>>
  BY <1>3, FrameParts DEF RunOf, Snap
<1>5. /\ Call(t) \in CallsOn(RunOf(t), Len(Snap(t).node), Owner, Attempts)
      /\ Tail(Top(t).todo)
           \in Seq(CallsOn(RunOf(t), Len(Snap(t).node), Owner, Attempts))
  BY <1>4, HeadTailProperties DEF Call
<1>6. Len(Snap(t).node) \in Nat
  BY <1>4, SnapshotParts
<1>7. Len(Snap(t).node) <= Attempts[RunOf(t)]
  BY <1>4 DEF Snapshot
<1> QED
  BY <1>3, <1>4, <1>5, <1>6, <1>7

\* A thread's stack is replaced while the tables grow: the others stay typed.
LEMMA StackSet ==
  ASSUME StacksOK, GateOK, NEW t \in Thread,
         Grow(Owner, Attempts, Owner', Attempts'),
         NEW frames \in Seq(Frames(Owner', Attempts')),
         SetStack(t, frames)
  PROVE  StacksOK' /\ GateOK'
<1>1. stack' = [stack EXCEPT ![t] = frames]
  BY DEF SetStack
<1>2. DOMAIN stack' = Thread
  BY <1>1 DEF StacksOK
<1>3. ASSUME NEW u \in Thread
      PROVE  StackOK(stack'[u], Owner', Attempts')
  <2>1. CASE u = t
    BY <1>1, <2>1, StackFrames DEF StacksOK
  <2>2. CASE u # t
    <3>1. stack'[u] = stack[u]
      BY <1>1, <2>2 DEF StacksOK
    <3>2. stack[u] \in Seq(Frames(Owner, Attempts))
      BY StackFrames DEF StacksOK
    <3>3. stack[u] \in Seq(Frames(Owner', Attempts'))
      BY <3>2, FramesGrow
    <3> QED
      BY <3>1, <3>3, StackFrames
  <2> QED
    BY <2>1, <2>2
<1>4. GateOK'
  BY DEF SetStack, GateOK
<1> QED
  BY <1>2, <1>3, <1>4 DEF StacksOK

\* A call returns: the frame goes on with a copy that lost no attempt.
LEMMA Returned ==
  ASSUME StacksOK, GateOK, NEW t \in Thread, ~Idle(t),
         Grow(Owner, Attempts, Owner', Attempts'),
         NEW snap \in Snapshot(RunOf(t), Owner', Attempts'),
         Len(Snap(t).node) <= Len(snap.node),
         NEW calls \in Seq(CallsOn(RunOf(t), Len(snap.node), Owner', Attempts')),
         Return(t, snap, calls)
  PROVE  StacksOK' /\ GateOK'
<1> DEFINE r == RunOf(t)
           rest == Tail(Top(t).todo)
           todo == calls \o rest
<1>1. /\ r \in Run
      /\ Len(Snap(t).node) \in Nat
      /\ rest \in Seq(CallsOn(r, Len(Snap(t).node), Owner, Attempts))
      /\ Tail(stack[t]) \in Seq(Frames(Owner, Attempts))
  BY TopParts
<1>2. Len(snap.node) \in Nat
  BY <1>1, SnapshotParts
<1>3. rest \in Seq(CallsOn(r, Len(snap.node), Owner', Attempts'))
  BY <1>1, <1>2, CallsGrow
<1>4. todo \in Seq(CallsOn(r, Len(snap.node), Owner', Attempts'))
  BY <1>3, ConcatProperties
<1>5. Tail(stack[t]) \in Seq(Frames(Owner', Attempts'))
  BY <1>1, FramesGrow
<1>6. Push(Frame(r, snap, todo), Tail(stack[t])) \in Seq(Frames(Owner', Attempts'))
  BY <1>1, <1>4, <1>5, PushOK
<1>7. SetStack(t, Push(Frame(r, snap, todo), Tail(stack[t])))
  BY DEF Return
<1> QED
  BY <1>6, <1>7, StackSet

\* The frames below a call that enters another run.
LEMMA CallerOK ==
  ASSUME StacksOK, NEW t \in Thread, ~Idle(t),
         Grow(Owner, Attempts, Owner', Attempts')
  PROVE  Push(Caller(t), Tail(stack[t])) \in Seq(Frames(Owner', Attempts'))
<1> DEFINE r == RunOf(t)
           rest == Tail(Top(t).todo)
<1>1. /\ r \in Run
      /\ Snap(t) \in Snapshot(r, Owner, Attempts)
      /\ Len(Snap(t).node) \in Nat
      /\ rest \in Seq(CallsOn(r, Len(Snap(t).node), Owner, Attempts))
      /\ Tail(stack[t]) \in Seq(Frames(Owner, Attempts))
      /\ Top(t) = Frame(r, Snap(t), Top(t).todo)
  BY TopParts
<1>2. Caller(t) = Frame(r, Snap(t), rest)
  BY DEF Caller
<1>3. Snap(t) \in Snapshot(r, Owner', Attempts')
  BY <1>1, SnapshotGrows
<1>4. rest \in Seq(CallsOn(r, Len(Snap(t).node), Owner', Attempts'))
  BY <1>1, CallsGrow
<1>5. Tail(stack[t]) \in Seq(Frames(Owner', Attempts'))
  BY <1>1, FramesGrow
<1> QED
  BY <1>1, <1>2, <1>3, <1>4, <1>5, PushOK

\* A call enters another run on a copy of its own.
LEMMA Entered ==
  ASSUME StacksOK, GateOK, NEW t \in Thread, ~Idle(t),
         Grow(Owner, Attempts, Owner', Attempts'),
         NEW r \in Run, NEW snap \in Snapshot(r, Owner', Attempts'),
         NEW todo \in Seq(CallsOn(r, Len(snap.node), Owner', Attempts')),
         Enter(t, Frame(r, snap, todo))
  PROVE  StacksOK' /\ GateOK'
<1>1. Push(Caller(t), Tail(stack[t])) \in Seq(Frames(Owner', Attempts'))
  BY CallerOK
<1>2. Push(Frame(r, snap, todo), Push(Caller(t), Tail(stack[t])))
        \in Seq(Frames(Owner', Attempts'))
  BY <1>1, PushOK
<1> QED
  BY <1>2, StackSet DEF Enter

\* A call that does nothing.
LEMMA Skipped ==
  ASSUME StacksOK, GateOK, NEW t \in Thread, ~Idle(t),
         Grow(Owner, Attempts, Owner', Attempts'), Skip(t)
  PROVE  StacksOK' /\ GateOK'
<1>1. RunOf(t) \in Run /\ Snap(t) \in Snapshot(RunOf(t), Owner, Attempts)
  BY TopParts
<1>2. Snap(t) \in Snapshot(RunOf(t), Owner', Attempts')
  BY <1>1, SnapshotGrows
<1>3. Len(Snap(t).node) <= Len(Snap(t).node)
  BY TopParts
<1>4. <<>> \in Seq(CallsOn(RunOf(t), Len(Snap(t).node), Owner', Attempts'))
  OBVIOUS
<1>5. Return(t, Snap(t), <<>>)
  BY DEF Skip
<1> QED
  BY <1>2, <1>3, <1>4, <1>5, Returned

\* An exception ends the thread's work.
LEMMA Thrown ==
  ASSUME StacksOK, GateOK, NEW t \in Thread,
         Grow(Owner, Attempts, Owner', Attempts'), Throw(t)
  PROVE  StacksOK' /\ GateOK'
<1>1. <<>> \in Seq(Frames(Owner', Attempts'))
  OBVIOUS
<1> QED
  BY <1>1, StackSet DEF Throw

\* A thread that was idle starts with one frame.
LEMMA Started ==
  ASSUME StacksOK, NEW t \in Thread,
         Grow(Owner, Attempts, Owner', Attempts'),
         NEW r \in Run, NEW snap \in Snapshot(r, Owner', Attempts'),
         NEW todo \in Seq(CallsOn(r, Len(snap.node), Owner', Attempts')),
         todo # <<>>,
         stack' = [stack EXCEPT ![t] = <<Frame(r, snap, todo)>>]
  PROVE  StacksOK'
<1> DEFINE frames == <<Frame(r, snap, todo)>>
<1>1. frames \in Seq(Frames(Owner', Attempts'))
  BY FrameMade
<1> HIDE DEF frames
<1>2. DOMAIN stack' = Thread
  BY DEF StacksOK
<1>3. ASSUME NEW u \in Thread
      PROVE  StackOK(stack'[u], Owner', Attempts')
  <2>1. CASE u = t
    BY <1>1, <2>1, StackFrames DEF StacksOK, frames
  <2>2. CASE u # t
    <3>1. stack'[u] = stack[u]
      BY <2>2 DEF StacksOK
    <3>2. stack[u] \in Seq(Frames(Owner, Attempts))
      BY StackFrames DEF StacksOK
    <3>3. stack[u] \in Seq(Frames(Owner', Attempts'))
      BY <3>2, FramesGrow
    <3> QED
      BY <3>1, <3>3, StackFrames
  <2> QED
    BY <2>1, <2>2
<1> QED
  BY <1>2, <1>3 DEF StacksOK

\* No stack changes while the tables grow.
LEMMA StacksStay ==
  ASSUME StacksOK, Grow(Owner, Attempts, Owner', Attempts'), stack' = stack
  PROVE  StacksOK'
<1>1. ASSUME NEW u \in Thread
      PROVE  StackOK(stack'[u], Owner', Attempts')
  <2>1. stack[u] \in Seq(Frames(Owner, Attempts))
    BY StackFrames DEF StacksOK
  <2>2. stack[u] \in Seq(Frames(Owner', Attempts'))
    BY <2>1, FramesGrow
  <2> QED
    BY <2>2, StackFrames
<1> QED
  BY <1>1 DEF StacksOK

-----------------------------------------------------------------------------
(* Tables: what a write does to the shape of the rows *)

\* No run gets another attempt and no command is created.
SameShape == Owner' = Owner /\ Attempts' = Attempts

\* Attempts counts the loaded attempts of each run.
LEMMA AttemptsIn ==
  ASSUME RunsOK
  PROVE  /\ Attempts \in [Run -> Nat]
         /\ \A r \in Run : Attempts[r] = Len(node[r]) /\ node[r] \in NodeRows(r)
BY LenProperties DEF RunsOK, NodeRows, Attempts

\* Tables that keep their shape have grown, trivially.
LEMMA ShapeGrows ==
  ASSUME RunsOK, SameShape
  PROVE  Grow(Owner, Attempts, Owner', Attempts')
BY AttemptsIn DEF SameShape, Grow

\* What is known of a command row.
LEMMA CommandsParts ==
  ASSUME CommandsOK
  PROVE  /\ DOMAIN cmd = 1..Len(cmd) /\ Len(cmd) \in Nat
         /\ DOMAIN Owner = DOMAIN cmd
         /\ \A i \in DOMAIN cmd : Owner[i] = cmd[i].run /\ cmd[i] \in CommandRow
BY LenProperties DEF CommandsOK, Owner

\* A step that writes no run and no node.
LEMMA TablesRead ==
  ASSUME RunsOK, UNCHANGED <<run, node, traversed, decided>>
  PROVE  RunsOK' /\ Attempts' = Attempts
BY DEF RunsOK, Attempts

\* A step that writes no command.
LEMMA CommandsRead ==
  ASSUME CommandsOK, Attempts' = Attempts, UNCHANGED cmd
  PROVE  CommandsOK' /\ Owner' = Owner
BY DEF CommandsOK, Owner

\* A step that schedules nothing.
LEMMA TimerRead ==
  ASSUME TimerOK, Attempts' = Attempts, UNCHANGED timer
  PROVE  TimerOK'
BY DEF TimerOK

\* The rows of one run are replaced by as many others.
LEMMA NodeTable ==
  ASSUME RunsOK, UNCHANGED <<run, traversed>>, decided' \subseteq NodeRun(Attempts),
         NEW r \in Run,
         NEW rows \in NodeRows(r), Len(rows) = Len(node[r]),
         node' = [node EXCEPT ![r] = rows]
  PROVE  RunsOK' /\ Attempts' = Attempts
<1>1. DOMAIN node' = Run /\ node'[r] = rows
      /\ \A s \in Run : s # r => node'[s] = node[s]
  BY DEF RunsOK
<1>2. \A s \in Run : Len(node'[s]) = Len(node[s])
  BY <1>1
<1>3. Attempts' = Attempts
  BY <1>2 DEF Attempts
<1>4. rows = <<>> <=> node[r] = <<>>
  BY EmptySeq, AttemptsIn DEF NodeRows
<1>5. \A s \in Run : /\ node'[s] \in NodeRows(s)
                     /\ run'[s].state = "NONE" <=> node'[s] = <<>>
  BY <1>1, <1>4 DEF RunsOK
<1> QED
  BY <1>1, <1>3, <1>5 DEF RunsOK

\* One row of node_runs is written.
LEMMA RowWrite ==
  ASSUME RunsOK, UNCHANGED <<run, traversed, decided>>, NEW r \in Run,
         NEW c \in 1..Len(node[r]), NEW k \in Key(r), NEW row \in NodeRow,
         node' = [node EXCEPT ![r][c][k] = row]
  PROVE  RunsOK' /\ Attempts' = Attempts
<1> DEFINE rows == [node[r] EXCEPT ![c][k] = row]
<1>1. rows \in NodeRows(r) /\ Len(rows) = Len(node[r])
  BY AttemptsIn, RowWritten
<1>2. node' = [node EXCEPT ![r] = rows]
  OBVIOUS
<1> HIDE DEF rows
<1>3. decided' \subseteq NodeRun(Attempts)
  BY DEF RunsOK
<1> QED
  BY <1>1, <1>2, <1>3, NodeTable

\* updateNodeRun writes the state of one row.
LEMMA NodeUpdate ==
  ASSUME RunsOK, UNCHANGED <<run, traversed, decided>>, NEW r \in Run,
         NEW c \in 1..Len(node[r]), NEW k \in Key(r), NEW state \in NodeState,
         UpdateNodeRun(r, c, k, state)
  PROVE  RunsOK' /\ Attempts' = Attempts
<1> DEFINE rows == [node[r] EXCEPT ![c][k].state = state]
<1>1. rows \in NodeRows(r) /\ Len(rows) = Len(node[r])
  BY AttemptsIn, StateWritten
<1>2. node' = [node EXCEPT ![r] = rows] /\ decided' \subseteq NodeRun(Attempts)
  BY DEF UpdateNodeRun, RunsOK
<1> HIDE DEF rows
<1> QED
  BY <1>1, <1>2, NodeTable

\* The state of a run that exists is written, with a cycle and a next flag.
LEMMA RunUpdate ==
  ASSUME RunsOK, UNCHANGED <<node, traversed, decided>>, NEW r \in Run,
         Len(node[r]) > 0, NEW state \in RunState, state # "NONE",
         NEW snap, snap.cycle \in Nat, snap.next \in BOOLEAN,
         UpdateWorkflowRunState(r, state, snap)
  PROVE  RunsOK' /\ Attempts' = Attempts
<1>1. Attempts' = Attempts
  BY DEF Attempts
<1>2. node[r] # <<>>
  BY EmptySeq
<1>3. /\ run' \in [Run -> RunRow(Attempts)]
      /\ run'[r].state = state
      /\ \A s \in Run : s # r => run'[s] = run[s]
  <2> DEFINE row == [run[r] EXCEPT !.state = state, !.cycle = snap.cycle,
                                   !.next = snap.next]
  <2>1. run[r] \in RunRow(Attempts) /\ run \in [Run -> RunRow(Attempts)]
    BY DEF RunsOK
  <2>2. row \in RunRow(Attempts) /\ row.state = state
    BY <2>1 DEF RunRow
  <2>3. run' = [run EXCEPT ![r] = row]
    BY DEF UpdateWorkflowRunState
  <2> HIDE DEF row
  <2> QED
    BY <2>1, <2>2, <2>3
<1> QED
  BY <1>1, <1>2, <1>3 DEF RunsOK

-----------------------------------------------------------------------------
(* Steps of a thread *)

LEMMA CallParts ==
  ASSUME TypeOK, NEW t \in Thread, ~Idle(t)
  PROVE  /\ RunOf(t) \in Run
         /\ Snap(t) \in Snapshot(RunOf(t), Owner, Attempts)
         /\ Len(Snap(t).node) \in Nat /\ Len(node[RunOf(t)]) \in Nat
         /\ Len(Snap(t).node) <= Len(node[RunOf(t)])
         /\ Call(t) \in OpRecord
         /\ Call(t).op \notin FreeOps =>
              /\ Len(Snap(t).node) > 0 /\ Len(node[RunOf(t)]) > 0
              /\ Newest(Snap(t)) \in 1..Len(Snap(t).node)
              /\ Newest(Snap(t)) \in 1..Len(node[RunOf(t)])
         /\ Call(t).op \in KeyOps \cup RowOps => Call(t).k \in Key(RunOf(t))
         /\ Call(t).op \in RowOps =>
              /\ Call(t).c \in 1..Len(Snap(t).node)
              /\ Call(t).c \in 1..Len(node[RunOf(t)])
         /\ Call(t).op \in CommandOps =>
              Call(t).i \in DOMAIN cmd /\ cmd[Call(t).i].run = RunOf(t)
         /\ Call(t).op = "edge" => Call(t).i \in EdgeIds(RunOf(t))
         /\ Call(t).op = "boot" => Len(node[RunOf(t)]) > 0
<1> DEFINE r == RunOf(t)
           loaded == Len(Snap(t).node)
<1>1. /\ r \in Run
      /\ Snap(t) \in Snapshot(r, Owner, Attempts)
      /\ loaded \in Nat /\ loaded <= Attempts[r]
      /\ Call(t) \in CallsOn(r, loaded, Owner, Attempts)
  BY TopParts DEF TypeOK
<1>2. Attempts[r] = Len(node[r]) /\ Len(node[r]) \in Nat
  BY <1>1, AttemptsIn DEF TypeOK
<1>3. /\ Call(t) \in OpRecord
      /\ Call(t).op \notin FreeOps => loaded > 0
      /\ Call(t).op = "boot" => Attempts[r] > 0
      /\ Call(t).op \in KeyOps \cup RowOps => Call(t).k \in Key(r)
      /\ Call(t).op \in RowOps => Call(t).c \in 1..loaded
      /\ Call(t).op \in CommandOps => Call(t).i \in DOMAIN Owner /\ Owner[Call(t).i] = r
      /\ Call(t).op = "edge" => Call(t).i \in EdgeIds(r)
  BY <1>1 DEF CallsOn
<1>4. Call(t).op \in CommandOps => Call(t).i \in DOMAIN cmd /\ cmd[Call(t).i].run = r
  BY <1>3, CommandsParts DEF TypeOK
<1>5. Call(t).op \in RowOps => Call(t).c \in 1..Len(node[r])
  BY <1>1, <1>2, <1>3
<1>6. Call(t).op \notin FreeOps =>
        /\ Len(node[r]) > 0
        /\ Newest(Snap(t)) \in 1..loaded
        /\ Newest(Snap(t)) \in 1..Len(node[r])
  BY <1>1, <1>2, <1>3 DEF Newest
<1> HIDE DEF r, loaded
<1>7. /\ r \in Run
      /\ Snap(t) \in Snapshot(r, Owner, Attempts)
      /\ loaded \in Nat /\ Len(node[r]) \in Nat
      /\ loaded <= Len(node[r])
      /\ Call(t).op = "boot" => Len(node[r]) > 0
  BY <1>1, <1>2, <1>3
<1> QED
  BY <1>3, <1>4, <1>5, <1>6, <1>7 DEF r, loaded

\* A step that keeps the shape of the tables and works on its top frame.
LEMMA LocalStep ==
  ASSUME TypeOK, NEW t \in Thread, ~Idle(t),
         RunsOK', CommandsOK', TimerOK', SameShape, UNCHANGED budget,
         NEW snap \in Snapshot(RunOf(t), Owner, Attempts),
         Len(Snap(t).node) <= Len(snap.node),
         NEW calls \in Seq(CallsOn(RunOf(t), Len(snap.node), Owner, Attempts)),
         Return(t, snap, calls)
  PROVE  TypeOK'
<1>1. Grow(Owner, Attempts, Owner', Attempts')
  BY ShapeGrows DEF TypeOK
<1>2. Owner' = Owner /\ Attempts' = Attempts
  BY DEF SameShape
<1>3. StacksOK /\ GateOK
  BY DEF TypeOK, GateOK
<1>4. /\ snap \in Snapshot(RunOf(t), Owner', Attempts')
      /\ calls \in Seq(CallsOn(RunOf(t), Len(snap.node), Owner', Attempts'))
  BY <1>2
<1>5. StacksOK' /\ GateOK'
  BY <1>1, <1>3, <1>4, Returned
<1> QED
  BY <1>5 DEF TypeOK, GateOK

\* A step that returns without touching its copy.
LEMMA SkipStep ==
  ASSUME TypeOK, NEW t \in Thread, ~Idle(t),
         RunsOK', CommandsOK', TimerOK', SameShape, UNCHANGED budget, Skip(t)
  PROVE  TypeOK'
<1>1. Grow(Owner, Attempts, Owner', Attempts')
  BY ShapeGrows DEF TypeOK
<1>2. StacksOK /\ GateOK
  BY DEF TypeOK, GateOK
<1>3. StacksOK' /\ GateOK'
  BY <1>1, <1>2, Skipped
<1> QED
  BY <1>3 DEF TypeOK, GateOK

\* A row of the run is written, in the table and in the copy.
LEMMA NodeStep ==
  ASSUME TypeOK, NEW t \in Thread, ~Idle(t),
         UNCHANGED <<run, traversed, decided, cmd, timer, budget>>,
         NEW c \in 1..Len(Snap(t).node), NEW k \in Key(RunOf(t)),
         NEW state \in NodeState, UpdateNodeRun(RunOf(t), c, k, state),
         NEW calls \in Seq(CallsOn(RunOf(t), Len(Snap(t).node), Owner, Attempts)),
         Return(t, SetNode(Snap(t), c, k, state), calls)
  PROVE  TypeOK'
<1>1. /\ RunOf(t) \in Run
      /\ Snap(t) \in Snapshot(RunOf(t), Owner, Attempts)
      /\ Len(Snap(t).node) \in Nat /\ Len(node[RunOf(t)]) \in Nat
      /\ Len(Snap(t).node) <= Len(node[RunOf(t)])
  BY CallParts
<1>2. c \in 1..Len(node[RunOf(t)])
  BY <1>1
<1>3. RunsOK' /\ Attempts' = Attempts
  BY <1>1, <1>2, NodeUpdate DEF TypeOK
<1>4. CommandsOK' /\ Owner' = Owner /\ TimerOK'
  BY <1>3, CommandsRead, TimerRead DEF TypeOK
<1>5. /\ SetNode(Snap(t), c, k, state) \in Snapshot(RunOf(t), Owner, Attempts)
      /\ Len(SetNode(Snap(t), c, k, state).node) = Len(Snap(t).node)
  BY <1>1, NodeSet
<1> QED
  BY <1>1, <1>3, <1>4, <1>5, LocalStep DEF SameShape

\* The state of the run is written, then the call returns.
LEMMA RunStep ==
  ASSUME TypeOK, NEW t \in Thread, ~Idle(t), Len(Snap(t).node) > 0,
         UNCHANGED <<node, traversed, decided, cmd, budget>>,
         NEW state \in RunState, state # "NONE",
         NEW written, written.cycle \in Nat, written.next \in BOOLEAN,
         UpdateWorkflowRunState(RunOf(t), state, written),
         TimerOK',
         NEW snap \in Snapshot(RunOf(t), Owner, Attempts),
         Len(snap.node) = Len(Snap(t).node),
         NEW calls \in Seq(CallsOn(RunOf(t), Len(Snap(t).node), Owner, Attempts)),
         Return(t, snap, calls)
  PROVE  TypeOK'
<1>1. /\ RunOf(t) \in Run
      /\ Len(Snap(t).node) \in Nat /\ Len(node[RunOf(t)]) \in Nat
      /\ Len(Snap(t).node) <= Len(node[RunOf(t)])
  BY CallParts
<1>2. Len(node[RunOf(t)]) > 0
  BY <1>1
<1>3. RunsOK' /\ Attempts' = Attempts
  BY <1>1, <1>2, RunUpdate DEF TypeOK
<1>4. CommandsOK' /\ Owner' = Owner
  BY <1>3, CommandsRead DEF TypeOK
<1> QED
  BY <1>1, <1>3, <1>4, LocalStep DEF SameShape

\* A copy whose run was written.
WithState(snap, state) == [snap EXCEPT !.state = state]
WithNext(snap) == [snap EXCEPT !.next = TRUE]

\* The run's state, or its next-cycle flag, is written to the copy.
LEMMA CopyRun ==
  ASSUME NEW owner, NEW attempts, NEW r \in Run,
         NEW snap \in Snapshot(r, owner, attempts), Len(snap.node) > 0,
         NEW state \in RunState, state # "NONE"
  PROVE  /\ WithState(snap, state) \in Snapshot(r, owner, attempts)
         /\ Len(WithState(snap, state).node) = Len(snap.node)
         /\ WithNext(snap) \in Snapshot(r, owner, attempts)
         /\ Len(WithNext(snap).node) = Len(snap.node)
         /\ WithNext(snap).cycle = snap.cycle
         /\ WithNext(snap).next \in BOOLEAN
<1>1. snap.node # <<>>
  BY EmptySeq
<1> QED
  BY <1>1 DEF Snapshot, WithState, WithNext

-----------------------------------------------------------------------------
(* One lemma per action *)

LEMMA TopCopy ==
  ASSUME TypeOK, NEW t \in Thread, ~Idle(t), Call(t).op \notin FreeOps,
         NEW state \in RunState, state # "NONE"
  PROVE  /\ WithState(Snap(t), state) \in Snapshot(RunOf(t), Owner, Attempts)
         /\ Len(WithState(Snap(t), state).node) = Len(Snap(t).node)
         /\ WithNext(Snap(t)) \in Snapshot(RunOf(t), Owner, Attempts)
         /\ Len(WithNext(Snap(t)).node) = Len(Snap(t).node)
         /\ WithNext(Snap(t)).cycle \in Nat /\ WithNext(Snap(t)).next \in BOOLEAN
<1>1. PICK r \in Run : r = RunOf(t)
  BY CallParts
<1>2. PICK snap \in Snapshot(r, Owner, Attempts) : snap = Snap(t)
  BY <1>1, CallParts
<1>3. Len(snap.node) > 0 /\ snap.cycle \in Nat
  BY <1>2, CallParts, SnapshotParts
<1>4. /\ WithState(snap, state) \in Snapshot(r, Owner, Attempts)
      /\ Len(WithState(snap, state).node) = Len(snap.node)
  BY <1>3, CopyRun
<1>5. /\ WithNext(snap) \in Snapshot(r, Owner, Attempts)
      /\ Len(WithNext(snap).node) = Len(snap.node)
      /\ WithNext(snap).cycle = snap.cycle /\ WithNext(snap).next \in BOOLEAN
  BY <1>3, CopyRun
<1> QED
  BY <1>1, <1>2, <1>3, <1>4, <1>5

\* Short sequences of calls.
LEMMA OneCall ==
  ASSUME NEW S, NEW a \in S
  PROVE  <<a>> \in Seq(S)
OBVIOUS

\* A sequence of two calls.
LEMMA TwoCalls ==
  ASSUME NEW S, NEW a \in S, NEW b \in S
  PROVE  <<a, b>> \in Seq(S)
OBVIOUS

\* A sequence of four calls.
LEMMA FourCalls ==
  ASSUME NEW S, NEW a \in S, NEW b \in S, NEW c \in S, NEW d \in S
  PROVE  <<a, b, c, d>> \in Seq(S) /\ <<a, b, c, d>> # <<>>
OBVIOUS

\* followEdges and the check that ends the run, the tail of most handlers.
LEMMA FollowThenFinish ==
  ASSUME NEW r \in Run, NEW loaded \in Nat, loaded > 0, NEW owner, NEW attempts,
         NEW src, NEW kind, NEW event
  PROVE  FollowEdges(r, src, kind, event) \o <<Op("maybeFinish")>>
           \in Seq(CallsOn(r, loaded, owner, attempts))
<1>1. Op("maybeFinish") \in CallsOn(r, loaded, owner, attempts)
  BY RunCall DEF OtherOps
<1>2. FollowEdges(r, src, kind, event) \in Seq(CallsOn(r, loaded, owner, attempts))
  BY FollowCalls
<1> QED
  BY <1>1, <1>2, ConcatProperties

\* completeNode follows the success edges, or ends the cycle.
LEMMA StepCompleteNode ==
  ASSUME TypeOK, NEW t \in Thread, CompleteNode(t)
  PROVE  TypeOK'
<1> DEFINE r == RunOf(t)
           k == Call(t).k
           c == Newest(Snap(t))
           C == CallsOn(r, Len(Snap(t).node), Owner, Attempts)
           calls == IF TypeOf(r, k) = "END" THEN <<Op("finish")>>
                    ELSE FollowEdges(r, k, "success", NoEvent)
                         \o <<Op("maybeFinish")>>
<1>1. ~Idle(t) /\ Call(t).op = "complete"
  BY DEF CompleteNode, Calls
<1>2. /\ r \in Run /\ k \in Key(r) /\ c \in 1..Len(Snap(t).node)
      /\ Len(Snap(t).node) \in Nat /\ Len(Snap(t).node) > 0
  BY <1>1, CallParts DEF KeyOps, FreeOps
<1>3. calls \in Seq(C)
  <2>1. Op("finish") \in C
    BY <1>2, RunCall DEF OtherOps
  <2>2. FollowEdges(r, k, "success", NoEvent) \o <<Op("maybeFinish")>> \in Seq(C)
    BY <1>2, FollowThenFinish
  <2> HIDE DEF C
  <2> QED
    BY <2>1, <2>2, OneCall, TwoCalls
<1>4. UpdateNodeRun(r, c, k, "SUCCEEDED") /\ Return(t, SetNode(Snap(t), c, k, "SUCCEEDED"), calls)
      /\ UNCHANGED <<run, traversed, decided, cmd, timer, budget>>
  BY DEF CompleteNode
<1>5. "SUCCEEDED" \in NodeState
  BY DEF NodeState, Terminal
<1> HIDE DEF calls, c, k
<1> QED
  BY <1>1, <1>2, <1>3, <1>4, <1>5, NodeStep

\* failNode follows the failure edge, or fails the run and tells its parent.
LEMMA StepFailNode ==
  ASSUME TypeOK, NEW t \in Thread, FailNode(t)
  PROVE  TypeOK'
<1> DEFINE r == RunOf(t)
           k == Call(t).k
           c == Newest(Snap(t))
           C == CallsOn(r, Len(Snap(t).node), Owner, Attempts)
           calls == IF HasFailureEdge(r, k)
                      THEN FollowEdges(r, k, "failure", NoEvent)
                           \o <<Op("maybeFinish")>>
                      ELSE <<Op("failRun"), NotifyParent(FALSE)>>
<1>1. ~Idle(t) /\ Call(t).op = "fail"
  BY DEF FailNode, Calls
<1>2. /\ r \in Run /\ k \in Key(r) /\ c \in 1..Len(Snap(t).node)
      /\ Len(Snap(t).node) \in Nat /\ Len(Snap(t).node) > 0
  BY <1>1, CallParts DEF KeyOps, FreeOps
<1>3. calls \in Seq(C)
  <2>1. Op("failRun") \in C /\ NotifyParent(FALSE) \in C
    BY <1>2, RunCall DEF OtherOps, NotifyParent
  <2>2. FollowEdges(r, k, "failure", NoEvent) \o <<Op("maybeFinish")>> \in Seq(C)
    BY <1>2, FollowThenFinish
  <2> HIDE DEF C
  <2> QED
    BY <2>1, <2>2, OneCall, TwoCalls
<1>4. UpdateNodeRun(r, c, k, "FAILED") /\ Return(t, SetNode(Snap(t), c, k, "FAILED"), calls)
      /\ UNCHANGED <<run, traversed, decided, cmd, timer, budget>>
  BY DEF FailNode
<1>5. "FAILED" \in NodeState
  BY DEF NodeState, Terminal
<1> HIDE DEF calls, c, k
<1> QED
  BY <1>1, <1>2, <1>3, <1>4, <1>5, NodeStep

\* The run is marked FAILED.
LEMMA StepFailRun ==
  ASSUME TypeOK, NEW t \in Thread, FailRun(t)
  PROVE  TypeOK'
<1>1. ~Idle(t) /\ Call(t).op = "failRun"
  BY DEF FailRun, Calls
<1>2. /\ RunOf(t) \in Run /\ Snap(t) \in Snapshot(RunOf(t), Owner, Attempts)
      /\ Len(Snap(t).node) \in Nat /\ Len(Snap(t).node) > 0
  BY <1>1, CallParts DEF FreeOps
<1>3. Snap(t).cycle \in Nat /\ Snap(t).next \in BOOLEAN
  BY <1>2, SnapshotParts
<1>4. "FAILED" \in RunState /\ "FAILED" # "NONE"
  BY DEF RunState, Terminal
<1>5. /\ WithState(Snap(t), "FAILED") \in Snapshot(RunOf(t), Owner, Attempts)
      /\ Len(WithState(Snap(t), "FAILED").node) = Len(Snap(t).node)
  BY <1>1, <1>4, TopCopy DEF FreeOps
<1>6. <<>> \in Seq(CallsOn(RunOf(t), Len(Snap(t).node), Owner, Attempts))
  OBVIOUS
<1>7. Attempts' = Attempts /\ TimerOK'
  BY TimerRead DEF FailRun, TypeOK, Attempts
<1>8. /\ UpdateWorkflowRunState(RunOf(t), "FAILED", Snap(t))
      /\ Return(t, WithState(Snap(t), "FAILED"), <<>>)
      /\ UNCHANGED <<node, traversed, decided, cmd, timer, budget>>
  BY DEF FailRun, WithState
<1> QED
  BY <1>1, <1>2, <1>3, <1>4, <1>5, <1>6, <1>7, <1>8, RunStep

\* The run is marked CANCELLED.
LEMMA StepCancelRun ==
  ASSUME TypeOK, NEW t \in Thread, CancelRun(t)
  PROVE  TypeOK'
<1>1. ~Idle(t) /\ Call(t).op = "cancelRun"
  BY DEF CancelRun, Calls
<1>2. /\ RunOf(t) \in Run /\ Snap(t) \in Snapshot(RunOf(t), Owner, Attempts)
      /\ Len(Snap(t).node) \in Nat /\ Len(Snap(t).node) > 0
  BY <1>1, CallParts DEF FreeOps
<1>3. Snap(t).cycle \in Nat /\ Snap(t).next \in BOOLEAN
  BY <1>2, SnapshotParts
<1>4. "CANCELLED" \in RunState /\ "CANCELLED" # "NONE"
  BY DEF RunState, Terminal
<1>5. /\ WithState(Snap(t), "CANCELLED") \in Snapshot(RunOf(t), Owner, Attempts)
      /\ Len(WithState(Snap(t), "CANCELLED").node) = Len(Snap(t).node)
  BY <1>1, <1>4, TopCopy DEF FreeOps
<1>6. <<>> \in Seq(CallsOn(RunOf(t), Len(Snap(t).node), Owner, Attempts))
  OBVIOUS
<1>7. Attempts' = Attempts /\ TimerOK'
  BY TimerRead DEF CancelRun, TypeOK, Attempts
<1>8. /\ UpdateWorkflowRunState(RunOf(t), "CANCELLED", Snap(t))
      /\ Return(t, WithState(Snap(t), "CANCELLED"), <<>>)
      /\ UNCHANGED <<node, traversed, decided, cmd, timer, budget>>
  BY DEF CancelRun, WithState
<1> QED
  BY <1>1, <1>2, <1>3, <1>4, <1>5, <1>6, <1>7, <1>8, RunStep

\* ROBOT and STATION store the context of the run.
LEMMA StepExecuteContext ==
  ASSUME TypeOK, NEW t \in Thread, ExecuteContext(t)
  PROVE  TypeOK'
<1> DEFINE calls == <<OnKey("complete", Call(t).k)>>
<1>1. ~Idle(t) /\ Call(t).op = "context"
  BY DEF ExecuteContext, Calls
<1>2. /\ RunOf(t) \in Run /\ Snap(t) \in Snapshot(RunOf(t), Owner, Attempts)
      /\ Len(Snap(t).node) \in Nat /\ Len(Snap(t).node) > 0
      /\ Call(t).k \in Key(RunOf(t))
  BY <1>1, CallParts DEF FreeOps, KeyOps
<1>3. /\ Snap(t).cycle \in Nat /\ Snap(t).next \in BOOLEAN
      /\ Snap(t).state \in RunState /\ Snap(t).state # "NONE"
  BY <1>2, SnapshotParts
<1>4. calls \in Seq(CallsOn(RunOf(t), Len(Snap(t).node), Owner, Attempts))
  BY <1>2, KeyCall, OneCall DEF KeyOps
<1>5. Attempts' = Attempts /\ TimerOK'
  BY TimerRead DEF ExecuteContext, TypeOK, Attempts
<1>6. /\ UpdateWorkflowRunState(RunOf(t), Snap(t).state, Snap(t))
      /\ Return(t, Snap(t), calls)
      /\ UNCHANGED <<node, traversed, decided, cmd, timer, budget>>
  BY DEF ExecuteContext
<1> HIDE DEF calls
<1> QED
  BY <1>1, <1>2, <1>3, <1>4, <1>5, <1>6, RunStep

\* The traversal of an edge is recorded in the tables.
LEMMA TraversalWritten ==
  ASSUME RunsOK, UNCHANGED <<run, node, decided>>, NEW r \in Run,
         NEW mark \in Traversal(r),
         traversed' = [traversed EXCEPT ![r] = @ \cup {mark}]
  PROVE  RunsOK' /\ Attempts' = Attempts
<1>1. Attempts' = Attempts
  BY DEF Attempts
<1>2. \A s \in Run : traversed'[s] \subseteq Traversal(s)
  BY DEF RunsOK
<1>3. DOMAIN traversed' = Run
  BY DEF RunsOK
<1> QED
  BY <1>1, <1>2, <1>3 DEF RunsOK

WithMark(snap, mark) == [snap EXCEPT !.traversed = @ \cup {mark}]

\* The traversal of an edge is recorded in the copy.
LEMMA CopyMark ==
  ASSUME NEW owner, NEW attempts, NEW r \in Run,
         NEW snap \in Snapshot(r, owner, attempts), NEW mark \in Traversal(r)
  PROVE  /\ WithMark(snap, mark) \in Snapshot(r, owner, attempts)
         /\ WithMark(snap, mark).node = snap.node
BY DEF WithMark, Snapshot

\* One iteration of followEdges: the target is activated, parked or left
\* alone.
LEMMA StepTraverseEdge ==
  ASSUME TypeOK, NEW t \in Thread, TraverseEdge(t)
  PROVE  TypeOK'
<1> DEFINE r == RunOf(t)
           i == Call(t).i
           e == Graph[r].edges[i]
           C == CallsOn(r, Len(Snap(t).node), Owner, Attempts)
           others == FollowFrom(r, e.src, e.kind, e.event, i)
           mark == <<i, Snap(t).cycle>>
           snap == WithMark(Snap(t), mark)
           ready == \/ e.kind = "failure"
                    \/ EvaluateJoin(r, e.dst, snap.cycle, Latest(snap),
                                    snap.traversed)
           first == IF ready THEN <<OnKey("activate", e.dst)>>
                    ELSE IF Latest(snap)[e.dst].state = "PENDING"
                      THEN <<OnNode("park", Newest(snap), e.dst)>>
                      ELSE <<>>
<1>1. ~Idle(t) /\ Call(t).op = "edge"
  BY DEF TraverseEdge, Calls
<1>2. /\ r \in Run /\ i \in EdgeIds(r)
      /\ Snap(t) \in Snapshot(r, Owner, Attempts)
      /\ Len(Snap(t).node) \in Nat /\ Len(Snap(t).node) > 0
      /\ Newest(Snap(t)) \in 1..Len(Snap(t).node)
  BY <1>1, CallParts DEF FreeOps
<1>3. e.dst \in Key(r)
  BY <1>2, EdgeParts
<1>4. mark \in Traversal(r)
  BY <1>2, SnapshotParts DEF Traversal
<1>5. /\ traversed' = [traversed EXCEPT ![r] = @ \cup {mark}]
      /\ Return(t, snap, first \o others)
      /\ UNCHANGED <<run, node, decided, cmd, timer, budget>>
  BY DEF TraverseEdge, WithMark
<1> HIDE DEF mark
<1>6. snap \in Snapshot(r, Owner, Attempts) /\ snap.node = Snap(t).node
  BY <1>2, <1>4, CopyMark
<1>7. Newest(snap) \in 1..Len(Snap(t).node) /\ Len(snap.node) = Len(Snap(t).node)
  BY <1>2, <1>6 DEF Newest
<1>8. OnKey("activate", e.dst) \in C
  BY <1>2, <1>3, KeyCall DEF KeyOps
<1>9. OnNode("park", Newest(snap), e.dst) \in C
  BY <1>2, <1>3, <1>7, RowCall DEF RowOps, CommandOps
<1>10. others \in Seq(C)
  BY <1>2, FollowFromCalls
<1> HIDE DEF r, i, e, C, others, ready, snap
<1>11. first \in Seq(C)
  BY <1>8, <1>9, OneCall
<1> HIDE DEF first
<1>12. first \o others \in Seq(C)
  BY <1>10, <1>11, ConcatProperties
<1>13. RunsOK' /\ Attempts' = Attempts
  BY <1>2, <1>4, <1>5, TraversalWritten DEF TypeOK
<1>14. CommandsOK' /\ Owner' = Owner /\ TimerOK'
  BY <1>5, <1>13, CommandsRead, TimerRead DEF TypeOK
<1> DEFINE calls == first \o others
<1>15. calls \in Seq(CallsOn(RunOf(t), Len(snap.node), Owner, Attempts))
  BY <1>7, <1>12 DEF r, C
<1>16. snap \in Snapshot(RunOf(t), Owner, Attempts) /\ Len(Snap(t).node) <= Len(snap.node)
  BY <1>2, <1>6, <1>7 DEF r
<1>17. Return(t, snap, calls) /\ UNCHANGED budget
  BY <1>5
<1> HIDE DEF calls
<1> QED
  BY <1>1, <1>13, <1>14, <1>15, <1>16, <1>17, LocalStep DEF SameShape

\* activateNode executes a node that is PENDING in the copy.
LEMMA StepActivateNode ==
  ASSUME TypeOK, NEW t \in Thread, ActivateNode(t)
  PROVE  TypeOK'
<1> DEFINE r == RunOf(t)
           k == Call(t).k
           c == Newest(Snap(t))
           C == CallsOn(r, Len(Snap(t).node), Owner, Attempts)
<1>1. ~Idle(t) /\ Call(t).op = "activate"
  BY DEF ActivateNode, Calls
<1>2. /\ r \in Run /\ k \in Key(r) /\ c \in 1..Len(Snap(t).node)
      /\ Len(Snap(t).node) \in Nat
  BY <1>1, CallParts DEF KeyOps, FreeOps
<1>3. CASE Latest(Snap(t))[k].state = "PENDING"
  <2>1. <<ExecuteNode(r, c, k)>> \in Seq(C)
    BY <1>2, ExecuteCall, OneCall
  <2>2. /\ UpdateNodeRun(r, c, k, "RUNNING")
        /\ Return(t, SetNode(Snap(t), c, k, "RUNNING"), <<ExecuteNode(r, c, k)>>)
        /\ UNCHANGED <<run, traversed, decided, cmd, timer, budget>>
    BY <1>3 DEF ActivateNode
  <2>3. "RUNNING" \in NodeState
    BY DEF NodeState, OpenNode
  <2> HIDE DEF c, k
  <2> QED
    BY <1>1, <1>2, <2>1, <2>2, <2>3, NodeStep
<1>4. CASE Latest(Snap(t))[k].state # "PENDING"
  <2>1. Skip(t) /\ UNCHANGED <<run, node, traversed, decided, cmd, timer, budget>>
    BY <1>4 DEF ActivateNode
  <2>2. RunsOK' /\ CommandsOK' /\ TimerOK' /\ SameShape
    BY <2>1, TablesRead, CommandsRead, TimerRead DEF TypeOK, SameShape
  <2> QED
    BY <1>1, <2>1, <2>2, SkipStep
<1> QED
  BY <1>3, <1>4

\* A task is scheduled.
LEMMA TimerAdded ==
  ASSUME TimerOK, Attempts' = Attempts, NEW task \in Task,
         Attempts[task.run] > 0,
         task.kind # "cycle" => <<task.run, task.c, task.k>> \in NodeRun(Attempts),
         timer' = BagAdd(timer, task)
  PROVE  TimerOK'
<1>1. DOMAIN timer' = DOMAIN timer \cup {task}
  BY DEF BagAdd
<1> QED
  BY <1>1 DEF TimerOK

\* The tasks of a node run.
LEMMA NodeTask ==
  ASSUME RunsOK, NEW r \in Run, NEW c \in 1..Len(node[r]), NEW k \in Key(r),
         NEW kind \in {"delay", "retry"}
  PROVE  /\ [kind |-> kind, run |-> r, c |-> c, k |-> k] \in Task
         /\ <<r, c, k>> \in NodeRun(Attempts) /\ Attempts[r] > 0
<1>1. Attempts[r] = Len(node[r]) /\ Len(node[r]) \in Nat
  BY AttemptsIn
<1>2. k \in NodeKey /\ c \in Nat
  BY NodeParts
<1>3. [kind |-> kind, run |-> r, c |-> c, k |-> k] \in Task
  BY <1>2 DEF Task
<1>4. c \in 1..Attempts[r]
  BY <1>1
<1>5. <<r, c, k>> \in NodeRun(Attempts)
  BY <1>2, <1>4 DEF NodeRun
<1>6. Attempts[r] > 0
  BY <1>1, <1>4
<1> QED
  BY <1>3, <1>5, <1>6

\* The END node ends the run or schedules its next cycle.
LEMMA StepFinishOrRepeat ==
  ASSUME TypeOK, NEW t \in Thread, FinishOrRepeat(t)
  PROVE  TypeOK'
<1> DEFINE r == RunOf(t)
           C == CallsOn(r, Len(Snap(t).node), Owner, Attempts)
<1>1. ~Idle(t) /\ Call(t).op = "finish" /\ Call(t).op \notin FreeOps
  BY DEF FinishOrRepeat, Calls, FreeOps
<1>2. /\ r \in Run /\ Snap(t) \in Snapshot(r, Owner, Attempts)
      /\ Len(Snap(t).node) \in Nat /\ Len(Snap(t).node) > 0
  BY <1>1, CallParts
<1>3. Snap(t).cycle \in Nat /\ Snap(t).next \in BOOLEAN
  BY <1>2, SnapshotParts
<1>4. /\ "SUCCEEDED" \in RunState /\ "SUCCEEDED" # "NONE"
      /\ "RUNNING" \in RunState /\ "RUNNING" # "NONE"
  BY DEF RunState, Terminal
<1>5. UNCHANGED <<node, traversed, decided, cmd, budget>>
  BY DEF FinishOrRepeat
<1>6. Attempts' = Attempts
  BY <1>5 DEF Attempts
<1>7. CASE LastCycle(r, Snap(t))
  <2>1. /\ UpdateWorkflowRunState(r, "SUCCEEDED", Snap(t))
        /\ Return(t, WithState(Snap(t), "SUCCEEDED"), <<NotifyParent(TRUE)>>)
        /\ UNCHANGED timer
    BY <1>7 DEF FinishOrRepeat, WithState
  <2>2. TimerOK'
    BY <1>6, <2>1, TimerRead DEF TypeOK
  <2>3. <<NotifyParent(TRUE)>> \in Seq(C)
    BY <1>2, RunCall, OneCall DEF OtherOps, NotifyParent
  <2>4. /\ WithState(Snap(t), "SUCCEEDED") \in Snapshot(r, Owner, Attempts)
        /\ Len(WithState(Snap(t), "SUCCEEDED").node) = Len(Snap(t).node)
    BY <1>1, <1>4, TopCopy
  <2> QED
    BY <1>1, <1>2, <1>3, <1>4, <1>5, <2>1, <2>2, <2>3, <2>4, RunStep
<1>8. CASE ~LastCycle(r, Snap(t)) /\ Snap(t).next
  <2>1. Skip(t) /\ UNCHANGED <<run, timer>>
    BY <1>8 DEF FinishOrRepeat
  <2>2. RunsOK' /\ CommandsOK' /\ TimerOK' /\ SameShape
    BY <1>5, <2>1, TablesRead, CommandsRead, TimerRead DEF TypeOK, SameShape
  <2> QED
    BY <1>1, <1>5, <2>1, <2>2, SkipStep
<1>9. CASE ~LastCycle(r, Snap(t)) /\ ~Snap(t).next
  <2> DEFINE task == [kind |-> "cycle", run |-> r, c |-> Snap(t).cycle + 1, k |-> ""]
  <2>1. /\ UpdateWorkflowRunState(r, "RUNNING", WithNext(Snap(t)))
        /\ Return(t, WithNext(Snap(t)), <<>>)
        /\ timer' = BagAdd(timer, task)
    BY <1>9 DEF FinishOrRepeat, WithNext
  <2>2. task \in Task /\ task.kind = "cycle" /\ Attempts[task.run] > 0
    <3>1. task \in Task /\ task.kind = "cycle" /\ task.run = r
      BY <1>2, <1>3 DEF Task
    <3>2. Attempts[r] = Len(node[r]) /\ Len(node[r]) > 0
      BY <1>1, CallParts, AttemptsIn DEF TypeOK
    <3> QED
      BY <3>1, <3>2
  <2> HIDE DEF task
  <2>3. TimerOK'
    BY <1>6, <2>1, <2>2, TimerAdded DEF TypeOK
  <2>4. <<>> \in Seq(C)
    OBVIOUS
  <2>5. /\ WithNext(Snap(t)) \in Snapshot(r, Owner, Attempts)
        /\ Len(WithNext(Snap(t)).node) = Len(Snap(t).node)
        /\ WithNext(Snap(t)).cycle \in Nat /\ WithNext(Snap(t)).next \in BOOLEAN
    BY <1>1, <1>4, TopCopy
  <2> QED
    BY <1>1, <1>2, <1>4, <1>5, <2>1, <2>3, <2>4, <2>5, RunStep
<1> QED
  BY <1>7, <1>8, <1>9

\* maybeFinishRun ends the run when the copy has no open node.
LEMMA StepMaybeFinishRun ==
  ASSUME TypeOK, NEW t \in Thread, MaybeFinishRun(t)
  PROVE  TypeOK'
<1> DEFINE r == RunOf(t)
           C == CallsOn(r, Len(Snap(t).node), Owner, Attempts)
<1>1. ~Idle(t) /\ Call(t).op = "maybeFinish" /\ Call(t).op \notin FreeOps
  BY DEF MaybeFinishRun, Calls, FreeOps
<1>2. /\ r \in Run /\ Snap(t) \in Snapshot(r, Owner, Attempts)
      /\ Len(Snap(t).node) \in Nat /\ Len(Snap(t).node) > 0
  BY <1>1, CallParts
<1>3. Snap(t).cycle \in Nat /\ Snap(t).next \in BOOLEAN
  BY <1>2, SnapshotParts
<1>4. "SUCCEEDED" \in RunState /\ "SUCCEEDED" # "NONE"
  BY DEF RunState, Terminal
<1>5. UNCHANGED <<node, traversed, decided, cmd, timer, budget>>
  BY DEF MaybeFinishRun
<1>6. Attempts' = Attempts
  BY <1>5 DEF Attempts
<1>7. \/ /\ UpdateWorkflowRunState(r, "SUCCEEDED", Snap(t))
         /\ Return(t, WithState(Snap(t), "SUCCEEDED"), <<NotifyParent(TRUE)>>)
      \/ Skip(t) /\ UNCHANGED run
  BY DEF MaybeFinishRun, WithState
<1>8. CASE /\ UpdateWorkflowRunState(r, "SUCCEEDED", Snap(t))
           /\ Return(t, WithState(Snap(t), "SUCCEEDED"), <<NotifyParent(TRUE)>>)
  <2>1. TimerOK'
    BY <1>5, <1>6, TimerRead DEF TypeOK
  <2>2. <<NotifyParent(TRUE)>> \in Seq(C)
    BY <1>2, RunCall, OneCall DEF OtherOps, NotifyParent
  <2>3. /\ WithState(Snap(t), "SUCCEEDED") \in Snapshot(r, Owner, Attempts)
        /\ Len(WithState(Snap(t), "SUCCEEDED").node) = Len(Snap(t).node)
    BY <1>1, <1>4, TopCopy
  <2> QED
    BY <1>1, <1>2, <1>3, <1>4, <1>5, <1>8, <2>1, <2>2, <2>3, RunStep
<1>9. CASE Skip(t) /\ UNCHANGED run
  <2>1. RunsOK' /\ CommandsOK' /\ TimerOK' /\ SameShape
    BY <1>5, <1>9, TablesRead, CommandsRead, TimerRead DEF TypeOK, SameShape
  <2> QED
    BY <1>1, <1>5, <1>9, <2>1, SkipStep
<1> QED
  BY <1>7, <1>8, <1>9

\* A step that writes a row of the table and leaves the copy alone.
LEMMA BlindStep ==
  ASSUME TypeOK, NEW t \in Thread, ~Idle(t),
         UNCHANGED <<run, traversed, decided, cmd, budget>>,
         NEW c \in 1..Len(Snap(t).node), NEW k \in Key(RunOf(t)),
         NEW state \in NodeState, UpdateNodeRun(RunOf(t), c, k, state),
         Attempts' = Attempts => TimerOK', Skip(t)
  PROVE  TypeOK'
<1>1. /\ RunOf(t) \in Run
      /\ Len(Snap(t).node) \in Nat /\ Len(node[RunOf(t)]) \in Nat
      /\ Len(Snap(t).node) <= Len(node[RunOf(t)])
  BY CallParts
<1>2. c \in 1..Len(node[RunOf(t)])
  BY <1>1
<1>3. RunsOK' /\ Attempts' = Attempts
  BY <1>1, <1>2, NodeUpdate DEF TypeOK
<1>4. CommandsOK' /\ Owner' = Owner /\ TimerOK'
  BY <1>3, CommandsRead DEF TypeOK
<1> QED
  BY <1>3, <1>4, SkipStep DEF SameShape

\* What is known of a call on a row.
LEMMA RowParts ==
  ASSUME TypeOK, NEW t \in Thread, ~Idle(t), Call(t).op \in RowOps
  PROVE  /\ RunOf(t) \in Run /\ Call(t).k \in Key(RunOf(t))
         /\ Snap(t) \in Snapshot(RunOf(t), Owner, Attempts)
         /\ Call(t).c \in 1..Len(Snap(t).node)
         /\ Call(t).c \in 1..Len(node[RunOf(t)])
         /\ Len(Snap(t).node) \in Nat /\ Len(Snap(t).node) > 0
BY CallParts, OpsApart

\* A DELAY schedules its task.
LEMMA StepExecuteDelay ==
  ASSUME TypeOK, NEW t \in Thread, ExecuteDelay(t)
  PROVE  TypeOK'
<1> DEFINE r == RunOf(t)
           c == Call(t).c
           k == Call(t).k
           task == [kind |-> "delay", run |-> r, c |-> c, k |-> k]
<1>1. ~Idle(t) /\ Call(t).op \in RowOps
  BY DEF ExecuteDelay, Calls, RowOps
<1>2. /\ r \in Run /\ k \in Key(r)
      /\ c \in 1..Len(Snap(t).node) /\ c \in 1..Len(node[r])
  BY <1>1, RowParts
<1>3. /\ UpdateNodeRun(r, c, k, "RUNNING") /\ Skip(t)
      /\ timer' = BagAdd(timer, task)
      /\ UNCHANGED <<run, traversed, decided, cmd, budget>>
  BY DEF ExecuteDelay
<1>4. /\ task \in Task /\ <<task.run, task.c, task.k>> \in NodeRun(Attempts)
      /\ Attempts[task.run] > 0
  BY <1>2, NodeTask DEF TypeOK
<1>5. "RUNNING" \in NodeState
  BY DEF NodeState, OpenNode
<1> HIDE DEF task, c, k
<1>6. Attempts' = Attempts => TimerOK'
  BY <1>3, <1>4, TimerAdded DEF TypeOK
<1> QED
  BY <1>1, <1>2, <1>3, <1>5, <1>6, BlindStep

\* A write of output with the state the handler believes in.
LEMMA StepStoreOutput ==
  ASSUME TypeOK, NEW t \in Thread, StoreOutput(t)
  PROVE  TypeOK'
<1> DEFINE state == CASE Call(t).op = "park" -> "PENDING"
                      [] Call(t).op = "link" -> "WAITING_EVENT"
                      [] Call(t).op = "stamp" -> "RUNNING"
<1>1. ~Idle(t) /\ Call(t).op \in {"park", "link", "stamp"}
  BY DEF StoreOutput, Calls
<1>2. Call(t).op \in RowOps
  BY <1>1 DEF RowOps
<1>3. /\ Call(t).c \in 1..Len(Snap(t).node) /\ Call(t).k \in Key(RunOf(t))
  BY <1>1, <1>2, RowParts
<1>4. state \in NodeState
  BY <1>1 DEF NodeState, OpenNode
<1>5. /\ UpdateNodeRun(RunOf(t), Call(t).c, Call(t).k, state) /\ Skip(t)
      /\ UNCHANGED <<run, traversed, decided, cmd, timer, budget>>
  BY DEF StoreOutput
<1> HIDE DEF state
<1>6. Attempts' = Attempts => TimerOK'
  BY <1>5, TimerRead DEF TypeOK
<1> QED
  BY <1>1, <1>3, <1>4, <1>5, <1>6, BlindStep

\* MANUAL_CONFIRM and EVENT_WAIT wait.
LEMMA StepExecuteWait ==
  ASSUME TypeOK, NEW t \in Thread, ExecuteWait(t)
  PROVE  TypeOK'
<1> DEFINE c == Call(t).c
           k == Call(t).k
           state == IF Call(t).op = "pause" THEN "PAUSED" ELSE "WAITING_EVENT"
<1>1. ~Idle(t) /\ Call(t).op \in RowOps
  BY DEF ExecuteWait, Calls, RowOps
<1>2. c \in 1..Len(Snap(t).node) /\ k \in Key(RunOf(t))
  BY <1>1, RowParts
<1>3. state \in NodeState
  BY DEF NodeState, OpenNode
<1>4. /\ UpdateNodeRun(RunOf(t), c, k, state)
      /\ Return(t, SetNode(Snap(t), c, k, state), <<>>)
      /\ UNCHANGED <<run, traversed, decided, cmd, timer, budget>>
  BY DEF ExecuteWait
<1>5. <<>> \in Seq(CallsOn(RunOf(t), Len(Snap(t).node), Owner, Attempts))
  OBVIOUS
<1> HIDE DEF c, k, state
<1> QED
  BY <1>1, <1>2, <1>3, <1>4, <1>5, NodeStep

\* A SUBFLOW waits before its child exists.
LEMMA StepExecuteSubflow ==
  ASSUME TypeOK, NEW t \in Thread, ExecuteSubflow(t)
  PROVE  TypeOK'
<1> DEFINE c == Call(t).c
           k == Call(t).k
           calls == <<OnNode("spawn", c, k)>>
<1>1. ~Idle(t) /\ Call(t).op \in RowOps
  BY DEF ExecuteSubflow, Calls, RowOps
<1>2. /\ RunOf(t) \in Run /\ Len(Snap(t).node) \in Nat
      /\ c \in 1..Len(Snap(t).node) /\ k \in Key(RunOf(t))
  BY <1>1, RowParts
<1>3. "WAITING_EVENT" \in NodeState
  BY DEF NodeState, OpenNode
<1>4. /\ UpdateNodeRun(RunOf(t), c, k, "WAITING_EVENT")
      /\ Return(t, SetNode(Snap(t), c, k, "WAITING_EVENT"), calls)
      /\ UNCHANGED <<run, traversed, decided, cmd, timer, budget>>
  BY DEF ExecuteSubflow
<1>5. calls \in Seq(CallsOn(RunOf(t), Len(Snap(t).node), Owner, Attempts))
  BY <1>2, RowCall, OneCall DEF RowOps, CommandOps
<1> HIDE DEF c, k, calls
<1> QED
  BY <1>1, <1>2, <1>3, <1>4, <1>5, NodeStep

\* getWorkflowRun returns a copy as new as the tables.
LEMMA LoadOK ==
  ASSUME RunsOK, NEW r \in Run
  PROVE  /\ Load(r) \in Snapshot(r, Owner, Attempts)
         /\ Load(r).node = node[r]
<1>1. /\ run[r] \in RunRow(Attempts) /\ node[r] \in NodeRows(r)
      /\ traversed[r] \subseteq Traversal(r)
      /\ run[r].state = "NONE" <=> node[r] = <<>>
      /\ Len(node[r]) = Attempts[r] /\ Attempts[r] \in Nat
  BY AttemptsIn DEF RunsOK
<1>2. /\ run[r].state \in RunState /\ run[r].cycle \in Nat /\ run[r].next \in BOOLEAN
  BY <1>1 DEF RunRow
<1>3. Len(node[r]) <= Attempts[r]
  BY <1>1
<1> QED
  BY <1>1, <1>2, <1>3 DEF Load, Snapshot

\* Tasks stay valid while the tables grow.
LEMMA TimerGrown ==
  ASSUME TimerOK, Grow(Owner, Attempts, Owner', Attempts'),
         DOMAIN timer' \subseteq DOMAIN timer
  PROVE  TimerOK'
<1>1. NodeRun(Attempts) \subseteq NodeRun(Attempts')
  BY NodeRunGrows
<1>2. ASSUME NEW task \in DOMAIN timer PROVE Attempts'[task.run] > 0
  <2>1. Attempts[task.run] > 0 /\ task.run \in Run
    BY DEF TimerOK, Task
  <2>2. /\ Attempts[task.run] \in Nat /\ Attempts'[task.run] \in Nat
        /\ Attempts[task.run] <= Attempts'[task.run]
    BY <2>1 DEF Grow
  <2> QED
    BY <2>1, <2>2
<1> QED
  BY <1>1, <1>2 DEF TimerOK

\* Commands stay valid while the tables grow.
LEMMA CommandsGrown ==
  ASSUME CommandsOK, Grow(Owner, Attempts, Owner', Attempts'), UNCHANGED cmd
  PROVE  CommandsOK'
<1>1. NodeRun(Attempts) \subseteq NodeRun(Attempts')
  BY NodeRunGrows
<1> QED
  BY <1>1 DEF CommandsOK

\* A run gets one more attempt.
LEMMA AttemptAdded ==
  ASSUME RunsOK, UNCHANGED <<traversed, decided, cmd>>, NEW r \in Run,
         NEW rows \in NodeRows(r), Len(rows) = Len(node[r]) + 1,
         NEW row \in RunRow(Attempts), row.state # "NONE",
         run' = [run EXCEPT ![r] = row], node' = [node EXCEPT ![r] = rows]
  PROVE  /\ RunsOK'
         /\ Grow(Owner, Attempts, Owner', Attempts')
         /\ Attempts'[r] > 0
<1>1. /\ \A s \in Run : Attempts[s] = Len(node[s]) /\ Attempts[s] \in Nat
      /\ Attempts \in [Run -> Nat]
  BY AttemptsIn
<1>2. /\ DOMAIN node' = Run /\ node'[r] = rows
      /\ \A s \in Run : s # r => node'[s] = node[s]
  BY DEF RunsOK
<1>3. Attempts' = [s \in Run |-> Len(node'[s])]
  BY DEF Attempts
<1>4. /\ Attempts'[r] = Attempts[r] + 1
      /\ \A s \in Run : s # r => Attempts'[s] = Attempts[s]
  BY <1>1, <1>2, <1>3
<1>5. /\ \A s \in Run : Attempts'[s] \in Nat /\ Attempts[s] <= Attempts'[s]
      /\ Attempts'[r] > 0
  BY <1>1, <1>4
<1>6. Attempts' \in [Run -> Nat]
  BY <1>3, <1>5
<1>7. Grow(Owner, Attempts, Owner', Attempts')
  BY <1>1, <1>5, <1>6 DEF Grow, Owner
<1>8. NodeRun(Attempts) \subseteq NodeRun(Attempts')
  BY <1>7, NodeRunGrows
<1>9. RunRow(Attempts) \subseteq RunRow(Attempts')
  BY <1>8 DEF RunRow
<1>10. run' \in [Run -> RunRow(Attempts')]
  BY <1>9 DEF RunsOK
<1>11. rows # <<>>
  BY <1>1, EmptySeq DEF NodeRows
<1>12. ASSUME NEW s \in Run
       PROVE  /\ node'[s] \in NodeRows(s)
              /\ traversed'[s] \subseteq Traversal(s)
              /\ run'[s].state = "NONE" <=> node'[s] = <<>>
  <2>1. CASE s = r
    BY <1>2, <1>11, <2>1 DEF RunsOK
  <2>2. CASE s # r
    BY <1>2, <2>2 DEF RunsOK
  <2> QED
    BY <2>1, <2>2
<1>13. decided' \subseteq NodeRun(Attempts')
  BY <1>8 DEF RunsOK
<1>14. DOMAIN traversed' = Run
  BY DEF RunsOK
<1>15. RunsOK'
  BY <1>2, <1>10, <1>12, <1>13, <1>14 DEF RunsOK
<1> QED
  BY <1>5, <1>7, <1>15

\* The PENDING rows of a new attempt.
LEMMA FreshIn ==
  ASSUME NEW r \in Run
  PROVE  FreshNodes(r) \in [Key(r) -> NodeRow]
BY DEF FreshNodes, NodeRow, NodeState, OpenNode

\* createWorkflowRun fills a slot that was free.
LEMMA RunCreated ==
  ASSUME RunsOK, CommandsOK, TimerOK, UNCHANGED <<traversed, decided, cmd, timer>>,
         NEW r \in Run, NEW parent \in {NoParent} \cup NodeRun(Attempts),
         CreateWorkflowRun(r, parent)
  PROVE  /\ RunsOK' /\ CommandsOK' /\ TimerOK'
         /\ Grow(Owner, Attempts, Owner', Attempts')
         /\ Attempts'[r] > 0
<1> DEFINE row == [state |-> "RUNNING", cycle |-> 1, next |-> FALSE, parent |-> parent]
           rows == <<FreshNodes(r)>>
<1>1. /\ run[r].state = "NONE"
      /\ run' = [run EXCEPT ![r] = row] /\ node' = [node EXCEPT ![r] = rows]
  BY DEF CreateWorkflowRun
<1>2. Len(node[r]) = 0
  BY <1>1 DEF RunsOK
<1>3. rows \in NodeRows(r) /\ Len(rows) = Len(node[r]) + 1
  BY <1>2, FreshIn DEF NodeRows
<1>4. row \in RunRow(Attempts) /\ row.state # "NONE"
  BY DEF RunRow, RunState
<1> HIDE DEF row, rows
<1>5. /\ RunsOK' /\ Grow(Owner, Attempts, Owner', Attempts') /\ Attempts'[r] > 0
  BY <1>1, <1>3, <1>4, AttemptAdded
<1> QED
  BY <1>5, CommandsGrown, TimerGrown

\* What a run loaded before it existed, or now, may be bootstrapped from.
LEMMA BootFrame ==
  ASSUME RunsOK, NEW r \in Run, Grow(Owner, Attempts, Owner', Attempts'),
         Attempts'[r] > 0
  PROVE  /\ Load(r) \in Snapshot(r, Owner', Attempts')
         /\ <<Op("boot")>> \in Seq(CallsOn(r, Len(Load(r).node), Owner', Attempts'))
         /\ <<Op("boot")>> # <<>>
<1>1. Load(r) \in Snapshot(r, Owner, Attempts)
  BY LoadOK
<1>2. Load(r) \in Snapshot(r, Owner', Attempts')
  BY <1>1, SnapshotGrows
<1>3. Len(Load(r).node) \in Nat
  BY <1>1, SnapshotParts
<1>4. NoEvent \in EventName
  BY DEF EventName
<1>5. Op("boot") \in CallsOn(r, Len(Load(r).node), Owner', Attempts')
  BY <1>3, <1>4, FreeCall DEF FreeOps
<1> QED
  BY <1>2, <1>5, OneCall

\* The child run is created under its parent, or the node fails.
LEMMA StepSpawnChild ==
  ASSUME TypeOK, NEW t \in Thread, SpawnChild(t)
  PROVE  TypeOK'
<1> DEFINE r == RunOf(t)
           c == Call(t).c
           k == Call(t).k
           slots == Graph[r].node[k].calls
<1>1. ~Idle(t) /\ Call(t).op \in RowOps
  BY DEF SpawnChild, Calls, RowOps
<1>2. /\ r \in Run /\ Snap(t) \in Snapshot(r, Owner, Attempts)
      /\ Len(Snap(t).node) \in Nat /\ Len(Snap(t).node) > 0
      /\ c \in 1..Len(Snap(t).node) /\ k \in Key(r)
      /\ c \in 1..Len(node[r])
  BY <1>1, RowParts
<1>3. /\ UNCHANGED <<traversed, decided, cmd, timer, budget>>
      /\ \/ Return(t, Snap(t), <<OnKey("fail", k)>>) /\ UNCHANGED <<run, node>>
         \/ \E child \in slots :
              /\ CreateWorkflowRun(child, <<r, c, k>>)
              /\ SetStack(t, <<Frame(r, Snap(t), <<OnNode("link", c, k)>>),
                               Frame(child, Load(child), <<Op("boot")>>)>>
                             \o Push(Caller(t), Tail(stack[t])))
  BY DEF SpawnChild
<1>4. CASE Return(t, Snap(t), <<OnKey("fail", k)>>) /\ UNCHANGED <<run, node>>
  <2>1. <<OnKey("fail", k)>> \in Seq(CallsOn(r, Len(Snap(t).node), Owner, Attempts))
    BY <1>2, KeyCall, OneCall DEF KeyOps
  <2>2. RunsOK' /\ CommandsOK' /\ TimerOK' /\ SameShape
    BY <1>3, <1>4, TablesRead, CommandsRead, TimerRead DEF TypeOK, SameShape
  <2>3. Len(Snap(t).node) <= Len(Snap(t).node)
    BY <1>2
  <2> QED
    BY <1>1, <1>2, <1>3, <1>4, <2>1, <2>2, <2>3, LocalStep
<1>5. ASSUME NEW child \in slots,
             CreateWorkflowRun(child, <<r, c, k>>),
             SetStack(t, <<Frame(r, Snap(t), <<OnNode("link", c, k)>>),
                           Frame(child, Load(child), <<Op("boot")>>)>>
                         \o Push(Caller(t), Tail(stack[t])))
      PROVE  TypeOK'
  <2> DEFINE first == Frame(r, Snap(t), <<OnNode("link", c, k)>>)
             second == Frame(child, Load(child), <<Op("boot")>>)
             below == Push(Caller(t), Tail(stack[t]))
             F == Frames(Owner', Attempts')
  <2>1. child \in Run
    BY <1>2, NodeParts DEF NodeAttributes
  <2>2. <<r, c, k>> \in NodeRun(Attempts)
    BY <1>2, NodeTask DEF TypeOK
  <2>3. /\ RunsOK' /\ CommandsOK' /\ TimerOK'
        /\ Grow(Owner, Attempts, Owner', Attempts') /\ Attempts'[child] > 0
    BY <1>3, <1>5, <2>1, <2>2, RunCreated DEF TypeOK
  <2>4. second \in F
    BY <2>1, <2>3, BootFrame, FrameMade DEF TypeOK
  <2>5. Snap(t) \in Snapshot(r, Owner', Attempts')
    BY <1>2, <2>3, SnapshotGrows
  <2>6. OnNode("link", c, k) \in CallsOn(r, Len(Snap(t).node), Owner', Attempts')
    BY <1>2, RowCall DEF RowOps, CommandOps
  <2>7. first \in F
    BY <1>2, <2>5, <2>6, OneCall, FrameMade
  <2>8. below \in Seq(F)
    BY <1>1, <2>3, CallerOK DEF TypeOK
  <2> HIDE DEF first, second, below, F
  <2>9. <<first, second>> \o below \in Seq(F)
    BY <2>4, <2>7, <2>8, TwoCalls, ConcatProperties
  <2>10. SetStack(t, <<first, second>> \o below)
    BY <1>5 DEF first, second, below
  <2>11. StacksOK' /\ GateOK'
    BY <2>3, <2>9, <2>10, StackSet DEF TypeOK, GateOK, F
  <2> QED
    BY <1>3, <2>3, <2>11 DEF TypeOK, GateOK
<1> QED
  BY <1>3, <1>4, <1>5

\* bootstrapFromStart loads the run and completes its START node.
LEMMA StepBootstrap ==
  ASSUME TypeOK, NEW t \in Thread, Bootstrap(t)
  PROVE  TypeOK'
<1> DEFINE r == RunOf(t)
           starts == {k \in Key(r) : TypeOf(r, k) = "START"}
           calls == IF starts = {} THEN <<Op("orphan")>>
                    ELSE <<OnKey("complete", CHOOSE k \in starts : TRUE)>>
           C == CallsOn(r, Len(Load(r).node), Owner, Attempts)
<1>1. ~Idle(t) /\ Call(t).op = "boot"
  BY DEF Bootstrap, Calls
<1>2. /\ r \in Run /\ Len(Snap(t).node) <= Len(node[r])
      /\ Len(node[r]) > 0 /\ Len(node[r]) \in Nat
  BY <1>1, CallParts
<1>3. /\ Return(t, Load(r), calls)
      /\ UNCHANGED <<run, node, traversed, decided, cmd, timer, budget>>
  BY DEF Bootstrap, db
<1>4. Load(r) \in Snapshot(r, Owner, Attempts) /\ Len(Load(r).node) = Len(node[r])
  BY <1>2, LoadOK DEF TypeOK
<1>5. calls \in Seq(C)
  <2>1. Op("orphan") \in C
    BY <1>2, <1>4, RunCall DEF OtherOps
  <2>2. starts # {} => (CHOOSE k \in starts : TRUE) \in Key(r)
    OBVIOUS
  <2>3. starts # {} => OnKey("complete", CHOOSE k \in starts : TRUE) \in C
    BY <1>2, <1>4, <2>2, KeyCall DEF KeyOps
  <2> HIDE DEF starts, C
  <2> QED
    BY <2>1, <2>3, OneCall
<1>6. RunsOK' /\ CommandsOK' /\ TimerOK' /\ SameShape
  BY <1>3, TablesRead, CommandsRead, TimerRead DEF TypeOK, SameShape
<1>7. Len(Snap(t).node) <= Len(Load(r).node)
  BY <1>2, <1>4
<1> HIDE DEF calls
<1> QED
  BY <1>1, <1>3, <1>4, <1>5, <1>6, <1>7, LocalStep

\* A graph without START fails its run.
LEMMA StepFailWithoutStart ==
  ASSUME TypeOK, NEW t \in Thread, FailWithoutStart(t)
  PROVE  TypeOK'
<1> DEFINE written == [cycle |-> 1, next |-> FALSE]
<1>1. ~Idle(t) /\ Call(t).op = "orphan"
  BY DEF FailWithoutStart, Calls
<1>2. /\ RunOf(t) \in Run /\ Snap(t) \in Snapshot(RunOf(t), Owner, Attempts)
      /\ Len(Snap(t).node) \in Nat /\ Len(Snap(t).node) > 0
  BY <1>1, CallParts DEF FreeOps
<1>3. "FAILED" \in RunState /\ "FAILED" # "NONE"
  BY DEF RunState, Terminal
<1>4. /\ UpdateWorkflowRunState(RunOf(t), "FAILED", written)
      /\ Return(t, Snap(t), <<>>)
      /\ UNCHANGED <<node, traversed, decided, cmd, timer, budget>>
  BY DEF FailWithoutStart, Skip
<1>5. written.cycle \in Nat /\ written.next \in BOOLEAN
  OBVIOUS
<1>6. <<>> \in Seq(CallsOn(RunOf(t), Len(Snap(t).node), Owner, Attempts))
  OBVIOUS
<1>7. Attempts' = Attempts /\ TimerOK'
  BY <1>4, TimerRead DEF TypeOK, Attempts
<1> HIDE DEF written
<1> QED
  BY <1>1, <1>2, <1>3, <1>4, <1>5, <1>6, <1>7, RunStep

\* A command is written, not who it belongs to.
LEMMA CommandWritten ==
  ASSUME CommandsOK, Attempts' = Attempts, NEW i \in DOMAIN cmd,
         NEW row \in CommandRow, row.run = cmd[i].run, row.c = cmd[i].c,
         row.k = cmd[i].k, cmd' = [cmd EXCEPT ![i] = row]
  PROVE  CommandsOK' /\ Owner' = Owner
<1>1. i \in 1..Len(cmd)
  BY CommandsParts
<1>2. cmd' \in Seq(CommandRow) /\ Len(cmd') = Len(cmd)
  BY <1>1, ExceptSeq DEF CommandsOK
<1>3. /\ DOMAIN cmd' = DOMAIN cmd
      /\ \A j \in DOMAIN cmd :
           cmd'[j].run = cmd[j].run /\ cmd'[j].c = cmd[j].c /\ cmd'[j].k = cmd[j].k
  OBVIOUS
<1>4. Owner' = Owner
  BY <1>3 DEF Owner
<1> QED
  BY <1>2, <1>3, <1>4 DEF CommandsOK

\* The state of a command is written.
LEMMA CommandMarked ==
  ASSUME CommandsOK, Attempts' = Attempts, NEW i \in DOMAIN cmd,
         NEW state \in OpenCommand \cup Terminal,
         cmd' = [cmd EXCEPT ![i].state = state]
  PROVE  CommandsOK' /\ Owner' = Owner
<1> DEFINE row == [cmd[i] EXCEPT !.state = state]
<1>1. cmd[i] \in CommandRow
  BY CommandsParts
<1>2. row \in CommandRow /\ row.run = cmd[i].run /\ row.c = cmd[i].c /\ row.k = cmd[i].k
  BY <1>1 DEF CommandRow
<1>3. cmd' = [cmd EXCEPT ![i] = row]
  OBVIOUS
<1> HIDE DEF row
<1> QED
  BY <1>2, <1>3, CommandWritten

\* A command is accepted by the robot.
LEMMA CommandSent ==
  ASSUME CommandsOK, Attempts' = Attempts, NEW i \in DOMAIN cmd,
         NEW live \in BOOLEAN, cmd' = [cmd EXCEPT ![i].live = live]
  PROVE  CommandsOK' /\ Owner' = Owner
<1> DEFINE row == [cmd[i] EXCEPT !.live = live]
<1>1. cmd[i] \in CommandRow
  BY CommandsParts
<1>2. row \in CommandRow /\ row.run = cmd[i].run /\ row.c = cmd[i].c /\ row.k = cmd[i].k
  BY <1>1 DEF CommandRow
<1>3. cmd' = [cmd EXCEPT ![i] = row]
  OBVIOUS
<1> HIDE DEF row
<1> QED
  BY <1>2, <1>3, CommandWritten

\* createCommandRun adds a row.
LEMMA CommandAdded ==
  ASSUME RunsOK, CommandsOK, Attempts' = Attempts, NEW row \in CommandRow,
         <<row.run, row.c, row.k>> \in NodeRun(Attempts), cmd' = Append(cmd, row)
  PROVE  /\ CommandsOK'
         /\ Grow(Owner, Attempts, Owner', Attempts')
         /\ Len(cmd) + 1 \in DOMAIN Owner' /\ Owner'[Len(cmd) + 1] = row.run
<1>1. /\ cmd \in Seq(CommandRow) /\ Len(cmd) \in Nat /\ DOMAIN cmd = 1..Len(cmd)
      /\ DOMAIN Owner = DOMAIN cmd
  BY CommandsParts DEF CommandsOK
<1>2. /\ cmd' \in Seq(CommandRow) /\ Len(cmd') = Len(cmd) + 1
      /\ DOMAIN cmd' = 1..(Len(cmd) + 1)
      /\ cmd'[Len(cmd) + 1] = row
      /\ \A i \in DOMAIN cmd : cmd'[i] = cmd[i]
  BY <1>1
<1>3. /\ DOMAIN Owner' = DOMAIN cmd'
      /\ \A i \in DOMAIN cmd' : Owner'[i] = cmd'[i].run
  BY DEF Owner
<1>4. \A i \in DOMAIN Owner : Owner'[i] = Owner[i]
  BY <1>1, <1>2, <1>3 DEF Owner
<1>5. Grow(Owner, Attempts, Owner', Attempts')
  BY <1>1, <1>2, <1>3, <1>4, AttemptsIn DEF Grow
<1>6. ASSUME NEW i \in DOMAIN cmd'
      PROVE  <<cmd'[i].run, cmd'[i].c, cmd'[i].k>> \in NodeRun(Attempts)
  BY <1>1, <1>2 DEF CommandsOK
<1>7. Len(cmd) + 1 \in DOMAIN Owner' /\ Owner'[Len(cmd) + 1] = row.run
  BY <1>1, <1>2, <1>3
<1> QED
  BY <1>1, <1>2, <1>5, <1>6, <1>7 DEF CommandsOK

\* command_attempt, as loaded.
LEMMA TriesIn ==
  ASSUME TypeOK, NEW t \in Thread, ~Idle(t), Call(t).op \in RowOps
  PROVE  Snap(t).node[Call(t).c][Call(t).k].tries \in Nat
<1>1. /\ RunOf(t) \in Run /\ Call(t).k \in Key(RunOf(t))
      /\ Snap(t) \in Snapshot(RunOf(t), Owner, Attempts)
      /\ Call(t).c \in 1..Len(Snap(t).node)
  BY RowParts
<1>2. Snap(t).node \in Seq([Key(RunOf(t)) -> NodeRow])
  BY <1>1, SnapshotParts DEF NodeRows
<1>3. Snap(t).node[Call(t).c] \in [Key(RunOf(t)) -> NodeRow]
  BY <1>1, <1>2, ElementOfSeq
<1> QED
  BY <1>1, <1>3 DEF NodeRow

\* A command is created and the node carries its number.
LEMMA StepCreateCommand ==
  ASSUME TypeOK, NEW t \in Thread, ~Idle(t), Call(t).op \in RowOps,
         NEW tries \in Nat, CreateCommand(t, tries)
  PROVE  TypeOK'
<1> DEFINE r == RunOf(t)
           c == Call(t).c
           k == Call(t).k
           row == [run |-> r, c |-> c, k |-> k, state |-> "CREATED",
                   live |-> FALSE, fired |-> FALSE]
           after == [state |-> "RUNNING", tries |-> tries]
           snap == WithTries(Snap(t), c, k, tries)
           i == Len(cmd) + 1
           send == [OnNode("send", c, k) EXCEPT !.i = i]
<1>1. /\ r \in Run /\ k \in Key(r) /\ Snap(t) \in Snapshot(r, Owner, Attempts)
      /\ c \in 1..Len(Snap(t).node) /\ c \in 1..Len(node[r])
      /\ Len(Snap(t).node) \in Nat
  BY RowParts
<1>2. /\ cmd' = Append(cmd, row)
      /\ node' = [node EXCEPT ![r][c][k] = after]
      /\ Return(t, snap, <<send>>)
      /\ UNCHANGED <<run, traversed, decided, timer, budget>>
  BY DEF CreateCommand, WithTries
<1>3. after \in NodeRow
  BY DEF NodeRow, NodeState, OpenNode
<1>4. /\ row \in CommandRow /\ <<row.run, row.c, row.k>> \in NodeRun(Attempts)
      /\ row.run = r
  <2>1. c \in Nat /\ k \in NodeKey
    BY <1>1, NodeParts
  <2>2. row \in CommandRow
    BY <1>1, <2>1 DEF CommandRow, OpenCommand
  <2>3. <<r, c, k>> \in NodeRun(Attempts)
    BY <1>1, NodeTask DEF TypeOK
  <2> QED
    BY <2>2, <2>3
<1> HIDE DEF row, after
<1>5. RunsOK' /\ Attempts' = Attempts
  BY <1>1, <1>2, <1>3, RowWrite DEF TypeOK
<1>6. /\ CommandsOK' /\ Grow(Owner, Attempts, Owner', Attempts')
      /\ i \in DOMAIN Owner' /\ Owner'[i] = r
  BY <1>2, <1>4, <1>5, CommandAdded DEF TypeOK
<1>7. TimerOK'
  BY <1>2, <1>5, TimerRead DEF TypeOK
<1>8. snap \in Snapshot(r, Owner, Attempts) /\ Len(snap.node) = Len(Snap(t).node)
  BY <1>1, CopyTries
<1>9. snap \in Snapshot(r, Owner', Attempts')
  BY <1>1, <1>6, <1>8, SnapshotGrows
<1>10. send \in CallsOn(r, Len(snap.node), Owner', Attempts')
  <2>1. OnNode("send", c, k) \in OpRecord
        /\ OnNode("send", c, k).op = "send"
        /\ OnNode("send", c, k).c = c /\ OnNode("send", c, k).k = k
    <3>1. c \in Nat /\ k \in NodeKey
      BY <1>1, NodeParts
    <3>2. "send" \in AnyOp
      BY DEF AnyOp, RowOps
    <3> QED
      BY <3>1, <3>2, OnNodeIn
  <2>2. i \in Nat
    BY CommandsParts DEF TypeOK
  <2>3. send \in OpRecord /\ send.op = "send" /\ send.c = c /\ send.k = k /\ send.i = i
    BY <2>1, <2>2 DEF OpRecord
  <2> HIDE DEF send, i
  <2>4. Len(snap.node) \in Nat /\ c \in 1..Len(snap.node)
    BY <1>1, <1>8
  <2>5. send.op \in RowOps
    BY <2>3 DEF RowOps
  <2> QED
    BY <1>1, <1>6, <2>3, <2>4, <2>5, RowCallIn
<1> HIDE DEF snap, send
<1>11. <<send>> \in Seq(CallsOn(r, Len(snap.node), Owner', Attempts'))
  BY <1>10, OneCall
<1>12. Len(Snap(t).node) <= Len(snap.node)
  BY <1>1, <1>8
<1>13. StacksOK' /\ GateOK'
  BY <1>2, <1>6, <1>9, <1>11, <1>12, Returned DEF TypeOK, GateOK
<1> QED
  BY <1>2, <1>5, <1>6, <1>7, <1>13 DEF TypeOK, GateOK

\* The three ways to dispatch a node.
LEMMA StepDispatch ==
  ASSUME TypeOK, NEW t \in Thread,
         DispatchCapability(t) \/ DispatchSsh(t) \/ DispatchNavigation(t)
  PROVE  TypeOK'
<1>1. ~Idle(t) /\ Call(t).op \in RowOps
  BY DEF DispatchCapability, DispatchSsh, DispatchNavigation, Dispatches, Calls, RowOps
<1>2. Tries(t) \in Nat
  BY <1>1, TriesIn DEF Tries
<1>3. CreateCommand(t, Tries(t)) \/ CreateCommand(t, 1)
  BY DEF DispatchCapability, DispatchSsh, DispatchNavigation
<1> QED
  BY <1>1, <1>2, <1>3, StepCreateCommand

\* The steps that follow a command's creation address the same row and
\* command.
LEMMA AfterIn ==
  ASSUME TypeOK, NEW t \in Thread, ~Idle(t), Call(t).op \in RowOps \cap CommandOps
  PROVE  \A op \in {"mark", "hand", "published", "fail", "retry"} :
           After(t, op) \in CallsOn(RunOf(t), Len(Snap(t).node), Owner, Attempts)
<1> DEFINE C == CallsOn(RunOf(t), Len(Snap(t).node), Owner, Attempts)
<1>1. /\ RunOf(t) \in Run /\ Call(t).k \in Key(RunOf(t)) /\ Call(t) \in OpRecord
      /\ Call(t).c \in 1..Len(Snap(t).node)
      /\ Len(Snap(t).node) \in Nat /\ Len(Snap(t).node) > 0
      /\ Call(t).i \in DOMAIN Owner /\ Owner[Call(t).i] = RunOf(t)
  BY RowParts, CallParts, CommandsParts DEF TypeOK
<1>2. ASSUME NEW op \in {"mark", "hand", "published", "fail", "retry"}
      PROVE  /\ After(t, op) \in OpRecord /\ After(t, op).op = op
             /\ After(t, op).k = Call(t).k /\ After(t, op).c = Call(t).c
             /\ After(t, op).i = Call(t).i
  <2>1. op \in AnyOp
    BY DEF AnyOp, RowOps, KeyOps
  <2> QED
    BY <1>1, <2>1 DEF After, OpRecord, AnyOp
<1>3. ASSUME NEW op \in {"mark", "hand", "published", "retry"}
      PROVE  After(t, op) \in C
  <2>1. op \in RowOps
    BY DEF RowOps
  <2> QED
    BY <1>1, <1>2, <2>1, RowCallIn
<1>4. After(t, "fail") \in C
  <2>1. "fail" \in KeyOps
    BY DEF KeyOps
  <2> QED
    BY <1>1, <1>2, <2>1, OpsApart DEF CallsOn
<1> QED
  BY <1>3, <1>4

\* A step that writes a command and goes on from the same copy.
LEMMA CommandStep ==
  ASSUME TypeOK, NEW t \in Thread, ~Idle(t),
         UNCHANGED <<run, node, traversed, decided, timer, budget>>,
         Attempts' = Attempts => CommandsOK' /\ Owner' = Owner,
         NEW calls \in Seq(CallsOn(RunOf(t), Len(Snap(t).node), Owner, Attempts)),
         Return(t, Snap(t), calls)
  PROVE  TypeOK'
<1>1. RunsOK' /\ Attempts' = Attempts
  BY TablesRead DEF TypeOK
<1>2. CommandsOK' /\ Owner' = Owner /\ TimerOK'
  BY <1>1, TimerRead DEF TypeOK
<1>3. /\ Snap(t) \in Snapshot(RunOf(t), Owner, Attempts)
      /\ Len(Snap(t).node) <= Len(Snap(t).node)
  BY CallParts
<1> QED
  BY <1>1, <1>2, <1>3, LocalStep DEF SameShape

\* The command is handed over, with what is left to do by kind.
LEMMA StepSendCommand ==
  ASSUME TypeOK, NEW t \in Thread, SendCommand(t)
  PROVE  TypeOK'
<1> DEFINE type == TypeOf(RunOf(t), Call(t).k)
           ssh == Calls(t, "send") /\ type = "SSH"
           live == ~ssh /\ type # "TOPIC"
           C == CallsOn(RunOf(t), Len(Snap(t).node), Owner, Attempts)
           mark == After(t, "mark")
           stamp == OnNode("stamp", Call(t).c, Call(t).k)
           hand == After(t, "hand")
           published == After(t, "published")
           calls == CASE ssh -> <<mark, stamp, hand>>
                      [] type = "TOPIC" -> <<mark, published>>
                      [] type \in {"ROBOT_CAPABILITY", "NAVIGATION"} -> <<mark>>
                      [] OTHER -> <<>>
<1>1. ~Idle(t) /\ Call(t).op \in {"send", "hand"}
  BY DEF SendCommand, Calls
<1>2. Call(t).op \in RowOps /\ Call(t).op \in CommandOps
  BY <1>1 DEF RowOps, CommandOps
<1>3. /\ RunOf(t) \in Run /\ Call(t).k \in Key(RunOf(t))
      /\ Call(t).c \in 1..Len(Snap(t).node) /\ Len(Snap(t).node) \in Nat
      /\ Call(t).i \in DOMAIN cmd
  BY <1>1, <1>2, RowParts, CallParts
<1>4. /\ cmd' = [cmd EXCEPT ![Call(t).i].live = live]
      /\ Return(t, Snap(t), calls)
      /\ UNCHANGED <<run, node, traversed, decided, timer, budget>>
  BY DEF SendCommand
<1>5. live \in BOOLEAN
  OBVIOUS
<1>6. calls \in Seq(C)
  <2>1. mark \in C /\ hand \in C /\ published \in C
    BY <1>1, <1>2, AfterIn
  <2>2. stamp \in C
    BY <1>3, RowCall DEF RowOps, CommandOps
  <2> HIDE DEF mark, stamp, hand, published, C, ssh, type
  <2> QED
    BY <2>1, <2>2
<1> HIDE DEF live, calls
<1>7. Attempts' = Attempts => CommandsOK' /\ Owner' = Owner
  BY <1>3, <1>4, <1>5, CommandSent DEF TypeOK
<1> QED
  BY <1>1, <1>4, <1>6, <1>7, CommandStep

\* The command is refused: the node is retried or fails.
LEMMA StepRefuseCommand ==
  ASSUME TypeOK, NEW t \in Thread, RefuseCommand(t)
  PROVE  TypeOK'
<1> DEFINE op == IF TypeOf(RunOf(t), Call(t).k) = "NAVIGATION" THEN "fail" ELSE "retry"
           calls == <<After(t, op)>>
<1>1. ~Idle(t) /\ Call(t).op \in RowOps /\ Call(t).op \in CommandOps
  BY DEF RefuseCommand, Calls, RowOps, CommandOps
<1>2. Call(t).i \in DOMAIN cmd
  BY <1>1, CallParts
<1>3. /\ cmd' = [cmd EXCEPT ![Call(t).i].state = "FAILED"]
      /\ Return(t, Snap(t), calls)
      /\ UNCHANGED <<run, node, traversed, decided, timer, budget>>
  BY DEF RefuseCommand
<1>4. calls \in Seq(CallsOn(RunOf(t), Len(Snap(t).node), Owner, Attempts))
  BY <1>1, AfterIn, OneCall
<1>5. "FAILED" \in OpenCommand \cup Terminal
  BY DEF Terminal
<1> HIDE DEF calls
<1>6. Attempts' = Attempts => CommandsOK' /\ Owner' = Owner
  BY <1>2, <1>3, <1>5, CommandMarked DEF TypeOK
<1> QED
  BY <1>1, <1>3, <1>4, <1>6, CommandStep

\* A dispatched command is marked ACTIVE unless it ended.
LEMMA StepMarkDispatched ==
  ASSUME TypeOK, NEW t \in Thread, MarkDispatched(t)
  PROVE  TypeOK'
<1> DEFINE i == Call(t).i
           state == IF cmd[i].state = "CREATED" THEN "ACTIVE" ELSE cmd[i].state
<1>1. ~Idle(t) /\ Call(t).op \in CommandOps
  BY DEF MarkDispatched, Calls, CommandOps
<1>2. i \in DOMAIN cmd
  BY <1>1, CallParts
<1>3. /\ cmd' = [cmd EXCEPT ![i].state = state]
      /\ Return(t, Snap(t), <<>>)
      /\ UNCHANGED <<run, node, traversed, decided, timer, budget>>
  BY DEF MarkDispatched, Skip
<1>4. <<>> \in Seq(CallsOn(RunOf(t), Len(Snap(t).node), Owner, Attempts))
  OBVIOUS
<1>5. state \in OpenCommand \cup Terminal
  BY <1>2, CommandsParts DEF CommandRow, OpenCommand, TypeOK
<1> HIDE DEF i, state
<1>6. Attempts' = Attempts => CommandsOK' /\ Owner' = Owner
  BY <1>2, <1>3, <1>5, CommandMarked DEF TypeOK
<1> QED
  BY <1>1, <1>3, <1>4, <1>6, CommandStep

\* A published TOPIC completes its node.
LEMMA StepTopicPublished ==
  ASSUME TypeOK, NEW t \in Thread, TopicPublished(t)
  PROVE  TypeOK'
<1> DEFINE k == Call(t).k
           C == CallsOn(RunOf(t), Len(Snap(t).node), Owner, Attempts)
           emitted == EmitResult(RunOf(t), k, TRUE)
           calls == emitted \o <<OnKey("complete", k)>>
<1>1. ~Idle(t) /\ Call(t).op \in RowOps /\ Call(t).op \in CommandOps
  BY DEF TopicPublished, Calls, RowOps, CommandOps
<1>2. /\ RunOf(t) \in Run /\ k \in Key(RunOf(t)) /\ Call(t).i \in DOMAIN cmd
      /\ Len(Snap(t).node) \in Nat /\ Len(Snap(t).node) > 0
  BY <1>1, RowParts, CallParts
<1>3. /\ cmd' = [cmd EXCEPT ![Call(t).i].state = "SUCCEEDED"]
      /\ Return(t, Snap(t), calls)
      /\ UNCHANGED <<run, node, traversed, decided, timer, budget>>
  BY DEF TopicPublished
<1>4. emitted \in Seq(C)
  BY <1>2, EmitCalls
<1>5. OnKey("complete", k) \in C
  BY <1>2, KeyCall DEF KeyOps
<1>6. "SUCCEEDED" \in OpenCommand \cup Terminal
  BY DEF Terminal
<1> HIDE DEF emitted, C
<1>7. calls \in Seq(C)
  BY <1>4, <1>5, ConcatProperties
<1> HIDE DEF calls
<1>8. Attempts' = Attempts => CommandsOK' /\ Owner' = Owner
  BY <1>2, <1>3, <1>6, CommandMarked DEF TypeOK
<1> QED
  BY <1>1, <1>3, <1>7, <1>8, CommandStep DEF C

\* A step that leaves the tables and the timer alone.
LEMMA ReadOnly ==
  ASSUME TypeOK, UNCHANGED <<db, timer>>
  PROVE  /\ RunsOK' /\ CommandsOK' /\ TimerOK' /\ SameShape
         /\ Grow(Owner, Attempts, Owner', Attempts')
<1>1. UNCHANGED <<run, node, traversed, decided, cmd>>
  BY DEF db
<1>2. RunsOK' /\ CommandsOK' /\ TimerOK' /\ SameShape
  BY <1>1, TablesRead, CommandsRead, TimerRead DEF TypeOK, SameShape
<1> QED
  BY <1>2, ShapeGrows DEF TypeOK

\* The row a node run names exists in the tables.
LEMMA NodeRunParts ==
  ASSUME RunsOK, NEW n \in NodeRun(Attempts)
  PROVE  /\ n[1] \in Run /\ n[3] \in Key(n[1])
         /\ n[2] \in 1..Len(node[n[1]])
         /\ Len(node[n[1]]) \in Nat /\ Len(node[n[1]]) > 0
<1>1. n[1] \in Run /\ n[3] \in Key(n[1]) /\ n[2] \in 1..Attempts[n[1]]
  BY DEF NodeRun
<1>2. Attempts[n[1]] = Len(node[n[1]]) /\ Len(node[n[1]]) \in Nat
  BY <1>1, AttemptsIn
<1> QED
  BY <1>1, <1>2

\* The row a command belongs to exists in the tables.
LEMMA ResultParts ==
  ASSUME TypeOK, NEW i \in DOMAIN cmd
  PROVE  /\ cmd[i].run \in Run /\ cmd[i].k \in Key(cmd[i].run)
         /\ cmd[i].c \in 1..Len(node[cmd[i].run])
         /\ Len(node[cmd[i].run]) \in Nat /\ Len(node[cmd[i].run]) > 0
<1>1. <<cmd[i].run, cmd[i].c, cmd[i].k>> \in NodeRun(Attempts)
  BY DEF TypeOK, CommandsOK
<1> QED
  BY <1>1, NodeRunParts DEF TypeOK

\* A result is applied on a copy loaded now.
LEMMA StepApplyTo ==
  ASSUME TypeOK, NEW t \in Thread, ~Idle(t),
         NEW calls \in Seq(CallsOn(RunOf(t), Len(node[RunOf(t)]), Owner, Attempts)),
         ApplyTo(t, calls)
  PROVE  TypeOK'
<1>1. UNCHANGED <<db, timer>> /\ UNCHANGED budget
  BY DEF ApplyTo
<1>2. RunsOK' /\ CommandsOK' /\ TimerOK' /\ SameShape
  BY <1>1, ReadOnly
<1>3. Return(t, Load(RunOf(t)), calls) \/ Skip(t)
  BY DEF ApplyTo
<1>4. /\ RunOf(t) \in Run /\ Len(Snap(t).node) <= Len(node[RunOf(t)])
  BY CallParts
<1>5. /\ Load(RunOf(t)) \in Snapshot(RunOf(t), Owner, Attempts)
      /\ Load(RunOf(t)).node = node[RunOf(t)]
  BY <1>4, LoadOK DEF TypeOK
<1>6. CASE Return(t, Load(RunOf(t)), calls)
  BY <1>1, <1>2, <1>4, <1>5, <1>6, LocalStep
<1>7. CASE Skip(t)
  BY <1>1, <1>2, <1>7, SkipStep
<1> QED
  BY <1>3, <1>6, <1>7

\* A result completes, retries or stamps the node of its command.
LEMMA StepResult ==
  ASSUME TypeOK, NEW t \in Thread, ApplyResult(t) \/ ApplySshResult(t)
  PROVE  TypeOK'
<1> DEFINE r == RunOf(t)
           c == cmd[Call(t).i].c
           k == cmd[Call(t).i].k
           C == CallsOn(r, Len(node[r]), Owner, Attempts)
           complete == OnKey("complete", k)
           retry == OnNode("retry", c, k)
           stamp == OnNode("stamp", c, k)
           won == EmitResult(r, k, TRUE)
           lost == EmitResult(r, k, FALSE)
<1>1. ~Idle(t) /\ Call(t).op = "result" /\ Call(t).op \in CommandOps
  BY DEF ApplyResult, ApplySshResult, Applies, Calls, CommandOps
<1>2. Call(t).i \in DOMAIN cmd /\ cmd[Call(t).i].run = r
  BY <1>1, CallParts
<1>3. /\ r \in Run /\ k \in Key(r) /\ c \in 1..Len(node[r])
      /\ Len(node[r]) \in Nat /\ Len(node[r]) > 0
  BY <1>2, ResultParts
<1>4. /\ complete \in C /\ retry \in C /\ stamp \in C
  BY <1>3, KeyCall, RowCall DEF KeyOps, RowOps, CommandOps
<1>5. won \in Seq(C) /\ lost \in Seq(C)
  BY <1>3, EmitCalls
<1>6. \/ ApplyTo(t, <<complete>> \o won) \/ ApplyTo(t, lost \o <<retry>>)
      \/ ApplyTo(t, won \o <<complete>>) \/ ApplyTo(t, <<stamp, retry>>)
  BY DEF ApplyResult, ApplySshResult
<1> HIDE DEF complete, retry, stamp, won, lost, C
<1>7. /\ <<complete>> \o won \in Seq(C) /\ lost \o <<retry>> \in Seq(C)
      /\ won \o <<complete>> \in Seq(C) /\ <<stamp, retry>> \in Seq(C)
  BY <1>4, <1>5, ConcatProperties, OneCall, TwoCalls
<1>8. \A calls \in Seq(C) : ApplyTo(t, calls) => TypeOK'
  BY <1>1, StepApplyTo DEF C
<1> QED
  BY <1>6, <1>7, <1>8

\* scheduleNodeRetry schedules a task, or fails the node.
LEMMA StepScheduleRetry ==
  ASSUME TypeOK, NEW t \in Thread, ScheduleRetry(t)
  PROVE  TypeOK'
<1> DEFINE r == RunOf(t)
           c == Call(t).c
           k == Call(t).k
           row == [state |-> "RUNNING", tries |-> Snap(t).node[c][k].tries]
           task == [kind |-> "retry", run |-> r, c |-> c, k |-> k]
<1>1. ~Idle(t) /\ Call(t).op \in RowOps
  BY DEF ScheduleRetry, Calls, RowOps
<1>2. /\ r \in Run /\ k \in Key(r) /\ c \in 1..Len(node[r])
      /\ Snap(t) \in Snapshot(r, Owner, Attempts)
      /\ Len(Snap(t).node) \in Nat /\ Len(Snap(t).node) > 0
  BY <1>1, RowParts
<1>3. UNCHANGED <<run, traversed, decided, cmd, budget>>
  BY DEF ScheduleRetry
<1>4. CASE Exhausted(r, Snap(t).node[c][k], k)
  <2>1. /\ Return(t, Snap(t), <<OnKey("fail", k)>>)
        /\ UNCHANGED <<node, timer>>
    BY <1>4 DEF ScheduleRetry
  <2>2. RunsOK' /\ CommandsOK' /\ TimerOK' /\ SameShape
    BY <1>3, <2>1, TablesRead, CommandsRead, TimerRead DEF TypeOK, SameShape
  <2>3. <<OnKey("fail", k)>> \in Seq(CallsOn(r, Len(Snap(t).node), Owner, Attempts))
    BY <1>2, KeyCall, OneCall DEF KeyOps
  <2>4. Len(Snap(t).node) <= Len(Snap(t).node)
    BY <1>2
  <2> QED
    BY <1>1, <1>2, <1>3, <2>1, <2>2, <2>3, <2>4, LocalStep
<1>5. CASE ~Exhausted(r, Snap(t).node[c][k], k)
  <2>1. /\ node' = [node EXCEPT ![r][c][k] = row]
        /\ timer' = BagAdd(timer, task)
        /\ Skip(t)
    BY <1>5 DEF ScheduleRetry
  <2>2. row \in NodeRow
    BY <1>1, TriesIn DEF NodeRow, NodeState, OpenNode
  <2>3. /\ task \in Task /\ <<task.run, task.c, task.k>> \in NodeRun(Attempts)
        /\ Attempts[task.run] > 0
    BY <1>2, NodeTask DEF TypeOK
  <2> HIDE DEF row, task
  <2>4. RunsOK' /\ Attempts' = Attempts
    BY <1>2, <1>3, <2>1, <2>2, RowWrite DEF TypeOK
  <2>5. CommandsOK' /\ Owner' = Owner
    BY <1>3, <2>4, CommandsRead DEF TypeOK
  <2>6. TimerOK'
    BY <2>1, <2>3, <2>4, TimerAdded DEF TypeOK
  <2> QED
    BY <1>1, <1>3, <2>1, <2>4, <2>5, <2>6, SkipStep DEF SameShape
<1> QED
  BY <1>4, <1>5

\* The retry task counts one more command and executes the node.
LEMMA StepRetryNode ==
  ASSUME TypeOK, NEW t \in Thread, RetryNode(t)
  PROVE  TypeOK'
<1> DEFINE r == RunOf(t)
           c == Call(t).c
           k == Call(t).k
           tries == Snap(t).node[c][k].tries + 1
           row == [state |-> "RUNNING", tries |-> tries]
           snap == WithTries(Snap(t), c, k, tries)
           calls == <<ExecuteNode(r, c, k)>>
<1>1. ~Idle(t) /\ Call(t).op \in RowOps
  BY DEF RetryNode, Calls, RowOps
<1>2. /\ r \in Run /\ k \in Key(r) /\ c \in 1..Len(node[r])
      /\ Snap(t) \in Snapshot(r, Owner, Attempts) /\ c \in 1..Len(Snap(t).node)
      /\ Len(Snap(t).node) \in Nat /\ Len(Snap(t).node) > 0
  BY <1>1, RowParts
<1>3. /\ node' = [node EXCEPT ![r][c][k] = row]
      /\ Return(t, snap, calls)
      /\ UNCHANGED <<run, traversed, decided, cmd, timer, budget>>
  BY DEF RetryNode, WithTries
<1>4. tries \in Nat
  BY <1>1, TriesIn
<1> HIDE DEF tries
<1>5. row \in NodeRow
  BY <1>4 DEF NodeRow, NodeState, OpenNode
<1>6. snap \in Snapshot(r, Owner, Attempts) /\ Len(snap.node) = Len(Snap(t).node)
  BY <1>2, <1>4, CopyTries
<1>7. calls \in Seq(CallsOn(r, Len(Snap(t).node), Owner, Attempts))
  BY <1>2, ExecuteCall, OneCall
<1> HIDE DEF row, snap, calls
<1>8. RunsOK' /\ Attempts' = Attempts
  BY <1>2, <1>3, <1>5, RowWrite DEF TypeOK
<1>9. CommandsOK' /\ Owner' = Owner /\ TimerOK'
  BY <1>3, <1>8, CommandsRead, TimerRead DEF TypeOK
<1>10. Len(Snap(t).node) <= Len(snap.node)
  BY <1>2, <1>6
<1> QED
  BY <1>1, <1>3, <1>6, <1>7, <1>8, <1>9, <1>10, LocalStep DEF SameShape

\* A step that enters another run and writes nothing.
LEMMA StepEnter ==
  ASSUME TypeOK, NEW t \in Thread, ~Idle(t), UNCHANGED <<db, timer, budget>>,
         NEW r \in Run,
         NEW calls \in Seq(CallsOn(r, Len(node[r]), Owner, Attempts)),
         Enter(t, Frame(r, Load(r), calls))
  PROVE  TypeOK'
<1>1. /\ RunsOK' /\ CommandsOK' /\ TimerOK' /\ SameShape
      /\ Grow(Owner, Attempts, Owner', Attempts')
  BY ReadOnly
<1>2. Load(r) \in Snapshot(r, Owner', Attempts') /\ Load(r).node = node[r]
  BY <1>1, LoadOK DEF TypeOK, SameShape
<1>3. calls \in Seq(CallsOn(r, Len(Load(r).node), Owner', Attempts'))
  BY <1>1, <1>2 DEF SameShape
<1>4. StacksOK /\ GateOK
  BY DEF TypeOK, GateOK
<1>5. StacksOK' /\ GateOK'
  BY <1>1, <1>2, <1>3, <1>4, Entered
<1> QED
  BY <1>1, <1>5 DEF TypeOK, GateOK

\* notifyParentRun loads the parent, whose node run exists.
LEMMA StepNotify ==
  ASSUME TypeOK, NEW t \in Thread, Notify(t)
  PROVE  TypeOK'
<1> DEFINE up == run[RunOf(t)].parent
           calls == <<WithOutcome(OnNode("settle", up[2], up[3]), Call(t).ok)>>
<1>1. ~Idle(t) /\ UNCHANGED <<db, timer, budget>>
  BY DEF Notify, Calls
<1>2. RunOf(t) \in Run /\ Call(t).ok \in BOOLEAN
  BY <1>1, CallParts DEF OpRecord
<1>3. \/ Skip(t)
      \/ up # NoParent /\ Enter(t, Frame(up[1], Load(up[1]), calls))
  BY DEF Notify
<1>4. CASE Skip(t)
  BY <1>1, <1>4, ReadOnly, SkipStep
<1>5. CASE up # NoParent /\ Enter(t, Frame(up[1], Load(up[1]), calls))
  <2>1. run[RunOf(t)] \in RunRow(Attempts)
    BY <1>2 DEF TypeOK, RunsOK
  <2>2. up \in NodeRun(Attempts)
    BY <1>5, <2>1 DEF RunRow
  <2>3. /\ up[1] \in Run /\ up[3] \in Key(up[1])
        /\ up[2] \in 1..Len(node[up[1]]) /\ Len(node[up[1]]) \in Nat
    BY <2>2, NodeRunParts DEF TypeOK
  <2>4. "settle" \in RowOps \ CommandOps
    BY DEF RowOps, CommandOps
  <2> HIDE DEF up
  <2>5. calls \in Seq(CallsOn(up[1], Len(node[up[1]]), Owner, Attempts))
    BY <1>2, <2>3, <2>4, RowCall, OneCall
  <2> HIDE DEF calls
  <2> QED
    BY <1>1, <1>5, <2>3, <2>5, StepEnter
<1> QED
  BY <1>3, <1>4, <1>5

\* The end of the child settles the waiting node.
LEMMA StepSettleSubflow ==
  ASSUME TypeOK, NEW t \in Thread, SettleSubflow(t)
  PROVE  TypeOK'
<1> DEFINE r == RunOf(t)
           c == Call(t).c
           k == Call(t).k
           C == CallsOn(r, Len(Snap(t).node), Owner, Attempts)
           state == IF Call(t).ok THEN "SUCCEEDED" ELSE "FAILED"
           kind == IF Call(t).ok THEN "success" ELSE "failure"
           calls == IF Call(t).ok \/ HasFailureEdge(r, k)
                      THEN FollowEdges(r, k, kind, NoEvent) \o <<Op("maybeFinish")>>
                      ELSE <<Op("failRun")>>
<1>1. ~Idle(t) /\ Call(t).op \in RowOps
  BY DEF SettleSubflow, Calls, RowOps
<1>2. /\ r \in Run /\ k \in Key(r) /\ c \in 1..Len(Snap(t).node)
      /\ Len(Snap(t).node) \in Nat /\ Len(Snap(t).node) > 0
  BY <1>1, RowParts
<1>3. UNCHANGED <<run, traversed, decided, cmd, timer, budget>>
  BY DEF SettleSubflow
<1>4. \/ Skip(t) /\ UNCHANGED node
      \/ UpdateNodeRun(r, c, k, state) /\ Return(t, SetNode(Snap(t), c, k, state), calls)
  BY DEF SettleSubflow
<1>5. state \in NodeState
  BY DEF NodeState, Terminal
<1>6. calls \in Seq(C)
  <2>1. Op("failRun") \in C
    BY <1>2, RunCall DEF OtherOps
  <2>2. FollowEdges(r, k, kind, NoEvent) \o <<Op("maybeFinish")>> \in Seq(C)
    BY <1>2, FollowThenFinish
  <2> HIDE DEF C, kind
  <2> QED
    BY <2>1, <2>2, OneCall
<1> HIDE DEF c, k, state, calls
<1>7. CASE Skip(t) /\ UNCHANGED node
  <2>1. UNCHANGED <<db, timer>>
    BY <1>3, <1>7 DEF db
  <2> QED
    BY <1>1, <1>3, <1>7, <2>1, ReadOnly, SkipStep
<1>8. CASE UpdateNodeRun(r, c, k, state) /\ Return(t, SetNode(Snap(t), c, k, state), calls)
  BY <1>1, <1>2, <1>3, <1>5, <1>6, <1>8, NodeStep
<1> QED
  BY <1>4, <1>7, <1>8

\* A call that is made again: the next row of a cancellation.
LEMMA AgainIn ==
  ASSUME TypeOK, NEW t \in Thread, ~Idle(t)
  PROVE  <<Call(t)>> \in Seq(CallsOn(RunOf(t), Len(Snap(t).node), Owner, Attempts))
<1>1. Call(t) \in CallsOn(RunOf(t), Len(Snap(t).node), Owner, Attempts)
  BY TopParts DEF TypeOK
<1> QED
  BY <1>1, OneCall

\* The next command of a cancellation, as it was listed.
LEMMA StepCancelCommand ==
  ASSUME TypeOK, NEW t \in Thread, CancelCommand(t)
  PROVE  TypeOK'
<1>1. ~Idle(t)
  BY DEF CancelCommand, Calls
<1>2. /\ RunOf(t) \in Run /\ Snap(t) \in Snapshot(RunOf(t), Owner, Attempts)
      /\ Len(Snap(t).node) \in Nat
  BY <1>1, CallParts
<1>3. UNCHANGED <<run, node, traversed, decided, timer, budget>>
  BY DEF CancelCommand
<1>4. CASE Skip(t) /\ UNCHANGED cmd
  <2>1. UNCHANGED <<db, timer>>
    BY <1>3, <1>4 DEF db
  <2> QED
    BY <1>1, <1>3, <1>4, <2>1, ReadOnly, SkipStep
<1>5. ASSUME NEW i \in Snap(t).commands,
             cmd' = [cmd EXCEPT ![i].state = "CANCELLED"],
             Return(t, [Snap(t) EXCEPT !.commands = @ \ {i}], <<Call(t)>>)
      PROVE  TypeOK'
  <2> DEFINE snap == [Snap(t) EXCEPT !.commands = @ \ {i}]
  <2>1. i \in DOMAIN cmd
    BY <1>2, SnapshotParts, CommandsParts DEF TypeOK
  <2>2. "CANCELLED" \in OpenCommand \cup Terminal
    BY DEF Terminal
  <2>3. RunsOK' /\ Attempts' = Attempts
    BY <1>3, TablesRead DEF TypeOK
  <2>4. CommandsOK' /\ Owner' = Owner /\ TimerOK'
    BY <1>3, <1>5, <2>1, <2>2, <2>3, CommandMarked, TimerRead DEF TypeOK
  <2>5. snap \in Snapshot(RunOf(t), Owner, Attempts) /\ snap.node = Snap(t).node
    BY <1>2 DEF Snapshot
  <2>6. Return(t, snap, <<Call(t)>>)
    BY <1>5
  <2> HIDE DEF snap
  <2>7. /\ <<Call(t)>> \in Seq(CallsOn(RunOf(t), Len(snap.node), Owner, Attempts))
        /\ Len(Snap(t).node) <= Len(snap.node)
    BY <1>1, <1>2, <2>5, AgainIn
  <2> QED
    BY <1>1, <1>3, <2>3, <2>4, <2>5, <2>6, <2>7, LocalStep DEF SameShape
<1> QED
  BY <1>4, <1>5 DEF CancelCommand

\* The open nodes of a copy are rows of it.
LEMMA OpenNodeIn ==
  ASSUME NEW r \in Run, NEW owner, NEW attempts,
         NEW snap \in Snapshot(r, owner, attempts), Len(snap.node) > 0,
         NEW n \in OpenNodes(snap)
  PROVE  n[1] \in 1..Len(snap.node) /\ n[2] \in Key(r)
<1>1. snap.node \in Seq([Key(r) -> NodeRow]) /\ Len(snap.node) \in Nat
  BY SnapshotParts DEF NodeRows
<1>2. Latest(snap) \in [Key(r) -> NodeRow]
  BY <1>1, ElementOfSeq DEF Latest, Newest
<1>3. DOMAIN snap.node = 1..Len(snap.node)
  BY <1>1
<1>4. n \in (DOMAIN snap.node) \X (DOMAIN Latest(snap))
  BY DEF OpenNodes
<1> QED
  BY <1>2, <1>3, <1>4

\* The next node of a cancellation, as it was loaded.
LEMMA StepCancelNode ==
  ASSUME TypeOK, NEW t \in Thread, CancelNode(t)
  PROVE  TypeOK'
<1>1. ~Idle(t) /\ Call(t).op \notin FreeOps
  BY DEF CancelNode, Calls, FreeOps
<1>2. /\ RunOf(t) \in Run /\ Snap(t) \in Snapshot(RunOf(t), Owner, Attempts)
      /\ Len(Snap(t).node) \in Nat /\ Len(Snap(t).node) > 0
  BY <1>1, CallParts
<1>3. UNCHANGED <<run, traversed, decided, cmd, timer, budget>>
  BY DEF CancelNode
<1>4. CASE Skip(t) /\ UNCHANGED node
  <2>1. UNCHANGED <<db, timer>>
    BY <1>3, <1>4 DEF db
  <2> QED
    BY <1>1, <1>3, <1>4, <2>1, ReadOnly, SkipStep
<1>5. ASSUME NEW n \in OpenNodes(Snap(t)),
             UpdateNodeRun(RunOf(t), n[1], n[2], "CANCELLED"),
             Return(t, SetNode(Snap(t), n[1], n[2], "CANCELLED"), <<Call(t)>>)
      PROVE  TypeOK'
  <2>1. n[1] \in 1..Len(Snap(t).node) /\ n[2] \in Key(RunOf(t))
    BY <1>2, OpenNodeIn
  <2>2. "CANCELLED" \in NodeState
    BY DEF NodeState, Terminal
  <2>3. <<Call(t)>> \in Seq(CallsOn(RunOf(t), Len(Snap(t).node), Owner, Attempts))
    BY <1>1, AgainIn
  <2> QED
    BY <1>1, <1>3, <1>5, <2>1, <2>2, <2>3, NodeStep
<1> QED
  BY <1>4, <1>5 DEF CancelNode

\* A step that ends in an exception.
LEMMA ThrowStep ==
  ASSUME TypeOK, NEW t \in Thread,
         RunsOK', CommandsOK', TimerOK', SameShape, UNCHANGED budget, Throw(t)
  PROVE  TypeOK'
<1>1. Grow(Owner, Attempts, Owner', Attempts')
  BY ShapeGrows DEF TypeOK
<1>2. StacksOK /\ GateOK
  BY DEF TypeOK, GateOK
<1>3. StacksOK' /\ GateOK'
  BY <1>1, <1>2, Thrown
<1> QED
  BY <1>3 DEF TypeOK, GateOK

\* A decision transitions its node, or throws.
LEMMA StepApplyDecision ==
  ASSUME TypeOK, NEW t \in Thread, ApplyDecision(t)
  PROVE  TypeOK'
<1> DEFINE r == RunOf(t)
           c == Call(t).c
           k == Call(t).k
           C == CallsOn(r, Len(Snap(t).node), Owner, Attempts)
           state == IF Call(t).ok THEN "SUCCEEDED" ELSE "FAILED"
           calls == <<WithOutcome(OnNode("record", c, k), Call(t).ok)>>
<1>1. ~Idle(t) /\ Call(t).op \in RowOps
  BY DEF ApplyDecision, Calls, RowOps
<1>2. /\ r \in Run /\ k \in Key(r) /\ c \in 1..Len(Snap(t).node)
      /\ c \in 1..Len(node[r]) /\ Snap(t) \in Snapshot(r, Owner, Attempts)
      /\ Len(Snap(t).node) \in Nat /\ Len(Snap(t).node) > 0
  BY <1>1, RowParts
<1>3. UNCHANGED <<run, traversed, decided, cmd, timer, budget>>
  BY DEF ApplyDecision
<1>4. \/ Throw(t) /\ UNCHANGED node
      \/ /\ UpdateNodeRun(r, c, k, state)
         /\ Return(t, SetNode(Snap(t), c, k, state), calls)
  BY DEF ApplyDecision
<1>5. state \in NodeState
  BY DEF NodeState, Terminal
<1>6. calls \in Seq(C)
  <2>1. Call(t).ok \in BOOLEAN
    BY <1>1, CallParts DEF CallsOn, OpRecord
  <2>2. WithOutcome(OnNode("record", c, k), Call(t).ok) \in C
    BY <1>2, <2>1, RowCall DEF RowOps, CommandOps
  <2> HIDE DEF C
  <2> QED
    BY <2>2, OneCall
<1> HIDE DEF c, k, state, calls
<1>7. CASE Throw(t) /\ UNCHANGED node
  <2>1. UNCHANGED <<db, timer>>
    BY <1>3, <1>7 DEF db
  <2> QED
    BY <1>3, <1>7, <2>1, ReadOnly, ThrowStep
<1>8. CASE /\ UpdateNodeRun(r, c, k, state)
           /\ Return(t, SetNode(Snap(t), c, k, state), calls)
  <2>1. RunsOK' /\ Attempts' = Attempts
    BY <1>2, <1>3, <1>5, <1>8, NodeUpdate DEF TypeOK
  <2>2. CommandsOK' /\ Owner' = Owner /\ TimerOK'
    BY <1>3, <2>1, CommandsRead, TimerRead DEF TypeOK
  <2>3. /\ SetNode(Snap(t), c, k, state) \in Snapshot(r, Owner, Attempts)
        /\ Len(SetNode(Snap(t), c, k, state).node) = Len(Snap(t).node)
    BY <1>2, <1>5, NodeSet
  <2>4. Len(Snap(t).node) <= Len(SetNode(Snap(t), c, k, state).node)
    BY <1>2, <2>3
  <2> QED
    BY <1>1, <1>3, <1>6, <1>8, <2>1, <2>2, <2>3, <2>4, LocalStep DEF SameShape
<1> QED
  BY <1>4, <1>7, <1>8

\* The event of a decision is recorded, or its key exists and it throws.
LEMMA StepRecordDecision ==
  ASSUME TypeOK, NEW t \in Thread, RecordDecision(t)
  PROVE  TypeOK'
<1> DEFINE r == RunOf(t)
           c == Call(t).c
           k == Call(t).k
           C == CallsOn(r, Len(Snap(t).node), Owner, Attempts)
           kind == IF Call(t).ok THEN "success" ELSE "failure"
           calls == IF Call(t).ok \/ HasFailureEdge(r, k)
                      THEN FollowEdges(r, k, kind, NoEvent) \o <<Op("maybeFinish")>>
                      ELSE <<Op("cancelNodes"), Op("failRun")>>
<1>1. ~Idle(t) /\ Call(t).op \in RowOps
  BY DEF RecordDecision, Calls, RowOps
<1>2. /\ r \in Run /\ k \in Key(r) /\ c \in 1..Len(Snap(t).node)
      /\ c \in 1..Len(node[r]) /\ Snap(t) \in Snapshot(r, Owner, Attempts)
      /\ Len(Snap(t).node) \in Nat /\ Len(Snap(t).node) > 0
  BY <1>1, RowParts
<1>3. UNCHANGED <<run, node, traversed, cmd, timer, budget>>
  BY DEF RecordDecision
<1>4. /\ decided' = decided \cup {<<r, c, k>>}
      /\ Throw(t) \/ Return(t, Snap(t), calls)
  BY DEF RecordDecision
<1>5. calls \in Seq(C)
  <2>1. Op("cancelNodes") \in C /\ Op("failRun") \in C
    BY <1>2, RunCall DEF OtherOps
  <2>2. FollowEdges(r, k, kind, NoEvent) \o <<Op("maybeFinish")>> \in Seq(C)
    BY <1>2, FollowThenFinish
  <2> HIDE DEF C, kind
  <2> QED
    BY <2>1, <2>2, TwoCalls
<1>6. RunsOK' /\ Attempts' = Attempts
  <2>1. Attempts' = Attempts
    BY <1>3 DEF Attempts
  <2>2. decided' \subseteq NodeRun(Attempts)
    BY <1>2, <1>4, NodeTask DEF TypeOK, RunsOK
  <2> QED
    BY <1>3, <2>1, <2>2 DEF TypeOK, RunsOK
<1>7. CommandsOK' /\ Owner' = Owner /\ TimerOK'
  BY <1>3, <1>6, CommandsRead, TimerRead DEF TypeOK
<1>8. Len(Snap(t).node) <= Len(Snap(t).node)
  BY <1>2
<1> HIDE DEF c, k, calls
<1>9. CASE Throw(t)
  BY <1>3, <1>6, <1>7, <1>9, ThrowStep DEF SameShape
<1>10. CASE Return(t, Snap(t), calls)
  BY <1>1, <1>2, <1>3, <1>5, <1>6, <1>7, <1>8, <1>10, LocalStep DEF SameShape
<1> QED
  BY <1>4, <1>9, <1>10

\* A copy that carries the node runs an event has still to wake.
WithWaiting(snap, waiting) == [snap EXCEPT !.waiting = waiting]

\* The list of waiting node runs is kept in the copy.
LEMMA CopyWaiting ==
  ASSUME NEW owner, NEW attempts, NEW r \in Run,
         NEW snap \in Snapshot(r, owner, attempts),
         NEW waiting \in SUBSET NodeRun(attempts)
  PROVE  /\ WithWaiting(snap, waiting) \in Snapshot(r, owner, attempts)
         /\ WithWaiting(snap, waiting).node = snap.node
BY DEF WithWaiting, Snapshot

\* The listed node runs exist.
LEMMA WaitingIn ==
  ASSUME RunsOK, NEW ev
  PROVE  WaitingRuns(ev) \in SUBSET NodeRun(Attempts)
<1>1. ASSUME NEW n \in WaitingRuns(ev)
      PROVE  n \in NodeRun(Attempts)
  <2>1. PICK r \in Run : n \in {r} \X (DOMAIN node[r]) \X Key(r)
    BY DEF WaitingRuns
  <2>2. /\ DOMAIN node[r] = 1..Len(node[r])
        /\ Attempts[r] = Len(node[r]) /\ Len(node[r]) \in Nat
    BY AttemptsIn, LenProperties DEF NodeRows
  <2>3. n = <<r, n[2], n[3]>> /\ n[2] \in 1..Len(node[r]) /\ n[3] \in Key(r)
    BY <2>1, <2>2
  <2>4. n[3] \in NodeKey /\ n[2] \in Nat /\ n[1] = r
    BY <2>2, <2>3, NodeParts
  <2> QED
    BY <2>2, <2>3, <2>4 DEF NodeRun
<1> QED
  BY <1>1

\* injectEvent lists the waiting node runs.
LEMMA StepListWaiting ==
  ASSUME TypeOK, NEW t \in Thread, ListWaiting(t)
  PROVE  TypeOK'
<1> DEFINE ev == Call(t).ev
           snap == WithWaiting(Snap(t), WaitingRuns(ev))
           C == CallsOn(RunOf(t), Len(snap.node), Owner, Attempts)
           start == [Op("startRun") EXCEPT !.ev = ev]
<1>1. ~Idle(t) /\ UNCHANGED <<db, timer>> /\ UNCHANGED budget
      /\ Return(t, snap, <<Op("wake"), start>>)
  BY DEF ListWaiting, Calls, WithWaiting
<1>2. /\ RunOf(t) \in Run /\ Snap(t) \in Snapshot(RunOf(t), Owner, Attempts)
      /\ Len(Snap(t).node) \in Nat /\ ev \in EventName
  BY <1>1, CallParts DEF OpRecord
<1>3. snap \in Snapshot(RunOf(t), Owner, Attempts) /\ snap.node = Snap(t).node
  BY <1>2, WaitingIn, CopyWaiting DEF TypeOK
<1> HIDE DEF snap, ev
<1>4. Op("wake") \in C /\ start \in C
  <2>1. Len(snap.node) \in Nat
    BY <1>2, <1>3
  <2>2. "wake" \in FreeOps /\ "startRun" \in FreeOps
    BY DEF FreeOps
  <2> QED
    BY <1>2, <2>1, <2>2, FreeCall
<1> HIDE DEF start, C
<1>5. <<Op("wake"), start>> \in Seq(C)
  BY <1>4, TwoCalls
<1>6. Len(Snap(t).node) <= Len(snap.node)
  BY <1>2, <1>3
<1> QED
  BY <1>1, <1>3, <1>5, <1>6, ReadOnly, LocalStep DEF C

\* Each of them is completed on a copy of its run loaded then.
LEMMA StepWakeRun ==
  ASSUME TypeOK, NEW t \in Thread, WakeRun(t)
  PROVE  TypeOK'
<1>1. ~Idle(t) /\ UNCHANGED <<db, timer>> /\ UNCHANGED budget
  BY DEF WakeRun, Calls
<1>2. CASE Skip(t)
  BY <1>1, <1>2, ReadOnly, SkipStep
<1>3. ASSUME NEW n \in Snap(t).waiting,
             LET left == Frame(RunOf(t), [Snap(t) EXCEPT !.waiting = @ \ {n}],
                               Top(t).todo)
             IN SetStack(t,
                  (IF run[n[1]].state = "RUNNING"
                     THEN <<Frame(n[1], Load(n[1]), <<OnKey("complete", n[3])>>)>>
                     ELSE <<>>)
                  \o <<left>> \o Tail(stack[t]))
      PROVE  TypeOK'
  <2> DEFINE F == Frames(Owner, Attempts)
             snap == WithWaiting(Snap(t), Snap(t).waiting \ {n})
             left == Frame(RunOf(t), snap, Top(t).todo)
             entered == Frame(n[1], Load(n[1]), <<OnKey("complete", n[3])>>)
             above == IF run[n[1]].state = "RUNNING" THEN <<entered>> ELSE <<>>
             below == Tail(stack[t])
  <2>1. /\ RunOf(t) \in Run /\ Snap(t) \in Snapshot(RunOf(t), Owner, Attempts)
        /\ below \in Seq(F) /\ Top(t) = Frame(RunOf(t), Snap(t), Top(t).todo)
    BY <1>1, TopParts DEF TypeOK
  <2>2. Snap(t).waiting \subseteq NodeRun(Attempts)
    BY <2>1, SnapshotParts
  <2>3. snap \in Snapshot(RunOf(t), Owner, Attempts) /\ snap.node = Snap(t).node
    <3>1. Snap(t).waiting \ {n} \in SUBSET NodeRun(Attempts)
      BY <2>2
    <3> QED
      BY <2>1, <3>1, CopyWaiting
  <2>4. /\ Top(t).todo \in Seq(CallsOn(RunOf(t), Len(Snap(t).node), Owner, Attempts))
        /\ Top(t).todo # <<>>
    <3>1. stack[t] \in Seq(F) /\ stack[t] # <<>>
      BY <1>1, StackFrames DEF TypeOK, StacksOK, Idle
    <3>2. Top(t) \in F
      BY <3>1, HeadTailProperties DEF Top
    <3> QED
      BY <3>2, FrameParts DEF RunOf, Snap
  <2>5. left \in F
    BY <2>1, <2>3, <2>4, FrameMade
  <2>6. entered \in F
    <3>1. /\ n[1] \in Run /\ n[3] \in Key(n[1])
          /\ Len(node[n[1]]) \in Nat /\ Len(node[n[1]]) > 0
      BY <2>2, NodeRunParts DEF TypeOK
    <3>2. Load(n[1]) \in Snapshot(n[1], Owner, Attempts)
          /\ Load(n[1]).node = node[n[1]]
      BY <3>1, LoadOK DEF TypeOK
    <3>3. OnKey("complete", n[3])
            \in CallsOn(n[1], Len(Load(n[1]).node), Owner, Attempts)
      BY <3>1, <3>2, KeyCall DEF KeyOps
    <3>4. <<OnKey("complete", n[3])>>
            \in Seq(CallsOn(n[1], Len(Load(n[1]).node), Owner, Attempts))
          /\ <<OnKey("complete", n[3])>> # <<>>
      BY <3>3, OneCall
    <3> QED
      BY <3>1, <3>2, <3>4, FrameMade
  <2>7. SetStack(t, above \o <<left>> \o below)
    BY <1>3 DEF WithWaiting
  <2> HIDE DEF left, entered, F, below
  <2>8. <<left>> \in Seq(F) /\ above \in Seq(F)
    BY <2>5, <2>6, OneCall
  <2> HIDE DEF above
  <2>9. above \o <<left>> \o below \in Seq(F)
    BY <2>1, <2>8, ConcatProperties
  <2>10. /\ RunsOK' /\ CommandsOK' /\ TimerOK' /\ SameShape
         /\ Grow(Owner, Attempts, Owner', Attempts')
    BY <1>1, ReadOnly
  <2>11. above \o <<left>> \o below \in Seq(Frames(Owner', Attempts'))
    BY <2>9, <2>10 DEF F, SameShape
  <2>12. StacksOK /\ GateOK
    BY DEF TypeOK, GateOK
  <2>13. StacksOK' /\ GateOK'
    BY <2>7, <2>10, <2>11, <2>12, StackSet
  <2> QED
    BY <1>1, <2>10, <2>13 DEF TypeOK, GateOK
<1> QED
  BY <1>2, <1>3 DEF WakeRun

\* The event starts a run of the workflow it triggers.
LEMMA StepStartByEvent ==
  ASSUME TypeOK, NEW t \in Thread, StartByEvent(t)
  PROVE  TypeOK'
<1>1. ~Idle(t) /\ UNCHANGED <<traversed, decided, cmd, timer, budget>>
  BY DEF StartByEvent, Calls
<1>2. CASE Skip(t) /\ UNCHANGED <<run, node>>
  <2>1. UNCHANGED <<db, timer>>
    BY <1>1, <1>2 DEF db
  <2> QED
    BY <1>1, <1>2, <2>1, ReadOnly, SkipStep
<1>3. ASSUME NEW r \in Run, CreateWorkflowRun(r, NoParent),
             Enter(t, Frame(r, Load(r), <<Op("boot")>>))
      PROVE  TypeOK'
  <2>1. /\ RunsOK' /\ CommandsOK' /\ TimerOK'
        /\ Grow(Owner, Attempts, Owner', Attempts')
        /\ Attempts'[r] > 0
    BY <1>1, <1>3, RunCreated DEF TypeOK
  <2>2. /\ Load(r) \in Snapshot(r, Owner', Attempts')
        /\ <<Op("boot")>> \in Seq(CallsOn(r, Len(Load(r).node), Owner', Attempts'))
    BY <2>1, BootFrame DEF TypeOK
  <2>3. StacksOK /\ GateOK
    BY DEF TypeOK, GateOK
  <2>4. StacksOK' /\ GateOK'
    BY <1>1, <1>3, <2>1, <2>2, <2>3, Entered
  <2> QED
    BY <1>1, <2>1, <2>4 DEF TypeOK, GateOK
<1> QED
  BY <1>2, <1>3 DEF StartByEvent

-----------------------------------------------------------------------------
(* The timer thread, results, requests and a restart *)

\* A callback, a timer task or a request starts work on a run loaded now.
LEMMA StartStep ==
  ASSUME TypeOK, NEW t \in Thread,
         RunsOK', CommandsOK', TimerOK', SameShape,
         gate' \in {NoThread, Timer, Callback}, budget' \in [RequestKind -> Nat],
         NEW r \in Run, NEW snap \in Snapshot(r, Owner, Attempts),
         NEW todo \in Seq(CallsOn(r, Len(snap.node), Owner, Attempts)),
         todo # <<>>,
         stack' = [stack EXCEPT ![t] = <<Frame(r, snap, todo)>>]
  PROVE  TypeOK'
<1>1. Grow(Owner, Attempts, Owner', Attempts')
  BY ShapeGrows DEF TypeOK
<1>2. /\ snap \in Snapshot(r, Owner', Attempts')
      /\ todo \in Seq(CallsOn(r, Len(snap.node), Owner', Attempts'))
  BY DEF SameShape
<1>3. StacksOK
  BY DEF TypeOK
<1>4. StacksOK'
  BY <1>1, <1>2, <1>3, Started
<1> QED
  BY <1>4 DEF TypeOK

\* The row a timer task names exists.
LEMMA TaskParts ==
  ASSUME TypeOK, NEW task \in DOMAIN timer
  PROVE  /\ task.run \in Run /\ task.c \in Nat /\ Attempts[task.run] > 0
         /\ task.kind # "cycle" =>
              /\ task.k \in Key(task.run) /\ task.c \in 1..Len(node[task.run])
              /\ Len(node[task.run]) \in Nat /\ Len(node[task.run]) > 0
<1>1. task \in Task /\ (task.kind # "cycle" =>
                          <<task.run, task.c, task.k>> \in NodeRun(Attempts))
  BY DEF TypeOK, TimerOK
<1>2. task.run \in Run /\ task.c \in Nat
  BY <1>1 DEF Task
<1>3. Attempts[task.run] > 0
  BY DEF TypeOK, TimerOK
<1>4. CASE task.kind # "cycle"
  BY <1>1, <1>2, <1>3, <1>4, NodeRunParts DEF TypeOK
<1> QED
  BY <1>2, <1>3, <1>4

\* A task that fired is gone, or there is one fewer of it.
LEMMA TaskRemoved ==
  ASSUME NEW task, timer' = BagRemove(timer, task)
  PROVE  DOMAIN timer' \subseteq DOMAIN timer
BY DEF BagRemove

\* What firing a task does to the tables, when nothing else happens.
LEMMA TimerStep ==
  ASSUME TypeOK, NEW task, FireTask(task), UNCHANGED <<run, node>>
  PROVE  RunsOK' /\ CommandsOK' /\ TimerOK' /\ SameShape
<1>1. UNCHANGED <<run, node, traversed, decided, cmd>>
  BY DEF FireTask
<1>2. RunsOK' /\ CommandsOK' /\ SameShape
  BY <1>1, TablesRead, CommandsRead DEF TypeOK, SameShape
<1>3. Grow(Owner, Attempts, Owner', Attempts')
  BY <1>2, ShapeGrows DEF TypeOK
<1>4. DOMAIN timer' \subseteq DOMAIN timer
  BY TaskRemoved DEF FireTask
<1> QED
  BY <1>2, <1>3, <1>4, TimerGrown DEF TypeOK

\* A step that touches no stack.
LEMMA NoFrameStep ==
  ASSUME TypeOK, RunsOK', CommandsOK', TimerOK', SameShape,
         UNCHANGED <<stack, gate, budget>>
  PROVE  TypeOK'
<1>1. Grow(Owner, Attempts, Owner', Attempts')
  BY ShapeGrows DEF TypeOK
<1>2. StacksOK'
  BY <1>1, StacksStay DEF TypeOK
<1> QED
  BY <1>2 DEF TypeOK

\* The end of a DELAY completes the node on a loaded run.
LEMMA StepFireDelay ==
  ASSUME TypeOK, NEW task \in DOMAIN timer, FireDelay(task)
  PROVE  TypeOK'
<1> DEFINE calls == <<OnKey("complete", task.k)>>
<1>1. /\ FireTask(task) /\ UNCHANGED <<run, node>> /\ UNCHANGED budget
      /\ task.kind # "cycle"
  BY DEF FireDelay, FireTask
<1>2. RunsOK' /\ CommandsOK' /\ TimerOK' /\ SameShape
  BY <1>1, TimerStep
<1>3. \/ UNCHANGED <<stack, gate>>
      \/ /\ gate' = Timer
         /\ stack' = [stack EXCEPT ![Timer] = <<Frame(task.run, Load(task.run), calls)>>]
  BY DEF FireDelay
<1>4. /\ task.run \in Run /\ task.k \in Key(task.run)
      /\ Len(node[task.run]) \in Nat /\ Len(node[task.run]) > 0
  BY <1>1, TaskParts
<1>5. /\ Load(task.run) \in Snapshot(task.run, Owner, Attempts)
      /\ Load(task.run).node = node[task.run]
  BY <1>4, LoadOK DEF TypeOK
<1>6. /\ calls \in Seq(CallsOn(task.run, Len(Load(task.run).node), Owner, Attempts))
      /\ calls # <<>>
  BY <1>4, <1>5, KeyCall, OneCall DEF KeyOps
<1>7. Timer \in Thread /\ budget' \in [RequestKind -> Nat]
  BY <1>1 DEF Thread, TypeOK
<1> HIDE DEF calls
<1>8. CASE UNCHANGED <<stack, gate>>
  BY <1>1, <1>2, <1>8, NoFrameStep
<1>9. CASE /\ gate' = Timer
           /\ stack' = [stack EXCEPT ![Timer] = <<Frame(task.run, Load(task.run), calls)>>]
  BY <1>2, <1>4, <1>5, <1>6, <1>7, <1>9, StartStep
<1> QED
  BY <1>3, <1>8, <1>9

\* The retry task works on a loaded run.
LEMMA StepFireRetry ==
  ASSUME TypeOK, NEW task \in DOMAIN timer, FireRetry(task)
  PROVE  TypeOK'
<1> DEFINE calls == <<OnNode("again", task.c, task.k)>>
<1>1. /\ FireTask(task) /\ UNCHANGED <<run, node>> /\ UNCHANGED budget
      /\ task.kind # "cycle" /\ UNCHANGED gate
  BY DEF FireRetry, FireTask
<1>2. RunsOK' /\ CommandsOK' /\ TimerOK' /\ SameShape
  BY <1>1, TimerStep
<1>3. \/ UNCHANGED stack
      \/ stack' = [stack EXCEPT ![Timer] = <<Frame(task.run, Load(task.run), calls)>>]
  BY DEF FireRetry
<1>4. /\ task.run \in Run /\ task.k \in Key(task.run)
      /\ task.c \in 1..Len(node[task.run])
      /\ Len(node[task.run]) \in Nat /\ Len(node[task.run]) > 0
  BY <1>1, TaskParts
<1>5. /\ Load(task.run) \in Snapshot(task.run, Owner, Attempts)
      /\ Load(task.run).node = node[task.run]
  BY <1>4, LoadOK DEF TypeOK
<1>6. /\ calls \in Seq(CallsOn(task.run, Len(Load(task.run).node), Owner, Attempts))
      /\ calls # <<>>
  BY <1>4, <1>5, RowCall, OneCall DEF RowOps, CommandOps
<1>7. /\ Timer \in Thread /\ budget' \in [RequestKind -> Nat]
      /\ gate' \in {NoThread, Timer, Callback}
  BY <1>1 DEF Thread, TypeOK
<1> HIDE DEF calls
<1>8. CASE UNCHANGED stack
  BY <1>1, <1>2, <1>8, NoFrameStep
<1>9. CASE stack' = [stack EXCEPT ![Timer] = <<Frame(task.run, Load(task.run), calls)>>]
  BY <1>2, <1>4, <1>5, <1>6, <1>7, <1>9, StartStep
<1> QED
  BY <1>3, <1>8, <1>9

\* The row of a run that begins its next cycle, and the attempts it then has.
WithCycle(row, c) == [row EXCEPT !.cycle = c, !.next = FALSE]

\* The row of a run in its next cycle.
LEMMA CycleRow ==
  ASSUME NEW attempts, NEW row \in RunRow(attempts), NEW c \in Nat
  PROVE  WithCycle(row, c) \in RunRow(attempts) /\ WithCycle(row, c).state = row.state
BY DEF WithCycle, RunRow

\* createNextWorkflowCycle adds one attempt of every node.
LEMMA NextAttempt ==
  ASSUME RunsOK, NEW r \in Run
  PROVE  /\ Append(node[r], FreshNodes(r)) \in NodeRows(r)
         /\ Len(Append(node[r], FreshNodes(r))) = Len(node[r]) + 1
<1>1. node[r] \in Seq([Key(r) -> NodeRow])
  BY DEF RunsOK, NodeRows
<1>2. FreshNodes(r) \in [Key(r) -> NodeRow]
  BY FreshIn
<1> HIDE DEF FreshNodes
<1> QED
  BY <1>1, <1>2, AppendProperties DEF NodeRows

\* The next cycle begins, or the task gives up.
LEMMA StepFireCycle ==
  ASSUME TypeOK, NEW task \in DOMAIN timer, FireCycle(task)
  PROVE  TypeOK'
<1> DEFINE r == task.run
<1>1. FireTask(task) /\ UNCHANGED <<traversed, decided, cmd, budget, gate>>
  BY DEF FireCycle, FireTask
<1>2. r \in Run /\ task.c \in Nat
  BY TaskParts
<1>3. CASE UNCHANGED <<run, node, stack>>
  <2>1. RunsOK' /\ CommandsOK' /\ TimerOK' /\ SameShape
    BY <1>1, <1>3, TimerStep
  <2> QED
    BY <1>1, <1>3, <2>1, NoFrameStep
<1>4. CASE /\ run[r].state = "RUNNING"
           /\ node' = [node EXCEPT ![r] = Append(@, FreshNodes(r))]
           /\ run' = [run EXCEPT ![r].cycle = task.c, ![r].next = FALSE]
           /\ stack' = [stack EXCEPT ![Timer] = <<Frame(r, Load(r), <<Op("boot")>>)>>]
  <2> DEFINE row == WithCycle(run[r], task.c)
             rows == Append(node[r], FreshNodes(r))
  <2>1. run[r] \in RunRow(Attempts) /\ run \in [Run -> RunRow(Attempts)]
    BY <1>2 DEF TypeOK, RunsOK
  <2>2. row \in RunRow(Attempts) /\ row.state = run[r].state
    BY <1>2, <2>1, CycleRow
  <2>3. rows \in NodeRows(r) /\ Len(rows) = Len(node[r]) + 1
    BY <1>2, NextAttempt DEF TypeOK
  <2>4. node' = [node EXCEPT ![r] = rows]
    BY <1>4
  <2>5. run' = [run EXCEPT ![r] = row]
    BY <1>4 DEF WithCycle
  <2>6. row.state # "NONE"
    BY <1>4, <2>2
  <2> HIDE DEF row, rows
  <2>7. /\ RunsOK' /\ Grow(Owner, Attempts, Owner', Attempts')
        /\ Attempts'[r] > 0
    BY <1>1, <1>2, <2>2, <2>3, <2>4, <2>5, <2>6, AttemptAdded DEF TypeOK
  <2>8. CommandsOK'
    BY <1>1, <2>7, CommandsGrown DEF TypeOK
  <2>9. TimerOK'
    <3>1. DOMAIN timer' \subseteq DOMAIN timer
      BY <1>1, TaskRemoved DEF FireTask
    <3> QED
      BY <2>7, <3>1, TimerGrown DEF TypeOK
  <2>10. /\ Load(r) \in Snapshot(r, Owner', Attempts')
         /\ <<Op("boot")>> \in Seq(CallsOn(r, Len(Load(r).node), Owner', Attempts'))
         /\ <<Op("boot")>> # <<>>
    BY <1>2, <2>7, BootFrame DEF TypeOK
  <2>11. Timer \in Thread /\ StacksOK
    BY DEF Thread, TypeOK
  <2>12. StacksOK'
    BY <1>2, <1>4, <2>7, <2>10, <2>11, Started
  <2> QED
    BY <1>1, <2>7, <2>8, <2>9, <2>12 DEF TypeOK
<1> QED
  BY <1>3, <1>4 DEF FireCycle

\* A command whose answer or feedback has arrived.
WithAnswer(row, state) == [row EXCEPT !.live = FALSE, !.state = state]
WithFired(row) == [row EXCEPT !.fired = TRUE]

\* A command row after its answer, or its feedback.
LEMMA AnswerRow ==
  ASSUME NEW row \in CommandRow, NEW state \in OpenCommand \cup Terminal
  PROVE  /\ WithAnswer(row, state) \in CommandRow /\ WithFired(row) \in CommandRow
         /\ WithAnswer(row, state).run = row.run /\ WithFired(row).run = row.run
         /\ WithAnswer(row, state).c = row.c /\ WithFired(row).c = row.c
         /\ WithAnswer(row, state).k = row.k /\ WithFired(row).k = row.k
BY DEF WithAnswer, WithFired, CommandRow

\* The call that applies the result of a command to the run that owns it.
LEMMA ResultCall ==
  ASSUME NEW r \in Run, NEW loaded \in Nat, loaded > 0, NEW owner, NEW attempts,
         NEW i \in DOMAIN owner, i \in Nat, owner[i] = r, NEW ok \in BOOLEAN
  PROVE  WithOutcome(OnIndex("result", i), ok) \in CallsOn(r, loaded, owner, attempts)
<1> DEFINE call == OnIndex("result", i)
           told == WithOutcome(call, ok)
<1>1. call \in OpRecord /\ call.op = "result" /\ call.i = i
  BY OnIndexIn, OpsApart
<1> HIDE DEF call
<1>2. told \in OpRecord /\ told.op = "result" /\ told.i = i
  BY <1>1, OutcomeIn
<1> HIDE DEF told
<1>3. "result" \notin KeyOps \cup RowOps
  BY DEF KeyOps, RowOps
<1>4. told \in CallsOn(r, loaded, owner, attempts)
  BY <1>2, <1>3, OpsApart DEF CallsOn
<1> QED
  BY <1>4 DEF call, told

\* The result of a command arrives.
LEMMA StepResultArrives ==
  ASSUME TypeOK, NEW i \in DOMAIN cmd, NEW ok \in BOOLEAN, CommandResult(i, ok)
  PROVE  TypeOK'
<1> DEFINE r == cmd[i].run
           state == IF ok THEN "SUCCEEDED" ELSE "FAILED"
           row == WithAnswer(cmd[i], state)
           calls == <<WithOutcome(OnIndex("result", i), ok)>>
<1>1. /\ cmd' = [cmd EXCEPT ![i].live = FALSE, ![i].state = state]
      /\ gate' = Callback
      /\ stack' = [stack EXCEPT ![Callback] = <<Frame(r, Load(r), calls)>>]
      /\ UNCHANGED <<run, node, traversed, decided, timer, budget>>
  BY DEF CommandResult
<1>2. /\ r \in Run /\ Len(node[r]) \in Nat /\ Len(node[r]) > 0
  BY ResultParts
<1>3. /\ cmd[i] \in CommandRow /\ i \in DOMAIN Owner /\ Owner[i] = r /\ i \in Nat
  BY CommandsParts DEF TypeOK
<1>4. state \in OpenCommand \cup Terminal
  BY DEF Terminal
<1>5. row \in CommandRow /\ row.run = cmd[i].run /\ row.c = cmd[i].c /\ row.k = cmd[i].k
  BY <1>3, <1>4, AnswerRow
<1>6. cmd' = [cmd EXCEPT ![i] = row]
  BY <1>1 DEF WithAnswer
<1> HIDE DEF row, state
<1>7. RunsOK' /\ Attempts' = Attempts
  BY <1>1, TablesRead DEF TypeOK
<1>8. CommandsOK' /\ Owner' = Owner
  BY <1>5, <1>6, <1>7, CommandWritten DEF TypeOK
<1>9. TimerOK'
  BY <1>1, <1>7, TimerRead DEF TypeOK
<1>10. Load(r) \in Snapshot(r, Owner, Attempts) /\ Load(r).node = node[r]
  BY <1>2, LoadOK DEF TypeOK
<1>11. /\ calls \in Seq(CallsOn(r, Len(Load(r).node), Owner, Attempts))
       /\ calls # <<>>
  BY <1>2, <1>3, <1>10, ResultCall, OneCall
<1>12. /\ Callback \in Thread /\ budget' \in [RequestKind -> Nat]
       /\ gate' \in {NoThread, Timer, Callback}
  BY <1>1 DEF Thread, TypeOK
<1> HIDE DEF calls
<1> QED
  BY <1>1, <1>2, <1>7, <1>8, <1>9, <1>10, <1>11, <1>12, StartStep DEF SameShape

\* Feedback of a command follows its event edges.
LEMMA StepFeedback ==
  ASSUME TypeOK, NEW i \in DOMAIN cmd, CommandFeedback(i)
  PROVE  TypeOK'
<1> DEFINE r == cmd[i].run
           row == WithFired(cmd[i])
           todo == FollowEdges(r, cmd[i].k, "event",
                               Graph[r].node[cmd[i].k].feedback)
<1>1. /\ cmd' = [cmd EXCEPT ![i].fired = TRUE]
      /\ gate' = Callback /\ todo # <<>>
      /\ stack' = [stack EXCEPT ![Callback] = <<Frame(r, Load(r), todo)>>]
      /\ UNCHANGED <<run, node, traversed, decided, timer, budget>>
  BY DEF CommandFeedback
<1>2. r \in Run /\ Len(node[r]) \in Nat /\ Len(node[r]) > 0
  BY ResultParts
<1>3. cmd[i] \in CommandRow
  BY CommandsParts DEF TypeOK
<1>4. row \in CommandRow /\ row.run = cmd[i].run /\ row.c = cmd[i].c /\ row.k = cmd[i].k
  BY <1>3, AnswerRow DEF Terminal
<1>5. cmd' = [cmd EXCEPT ![i] = row]
  BY <1>1 DEF WithFired
<1> HIDE DEF row
<1>6. RunsOK' /\ Attempts' = Attempts
  BY <1>1, TablesRead DEF TypeOK
<1>7. CommandsOK' /\ Owner' = Owner
  BY <1>4, <1>5, <1>6, CommandWritten DEF TypeOK
<1>8. TimerOK'
  BY <1>1, <1>6, TimerRead DEF TypeOK
<1>9. Load(r) \in Snapshot(r, Owner, Attempts) /\ Load(r).node = node[r]
  BY <1>2, LoadOK DEF TypeOK
<1>10. todo \in Seq(CallsOn(r, Len(Load(r).node), Owner, Attempts))
  BY <1>2, <1>9, FollowCalls
<1>11. /\ Callback \in Thread /\ budget' \in [RequestKind -> Nat]
       /\ gate' \in {NoThread, Timer, Callback}
  BY <1>1 DEF Thread, TypeOK
<1> HIDE DEF todo
<1> QED
  BY <1>1, <1>2, <1>6, <1>7, <1>8, <1>9, <1>10, <1>11, StartStep DEF SameShape

\* A request takes an idle HTTP thread and one unit of the budget.
LEMMA RequestParts ==
  ASSUME TypeOK, NEW h \in Http, NEW kind \in RequestKind, NEW frame,
         Request(h, kind, frame)
  PROVE  /\ h \in Thread /\ budget' \in [RequestKind -> Nat]
         /\ gate' \in {NoThread, Timer, Callback}
         /\ stack' = [stack EXCEPT ![h] = <<frame>>] /\ UNCHANGED timer
<1>1. /\ budget \in [RequestKind -> Nat] /\ budget[kind] > 0
      /\ budget' = [budget EXCEPT ![kind] = @ - 1]
  BY DEF Request, TypeOK
<1>2. budget[kind] - 1 \in Nat
  BY <1>1
<1>3. budget' \in [RequestKind -> Nat]
  BY <1>1, <1>2
<1>4. UNCHANGED <<gate, timer>> /\ stack' = [stack EXCEPT ![h] = <<frame>>]
  BY DEF Request
<1> QED
  BY <1>3, <1>4 DEF Thread, TypeOK

\* A request on a run that it loads first.
LEMMA RequestStep ==
  ASSUME TypeOK, NEW h \in Http, NEW kind \in RequestKind, UNCHANGED db,
         NEW r \in Run, NEW snap \in Snapshot(r, Owner, Attempts),
         NEW todo \in Seq(CallsOn(r, Len(snap.node), Owner, Attempts)),
         todo # <<>>, Request(h, kind, Frame(r, snap, todo))
  PROVE  TypeOK'
<1>1. /\ h \in Thread /\ budget' \in [RequestKind -> Nat]
      /\ gate' \in {NoThread, Timer, Callback}
      /\ stack' = [stack EXCEPT ![h] = <<Frame(r, snap, todo)>>]
      /\ UNCHANGED timer
  BY RequestParts
<1>2. RunsOK' /\ CommandsOK' /\ TimerOK' /\ SameShape
  BY <1>1, ReadOnly
<1> QED
  BY <1>1, <1>2, StartStep

\* An operator starts a run.
LEMMA StepStartManual ==
  ASSUME TypeOK, NEW h \in Http, NEW r \in Manual, StartManual(h, r)
  PROVE  TypeOK'
<1>1. /\ CreateWorkflowRun(r, NoParent)
      /\ Request(h, "start", Frame(r, Load(r), <<Op("boot")>>))
      /\ UNCHANGED <<traversed, decided, cmd>>
  BY DEF StartManual
<1>2. r \in Run
  BY ExecutorAssumption
<1>3. "start" \in RequestKind
  BY DEF RequestKind
<1>4. /\ h \in Thread /\ budget' \in [RequestKind -> Nat]
      /\ gate' \in {NoThread, Timer, Callback}
      /\ stack' = [stack EXCEPT ![h] = <<Frame(r, Load(r), <<Op("boot")>>)>>]
      /\ UNCHANGED timer
  BY <1>1, <1>3, RequestParts
<1>5. /\ RunsOK' /\ CommandsOK' /\ TimerOK'
      /\ Grow(Owner, Attempts, Owner', Attempts')
      /\ Attempts'[r] > 0
  BY <1>1, <1>2, <1>4, RunCreated DEF TypeOK
<1>6. /\ Load(r) \in Snapshot(r, Owner', Attempts')
      /\ <<Op("boot")>> \in Seq(CallsOn(r, Len(Load(r).node), Owner', Attempts'))
      /\ <<Op("boot")>> # <<>>
  BY <1>2, <1>5, BootFrame DEF TypeOK
<1>7. StacksOK
  BY DEF TypeOK
<1>8. StacksOK'
  BY <1>2, <1>4, <1>5, <1>6, <1>7, Started
<1> QED
  BY <1>4, <1>5, <1>8 DEF TypeOK

\* A copy that carries the commands a cancellation has still to stop.
WithCommands(snap, commands) == [snap EXCEPT !.commands = commands]

\* The list of commands to cancel is kept in the copy.
LEMMA CopyCommands ==
  ASSUME NEW owner, NEW attempts, NEW r \in Run,
         NEW snap \in Snapshot(r, owner, attempts),
         NEW commands \in SUBSET DOMAIN owner
  PROVE  /\ WithCommands(snap, commands) \in Snapshot(r, owner, attempts)
         /\ WithCommands(snap, commands).node = snap.node
BY DEF WithCommands, Snapshot

\* An operator cancels a run that exists.
LEMMA StepCancel ==
  ASSUME TypeOK, NEW h \in Http, NEW r \in Run, Cancel(h, r)
  PROVE  TypeOK'
<1> DEFINE commands == {i \in DOMAIN cmd : /\ cmd[i].run = r
                                           /\ TypeOf(r, cmd[i].k) = "NAVIGATION"
                                           /\ cmd[i].state \in OpenCommand}
           snap == WithCommands(Load(r), commands)
           C == CallsOn(r, Len(snap.node), Owner, Attempts)
           todo == <<Op("cancelCommands"), Op("cancelNodes"),
                     Op("cancelRun"), NotifyParent(FALSE)>>
<1>1. /\ run[r].state # "NONE" /\ UNCHANGED db
      /\ Request(h, "cancel", Frame(r, snap, todo))
  BY DEF Cancel, WithCommands
<1>2. commands \in SUBSET DOMAIN Owner
  BY CommandsParts DEF TypeOK
<1>3. Load(r) \in Snapshot(r, Owner, Attempts) /\ Load(r).node = node[r]
  BY LoadOK DEF TypeOK
<1> HIDE DEF commands
<1>4. snap \in Snapshot(r, Owner, Attempts) /\ snap.node = node[r]
  BY <1>2, <1>3, CopyCommands
<1>5. Len(node[r]) \in Nat /\ Len(node[r]) > 0
  <2>1. node[r] \in NodeRows(r) /\ node[r] # <<>>
    BY <1>1 DEF TypeOK, RunsOK
  <2>2. Len(node[r]) \in Nat
    BY AttemptsIn DEF TypeOK
  <2>3. Len(node[r]) # 0
    BY <2>1, EmptySeq DEF NodeRows
  <2> QED
    BY <2>2, <2>3
<1> HIDE DEF snap
<1>6. /\ Op("cancelCommands") \in C /\ Op("cancelNodes") \in C
      /\ Op("cancelRun") \in C /\ NotifyParent(FALSE) \in C
  BY <1>4, <1>5, RunCall DEF OtherOps, NotifyParent
<1> HIDE DEF C
<1>7. todo \in Seq(C) /\ todo # <<>>
  BY <1>6, FourCalls
<1> HIDE DEF todo
<1>8. "cancel" \in RequestKind
  BY DEF RequestKind
<1> QED
  BY <1>1, <1>4, <1>7, <1>8, RequestStep DEF C

\* An operator decides a manual confirmation.
LEMMA StepDecideManual ==
  ASSUME TypeOK, NEW h \in Http, NEW r \in Run, NEW c \in DOMAIN node[r],
         NEW k \in Key(r), NEW ok \in BOOLEAN, DecideManual(h, r, c, k, ok)
  PROVE  TypeOK'
<1> DEFINE todo == <<WithOutcome(OnNode("decide", c, k), ok)>>
<1>1. UNCHANGED db /\ Request(h, "decide", Frame(r, Load(r), todo))
  BY DEF DecideManual
<1>2. Load(r) \in Snapshot(r, Owner, Attempts) /\ Load(r).node = node[r]
  BY LoadOK DEF TypeOK
<1>3. c \in 1..Len(node[r]) /\ Len(node[r]) \in Nat
  BY AttemptsIn, LenProperties DEF TypeOK, NodeRows
<1>4. /\ todo \in Seq(CallsOn(r, Len(Load(r).node), Owner, Attempts))
      /\ todo # <<>>
  BY <1>2, <1>3, RowCall, OneCall DEF RowOps, CommandOps
<1> HIDE DEF todo
<1>5. "decide" \in RequestKind
  BY DEF RequestKind
<1> QED
  BY <1>1, <1>2, <1>4, <1>5, RequestStep

\* An event is injected.
LEMMA StepInjectEvent ==
  ASSUME TypeOK, NEW h \in Http, NEW ev \in Events, InjectEvent(h, ev)
  PROVE  TypeOK'
<1> DEFINE r == CHOOSE s \in Run : TRUE
           call == [Op("inject") EXCEPT !.ev = ev]
<1>1. UNCHANGED db /\ Request(h, "inject", Frame(r, Load(r), <<call>>))
  BY DEF InjectEvent
<1>2. ev \in EventName /\ Run # {}
  BY DEF Events, EventName
<1>3. r \in Run
  BY <1>2
<1> HIDE DEF r
<1>4. Load(r) \in Snapshot(r, Owner, Attempts)
  BY <1>3, LoadOK DEF TypeOK
<1>5. Len(Load(r).node) \in Nat
  BY <1>3, <1>4, SnapshotParts
<1>6. call \in CallsOn(r, Len(Load(r).node), Owner, Attempts)
  BY <1>2, <1>3, <1>5, FreeCall DEF FreeOps
<1> HIDE DEF call
<1>7. /\ <<call>> \in Seq(CallsOn(r, Len(Load(r).node), Owner, Attempts))
      /\ <<call>> # <<>>
  BY <1>6, OneCall
<1>8. "inject" \in RequestKind
  BY DEF RequestKind
<1> QED
  BY <1>1, <1>3, <1>4, <1>7, <1>8, RequestStep

\* A process that starts has no timer task.
LEMMA NoTasks ==
  DOMAIN EmptyBag = {}
BY DEF EmptyBag, SetToBag

WithoutAnswer(row) == [row EXCEPT !.live = FALSE]

\* The process dies: the tables stay, frames and tasks are gone.
LEMMA StepRestart ==
  ASSUME TypeOK, Restart
  PROVE  TypeOK'
<1>1. /\ stack' = [t \in Thread |-> <<>>] /\ timer' = EmptyBag
      /\ gate' = NoThread
      /\ cmd' = [i \in DOMAIN cmd |-> WithoutAnswer(cmd[i])]
      /\ UNCHANGED <<run, node, traversed, decided>>
  BY DEF Restart, WithoutAnswer
<1>2. RunsOK' /\ Attempts' = Attempts
  BY <1>1, TablesRead DEF TypeOK
<1>3. ASSUME NEW i \in DOMAIN cmd
      PROVE  /\ cmd'[i] \in CommandRow /\ cmd'[i].run = cmd[i].run
             /\ cmd'[i].c = cmd[i].c /\ cmd'[i].k = cmd[i].k
  <2>1. cmd[i] \in CommandRow /\ cmd'[i] = WithoutAnswer(cmd[i])
    BY <1>1, CommandsParts DEF TypeOK
  <2> QED
    BY <2>1 DEF WithoutAnswer, CommandRow
<1>4. cmd' \in Seq(CommandRow)
  <2>1. DOMAIN cmd' = 1..Len(cmd) /\ Len(cmd) \in Nat /\ DOMAIN cmd = DOMAIN cmd'
    BY <1>1, CommandsParts DEF TypeOK
  <2>2. cmd' = [i \in 1..Len(cmd) |-> cmd'[i]]
    BY <1>1, <2>1
  <2>3. cmd' \in [1..Len(cmd) -> CommandRow]
    BY <1>3, <2>1, <2>2
  <2> QED
    BY <2>1, <2>3, SeqDef
<1>5. DOMAIN cmd' = DOMAIN cmd
  BY <1>1
<1>6. CommandsOK'
  BY <1>2, <1>3, <1>4, <1>5 DEF TypeOK, CommandsOK
<1>7. StacksOK'
  <2>1. ASSUME NEW t \in Thread
        PROVE  StackOK(stack'[t], Owner', Attempts')
    <3>1. <<>> \in Seq(Frames(Owner', Attempts'))
      OBVIOUS
    <3>2. stack'[t] = <<>>
      BY <1>1
    <3> QED
      BY <3>1, <3>2, StackFrames
  <2> QED
    BY <1>1, <2>1 DEF StacksOK
<1>8. TimerOK'
  BY <1>1, NoTasks DEF TimerOK
<1>9. budget' \in [RequestKind -> Nat]
  <2>1. /\ budget \in [RequestKind -> Nat] /\ budget["restart"] > 0
        /\ budget' = [budget EXCEPT !["restart"] = @ - 1]
        /\ "restart" \in RequestKind
    BY DEF Restart, TypeOK, RequestKind
  <2>2. budget["restart"] - 1 \in Nat
    BY <2>1
  <2> QED
    BY <2>1, <2>2
<1> QED
  BY <1>1, <1>2, <1>6, <1>7, <1>8, <1>9 DEF TypeOK

\* A stuttering step.
LEMMA StepNothing ==
  ASSUME TypeOK, UNCHANGED vars
  PROVE  TypeOK'
<1>1. UNCHANGED <<db, timer>> /\ UNCHANGED <<stack, gate, budget>>
  BY DEF vars, db
<1> QED
  BY <1>1, ReadOnly, NoFrameStep

\* The empty tables are well typed.
LEMMA InitialTypes ==
  ASSUME Init
  PROVE  TypeOK
<1>1. Attempts = [r \in Run |-> 0]
  <2>1. \A r \in Run : Len(node[r]) = 0
    BY EmptySeq DEF Init
  <2> QED
    BY <2>1 DEF Attempts
<1>2. RunsOK
  <2>1. ASSUME NEW r \in Run
        PROVE  /\ run[r] \in RunRow(Attempts) /\ run[r].state = "NONE"
               /\ node[r] = <<>> /\ traversed[r] = {}
    BY DEF Init, RunRow, RunState
  <2>2. run \in [Run -> RunRow(Attempts)] /\ DOMAIN node = Run /\ DOMAIN traversed = Run
    BY <2>1 DEF Init
  <2>3. \A r \in Run : node[r] \in NodeRows(r)
    BY <2>1, EmptySeq DEF NodeRows
  <2>4. decided = {}
    BY DEF Init
  <2> QED
    BY <2>1, <2>2, <2>3, <2>4 DEF RunsOK
<1>3. CommandsOK
  <2>1. cmd = <<>>
    BY DEF Init
  <2>2. cmd \in Seq(CommandRow) /\ DOMAIN cmd = {}
    BY <2>1
  <2> QED
    BY <2>2 DEF CommandsOK
<1>4. StacksOK
  <2>1. ASSUME NEW t \in Thread
        PROVE  StackOK(stack[t], Owner, Attempts)
    <3>1. <<>> \in Seq(Frames(Owner, Attempts))
      OBVIOUS
    <3>2. stack[t] = <<>>
      BY DEF Init
    <3> QED
      BY <3>1, <3>2, StackFrames
  <2> QED
    BY <2>1 DEF StacksOK, Init
<1>5. TimerOK
  BY NoTasks DEF TimerOK, Init
<1> QED
  BY <1>2, <1>3, <1>4, <1>5, ExecutorAssumption DEF TypeOK, Init

\* Every step of a thread keeps the types.
LEMMA ThreadStep ==
  ASSUME TypeOK, NEW t \in Thread, Step(t)
  PROVE  TypeOK'
BY StepCompleteNode, StepFailNode, StepFailRun, StepTraverseEdge,
   StepActivateNode, StepFinishOrRepeat, StepMaybeFinishRun,
   StepExecuteDelay, StepExecuteWait, StepExecuteContext, StepExecuteSubflow,
   StepSpawnChild, StepStoreOutput, StepBootstrap, StepFailWithoutStart,
   StepDispatch, StepSendCommand, StepRefuseCommand, StepMarkDispatched,
   StepTopicPublished, StepResult, StepScheduleRetry, StepRetryNode,
   StepNotify, StepSettleSubflow, StepCancelCommand, StepCancelNode,
   StepCancelRun, StepApplyDecision, StepRecordDecision, StepListWaiting,
   StepWakeRun, StepStartByEvent
   DEF Step

\* So does every step of the system.
LEMMA NextStep ==
  ASSUME TypeOK, [Next]_vars
  PROVE  TypeOK'
<1>1. CASE \E t \in Thread : Step(t)
  BY <1>1, ThreadStep
<1>2. CASE \E task \in DOMAIN timer : Fire(task)
  BY <1>2, StepFireDelay, StepFireRetry, StepFireCycle DEF Fire
<1>3. CASE \E i \in DOMAIN cmd : Result(i) \/ CommandFeedback(i)
  BY <1>3, StepResultArrives, StepFeedback DEF Result
<1>4. CASE \E h \in Http : HttpRequest(h)
  BY <1>4, StepStartManual, StepCancel, StepDecideManual, StepInjectEvent,
     ExecutorAssumption DEF HttpRequest
<1>5. CASE Restart
  BY <1>5, StepRestart
<1>6. CASE UNCHANGED vars
  BY <1>6, StepNothing
<1> QED
  BY <1>1, <1>2, <1>3, <1>4, <1>5, <1>6 DEF Next

\* Type correctness of the executor, for any graphs, number of runs, HTTP
\* threads and requests: each row has its fields, and each call still to be
\* made by a handler, a callback or a timer task addresses a node run, an
\* edge or a command that exists in the copy it works on, though that copy
\* may be older than the tables (WorkflowExecutor never re-reads a run it
\* loaded).
THEOREM Typing == Spec => []TypeOK
<1>1. Init => TypeOK
  BY InitialTypes
<1>2. TypeOK /\ [Next]_vars => TypeOK'
  BY NextStep
<1> QED
  BY <1>1, <1>2, PTL DEF Spec

-----------------------------------------------------------------------------
(* The number of cycles of a run *)

\* What makes CyclesBounded inductive: no task is scheduled for a cycle after
\* the last one.
CyclesOK ==
  /\ CyclesBounded
  /\ \A task \in DOMAIN timer :
       task.kind = "cycle" => task.c <= Graph[task.run].loop

\* A write to rows that exist.
RowsKept == \A r \in Run : DOMAIN node'[r] = DOMAIN node[r]

\* Rows that are only written keep the number of attempts.
LEMMA KeptLengths ==
  ASSUME RunsOK, RunsOK', RowsKept, NEW r \in Run
  PROVE  Len(node'[r]) = Len(node[r])
<1>1. /\ node[r] \in Seq([Key(r) -> NodeRow])
      /\ node'[r] \in Seq([Key(r) -> NodeRow])
  BY DEF RunsOK, NodeRows
<1>2. /\ Len(node[r]) \in Nat /\ DOMAIN node[r] = 1..Len(node[r])
      /\ Len(node'[r]) \in Nat /\ DOMAIN node'[r] = 1..Len(node'[r])
  BY <1>1, LenProperties
<1>3. 1..Len(node[r]) = 1..Len(node'[r])
  BY <1>2 DEF RowsKept
<1> QED
  BY <1>2, <1>3

WriteRow(r, c, k, row) == node' = [node EXCEPT ![r][c][k] = row]

\* Writing one row adds no attempt.
LEMMA RowKept ==
  ASSUME RunsOK, NEW r, NEW c, NEW k, NEW row, WriteRow(r, c, k, row)
  PROVE  RowsKept
BY DEF RunsOK, RowsKept, WriteRow

\* updateNodeRun adds no attempt.
LEMMA StateKept ==
  ASSUME RunsOK, NEW r, NEW c, NEW k, NEW state, UpdateNodeRun(r, c, k, state)
  PROVE  RowsKept
<1>1. WriteRow(r, c, k, [node[r][c][k] EXCEPT !.state = state])
  BY DEF UpdateNodeRun, WriteRow
<1> QED
  BY <1>1, RowKept

\* Nor does a step that writes no node.
LEMMA SameRows ==
  ASSUME UNCHANGED node
  PROVE  RowsKept
BY DEF RowsKept

\* Tasks for a later cycle come from finishOrRepeat only.
CyclesKept ==
  \A task \in DOMAIN timer' :
    task \notin DOMAIN timer /\ task.kind = "cycle" =>
      task.c <= Graph[task.run].loop

\* What a step may do to the cycles: leave them alone, or create a run.
CycleStep ==
  /\ CyclesKept
  /\ \/ RowsKept
     \/ \E r \in Run : \E parent : CreateWorkflowRun(r, parent)

\* A step that schedules nothing.
LEMMA SameTimer ==
  ASSUME UNCHANGED timer
  PROVE  CyclesKept
BY DEF CyclesKept

\* A step that schedules a DELAY or a retry.
LEMMA OtherTask ==
  ASSUME NEW task, task.kind # "cycle", timer' = BagAdd(timer, task)
  PROVE  CyclesKept
<1>1. DOMAIN timer' = DOMAIN timer \cup {task}
  BY DEF BagAdd
<1> QED
  BY <1>1 DEF CyclesKept

\* finishOrRepeatWorkflow schedules a cycle only below loop_count.
LEMMA FinishCycle ==
  ASSUME TypeOK, NEW t \in Thread, FinishOrRepeat(t)
  PROVE  CycleStep
<1> DEFINE r == RunOf(t)
           task == [kind |-> "cycle", run |-> r, c |-> Snap(t).cycle + 1, k |-> ""]
<1>1. ~Idle(t) /\ UNCHANGED node
  BY DEF FinishOrRepeat, Calls
<1>2. r \in Run /\ Snap(t).cycle \in Nat
  BY <1>1, CallParts, SnapshotParts
<1>3. \/ UNCHANGED timer
      \/ ~LastCycle(r, Snap(t)) /\ timer' = BagAdd(timer, task)
  BY DEF FinishOrRepeat
<1>4. CASE UNCHANGED timer
  BY <1>1, <1>4, SameRows, SameTimer DEF CycleStep
<1>5. CASE ~LastCycle(r, Snap(t)) /\ timer' = BagAdd(timer, task)
  <2>1. Graph[r].loop \in Nat
    BY <1>2, GraphAssumption
  <2>2. Snap(t).cycle + 1 <= Graph[r].loop
    <3>1. ~(Snap(t).cycle >= Graph[r].loop)
      BY <1>5 DEF LastCycle
    <3> QED
      BY <1>2, <2>1, <3>1
  <2>5. task.c = Snap(t).cycle + 1 /\ task.run = r
    OBVIOUS
  <2> HIDE DEF task, r
  <2>3. DOMAIN timer' = DOMAIN timer \cup {task}
    BY <1>5 DEF BagAdd
  <2>4. CyclesKept
    BY <2>2, <2>3, <2>5 DEF CyclesKept
  <2> QED
    BY <1>1, <2>4, SameRows DEF CycleStep
<1> QED
  BY <1>3, <1>4, <1>5

\* A SUBFLOW creates the first attempt of a run.
LEMMA SpawnCycle ==
  ASSUME TypeOK, NEW t \in Thread, SpawnChild(t)
  PROVE  CycleStep
<1>1. ~Idle(t) /\ UNCHANGED timer
  BY DEF SpawnChild, Calls
<1>2. Call(t).op \in RowOps
  BY DEF SpawnChild, Calls, RowOps
<1>3. Call(t).k \in Key(RunOf(t)) /\ RunOf(t) \in Run
  BY <1>1, <1>2, RowParts
<1>4. Graph[RunOf(t)].node[Call(t).k].calls \subseteq Run
  BY <1>3, NodeParts DEF NodeAttributes
<1>5. \/ UNCHANGED node
      \/ \E r \in Run : \E parent : CreateWorkflowRun(r, parent)
  BY <1>4 DEF SpawnChild
<1> QED
  BY <1>1, <1>5, SameTimer, SameRows DEF CycleStep

\* A step that writes no node and schedules nothing.
LEMMA ReadCycle ==
  ASSUME UNCHANGED <<node, timer>>
  PROVE  CycleStep
BY SameTimer, SameRows DEF CycleStep

\* A step that writes one state and schedules nothing.
LEMMA WriteCycle ==
  ASSUME RunsOK, NEW r, NEW c, NEW k, NEW state, UpdateNodeRun(r, c, k, state),
         UNCHANGED timer
  PROVE  CycleStep
BY SameTimer, StateKept DEF CycleStep

\* Each step of a thread leaves the cycles alone or creates a run.
LEMMA ThreadCycle ==
  ASSUME TypeOK, NEW t \in Thread, Step(t)
  PROVE  CycleStep
<1>1. RunsOK
  BY DEF TypeOK
<1>2. CASE \/ FailRun(t) \/ TraverseEdge(t) \/ MaybeFinishRun(t)
           \/ ExecuteContext(t) \/ Bootstrap(t) \/ FailWithoutStart(t)
  <2>1. UNCHANGED <<node, timer>>
    BY <1>2 DEF FailRun, TraverseEdge, MaybeFinishRun, ExecuteContext,
                Bootstrap, FailWithoutStart, db
  <2> QED
    BY <2>1, ReadCycle
<1>3. CASE \/ SendCommand(t) \/ RefuseCommand(t) \/ MarkDispatched(t)
           \/ TopicPublished(t) \/ CancelCommand(t) \/ CancelRun(t)
  <2>1. UNCHANGED <<node, timer>>
    BY <1>3 DEF SendCommand, RefuseCommand, MarkDispatched, TopicPublished,
                CancelCommand, CancelRun
  <2> QED
    BY <2>1, ReadCycle
<1>4. CASE \/ ApplyResult(t) \/ ApplySshResult(t) \/ Notify(t)
           \/ ListWaiting(t) \/ WakeRun(t)
  <2>1. UNCHANGED <<db, timer>>
    BY <1>4 DEF ApplyResult, ApplySshResult, ApplyTo, Notify, ListWaiting, WakeRun
  <2>2. UNCHANGED <<node, timer>>
    BY <2>1 DEF db
  <2> QED
    BY <2>2, ReadCycle
<1>5. CASE \/ CompleteNode(t) \/ FailNode(t) \/ ExecuteWait(t)
           \/ ExecuteSubflow(t) \/ StoreOutput(t)
  <2>1. UNCHANGED timer
    BY <1>5 DEF CompleteNode, FailNode, ExecuteWait, ExecuteSubflow, StoreOutput
  <2>2. \E c, k, state : UpdateNodeRun(RunOf(t), c, k, state)
    BY <1>5 DEF CompleteNode, FailNode, ExecuteWait, ExecuteSubflow, StoreOutput
  <2> QED
    BY <1>1, <2>1, <2>2, WriteCycle
<1>6. CASE \/ ActivateNode(t) \/ SettleSubflow(t) \/ CancelNode(t)
           \/ ApplyDecision(t) \/ RecordDecision(t)
  <2>1. UNCHANGED timer
    BY <1>6 DEF ActivateNode, SettleSubflow, CancelNode, ApplyDecision,
                RecordDecision
  <2>2. \/ UNCHANGED node
        \/ \E c, k, state : UpdateNodeRun(RunOf(t), c, k, state)
    BY <1>6 DEF ActivateNode, SettleSubflow, CancelNode, ApplyDecision,
                RecordDecision
  <2> QED
    BY <1>1, <2>1, <2>2, WriteCycle, ReadCycle
<1>7. CASE \/ DispatchCapability(t) \/ DispatchSsh(t) \/ DispatchNavigation(t)
           \/ RetryNode(t)
  <2>1. UNCHANGED timer
    BY <1>7 DEF DispatchCapability, DispatchSsh, DispatchNavigation,
                CreateCommand, RetryNode
  <2>2. \E c, k, row : WriteRow(RunOf(t), c, k, row)
    BY <1>7 DEF DispatchCapability, DispatchSsh, DispatchNavigation,
                CreateCommand, RetryNode, WriteRow
  <2>3. RowsKept
    BY <1>1, <2>2, RowKept
  <2> QED
    BY <2>1, <2>3, SameTimer DEF CycleStep
<1>8. CASE ExecuteDelay(t)
  <2> DEFINE task == [kind |-> "delay", run |-> RunOf(t), c |-> Call(t).c,
                      k |-> Call(t).k]
  <2>1. /\ UpdateNodeRun(RunOf(t), Call(t).c, Call(t).k, "RUNNING")
        /\ timer' = BagAdd(timer, task) /\ task.kind # "cycle"
    BY <1>8 DEF ExecuteDelay
  <2> HIDE DEF task
  <2> QED
    BY <1>1, <2>1, StateKept, OtherTask DEF CycleStep
<1>9. CASE ScheduleRetry(t)
  <2> DEFINE task == [kind |-> "retry", run |-> RunOf(t), c |-> Call(t).c,
                      k |-> Call(t).k]
  <2>1. \/ UNCHANGED <<node, timer>>
        \/ /\ \E c, k, row : WriteRow(RunOf(t), c, k, row)
           /\ timer' = BagAdd(timer, task) /\ task.kind # "cycle"
    BY <1>9 DEF ScheduleRetry, WriteRow
  <2> HIDE DEF task
  <2>2. CASE UNCHANGED <<node, timer>>
    BY <2>2, ReadCycle
  <2>3. CASE /\ \E c, k, row : WriteRow(RunOf(t), c, k, row)
             /\ timer' = BagAdd(timer, task) /\ task.kind # "cycle"
    <3>1. RowsKept
      BY <1>1, <2>3, RowKept
    <3>2. CyclesKept
      BY <2>3, OtherTask
    <3> QED
      BY <3>1, <3>2 DEF CycleStep
  <2> QED
    BY <2>1, <2>2, <2>3
<1>10. CASE StartByEvent(t)
  <2>1. /\ UNCHANGED timer
        /\ \/ UNCHANGED node
           \/ \E r \in Run : \E parent : CreateWorkflowRun(r, parent)
    BY <1>10 DEF StartByEvent
  <2> QED
    BY <2>1, SameTimer, SameRows DEF CycleStep
<1> QED
  BY <1>2, <1>3, <1>4, <1>5, <1>6, <1>7, <1>8, <1>9, <1>10,
     FinishCycle, SpawnCycle DEF Step

\* A run gets an attempt when it is created, or from a task for a cycle that
\* its loop_count allows.
LEMMA CycleStepOK ==
  ASSUME TypeOK, TypeOK', CyclesOK, CycleStep
  PROVE  CyclesOK'
<1>1. \A task \in DOMAIN timer' :
        task.kind = "cycle" => task.c <= Graph[task.run].loop
  BY DEF CyclesOK, CycleStep, CyclesKept
<1>2. CASE RowsKept
  <2>1. \A r \in Run : Len(node'[r]) = Len(node[r])
    BY <1>2, KeptLengths DEF TypeOK
  <2> QED
    BY <1>1, <2>1 DEF CyclesOK, CyclesBounded
<1>3. ASSUME NEW r \in Run, NEW parent, CreateWorkflowRun(r, parent)
      PROVE  CyclesOK'
  <2>1. node' = [node EXCEPT ![r] = <<FreshNodes(r)>>] /\ DOMAIN node = Run
    BY <1>3 DEF CreateWorkflowRun, TypeOK, RunsOK
  <2>2. Graph[r].loop \in Nat \ {0}
    BY GraphAssumption
  <2>3. Len(<<FreshNodes(r)>>) <= Graph[r].loop
    BY <2>2
  <2>4. \A s \in Run : Len(node'[s]) <= Graph[s].loop
    BY <2>1, <2>3 DEF CyclesOK, CyclesBounded
  <2> QED
    BY <1>1, <2>4 DEF CyclesOK, CyclesBounded
<1> QED
  BY <1>2, <1>3 DEF CycleStep

\* A task adds the attempt it was scheduled for.
LEMMA FireCycles ==
  ASSUME TypeOK, TypeOK', CyclesOK, NEW task \in DOMAIN timer, Fire(task)
  PROVE  CyclesOK'
<1>1. FireTask(task)
  BY DEF Fire, FireDelay, FireRetry, FireCycle
<1>2. DOMAIN timer' \subseteq DOMAIN timer
  BY <1>1, TaskRemoved DEF FireTask
<1>3. CASE UNCHANGED node
  BY <1>2, <1>3 DEF CyclesOK, CyclesBounded
<1>4. CASE /\ task.kind = "cycle" /\ Len(node[task.run]) = task.c - 1
           /\ node' = [node EXCEPT ![task.run] = Append(@, FreshNodes(task.run))]
  <2> DEFINE r == task.run
  <2>1. r \in Run /\ task.c \in Nat
    BY TaskParts
  <2>2. task.c <= Graph[r].loop /\ Graph[r].loop \in Nat
    BY <1>4, <2>1, GraphAssumption DEF CyclesOK
  <2>3. Len(Append(node[r], FreshNodes(r))) = Len(node[r]) + 1
    BY <2>1, NextAttempt DEF TypeOK
  <2>4. Len(Append(node[r], FreshNodes(r))) <= Graph[r].loop
    BY <1>4, <2>1, <2>2, <2>3
  <2>5. DOMAIN node = Run
    BY DEF TypeOK, RunsOK
  <2>6. \A s \in Run : Len(node'[s]) <= Graph[s].loop
    BY <1>4, <2>1, <2>4, <2>5 DEF CyclesOK, CyclesBounded
  <2> QED
    BY <1>2, <2>6 DEF CyclesOK, CyclesBounded
<1>5. \/ UNCHANGED node
      \/ /\ task.kind = "cycle" /\ Len(node[task.run]) = task.c - 1
         /\ node' = [node EXCEPT ![task.run] = Append(@, FreshNodes(task.run))]
  BY DEF Fire, FireDelay, FireRetry, FireCycle
<1> QED
  BY <1>3, <1>4, <1>5

\* The bound on scheduled and created cycles is kept by every step.
LEMMA CyclesNext ==
  ASSUME TypeOK, TypeOK', CyclesOK, [Next]_vars
  PROVE  CyclesOK'
<1>1. CASE \E t \in Thread : Step(t)
  BY <1>1, ThreadCycle, CycleStepOK
<1>2. CASE \E task \in DOMAIN timer : Fire(task)
  BY <1>2, FireCycles
<1>3. CASE \E i \in DOMAIN cmd : Result(i) \/ CommandFeedback(i)
  <2>1. UNCHANGED <<node, timer>>
    BY <1>3 DEF Result, CommandResult, CommandFeedback
  <2> QED
    BY <2>1, ReadCycle, CycleStepOK
<1>4. CASE \E h \in Http : HttpRequest(h)
  <2>1. PICK h \in Http : HttpRequest(h)
    BY <1>4
  <2>2. UNCHANGED timer
    BY <2>1 DEF HttpRequest, StartManual, Cancel, DecideManual, InjectEvent, Request
  <2>3. \/ \E r \in Run : CreateWorkflowRun(r, NoParent)
        \/ UNCHANGED node
    BY <2>1, ExecutorAssumption
       DEF HttpRequest, StartManual, Cancel, DecideManual, InjectEvent, db
  <2> QED
    BY <2>2, <2>3, SameTimer, SameRows, CycleStepOK DEF CycleStep
<1>5. CASE Restart
  <2>1. UNCHANGED node /\ DOMAIN timer' = {}
    BY <1>5, NoTasks DEF Restart
  <2> QED
    BY <2>1 DEF CyclesOK, CyclesBounded
<1>6. CASE UNCHANGED vars
  <2>1. UNCHANGED <<node, timer>>
    BY <1>6 DEF vars
  <2> QED
    BY <2>1, ReadCycle, CycleStepOK
<1> QED
  BY <1>1, <1>2, <1>3, <1>4, <1>5, <1>6 DEF Next

\* No run gets more cycles than run_policy.loop_count, whatever handlers
\* interleave on stale copies, however often END is reached, and across
\* cancellations and restarts: finishOrRepeatWorkflow schedules no cycle past
\* the last one and createNextWorkflowCycle adds exactly the attempt it was
\* scheduled for.
THEOREM CyclesBoundedHolds == Spec => []CyclesBounded
<1>1. Init => CyclesOK
  <2>1. ASSUME Init, NEW r \in Run
        PROVE  Len(node[r]) <= Graph[r].loop
    <3>1. node[r] = <<>> /\ Graph[r].loop \in Nat
      BY <2>1, GraphAssumption DEF Init
    <3>2. Len(node[r]) = 0
      BY <3>1, EmptySeq
    <3> QED
      BY <3>1, <3>2
  <2>2. ASSUME Init
        PROVE  DOMAIN timer = {}
    BY <2>2, NoTasks DEF Init
  <2> QED
    BY <2>1, <2>2 DEF CyclesOK, CyclesBounded
<1>2. TypeOK /\ TypeOK' /\ CyclesOK /\ [Next]_vars => CyclesOK'
  BY CyclesNext
<1>3. CyclesOK => CyclesBounded
  BY DEF CyclesOK
<1> QED
  BY <1>1, <1>2, <1>3, Typing, PTL DEF Spec

-----------------------------------------------------------------------------
(* What the frames may hold.  Manual confirmations: no call in any frame, no *)
(* command, no timer task and no child run addresses one, so whatever is     *)
(* stale, none passes or fails it.  Ended runs: only a node with a robot or  *)
(* a station saves context_data, and no copy is of a cycle before the first. *)

\* The nodes that wait for an operator.
Confirms(r, k) == TypeOf(r, k) = "MANUAL_CONFIRM"

\* The calls that pass a node, fail it or lead to a call that does.
Unattended == {"complete", "fail", "context", "delay", "await", "subflow", "spawn",
               "link", "dispatch", "send", "hand", "published", "retry", "again",
               "settle"}
\* The calls that let a node wait, and those of nodes that do.
WaitOps == {"await", "subflow", "spawn", "link", "settle"}
\* Such a call does not address a confirmation, a node that does not wait is not
\* made to, and what saves the robot or the station of a node addresses a node
\* that has one.
CallSuits(r, call) ==
  /\ call.op \in Unattended => ~Confirms(r, call.k)
  /\ call.op \in WaitOps => Waits(r, call.k)
  /\ call.op = "context" => TypeOf(r, call.k) = "CONTEXT"
\* The copy of an injected event lists nodes that wait, and no copy is of a
\* cycle before the first.
CopySuits(snap) ==
  /\ \A n \in snap.waiting : Waits(n[1], n[3])
  /\ snap.cycle # 0

\* A list of such calls.
Fit(r, calls) ==
  calls \in Seq(FramesOf(calls)) /\ \A call \in FramesOf(calls) : CallSuits(r, call)
\* Frames, stacks, commands, timer tasks and runs with their parent links.
FrameSuits(f) == Fit(f.run, f.todo) /\ CopySuits(f.snap)
StackSuits(s) == \A f \in FramesOf(s) : FrameSuits(f)
StacksSuit == \A t \in Thread : StackSuits(stack[t])

CommandsSuit == \A i \in DOMAIN cmd : ~Confirms(cmd[i].run, cmd[i].k)
TasksSuit ==
  \A task \in DOMAIN timer : task.kind # "cycle" => ~Confirms(task.run, task.k)
RunsSuit ==
  \A r \in Run :
    /\ run[r].parent # NoParent => Waits(run[r].parent[1], run[r].parent[3])
    /\ run[r].cycle # 0

\* No other node waits for an event, which an injection or the end of a child
\* settles.
RowsSuit ==
  \A r \in Run : \A c \in DOMAIN node[r], k \in Key(r) :
    node[r][c][k].state = "WAITING_EVENT" => Waits(r, k)

\* A step that keeps it so, and that passes or fails none without a record.
RowsStay == RowsSuit' /\ Unrecorded' \subseteq Unrecorded

\* The invariant that DecisionRecorded and EndedRunStaysEnded need.
HandlersSuit == RowsSuit /\ StacksSuit /\ CommandsSuit /\ TasksSuit /\ RunsSuit

\* A sequence is one over the set of its elements.
LEMMA ElementsOf ==
  ASSUME NEW S, NEW s \in Seq(S)
  PROVE  /\ FramesOf(s) \subseteq S /\ s \in Seq(FramesOf(s))
         /\ \A T : (FramesOf(s) \subseteq T) => s \in Seq(T)
<1>1. DOMAIN s = 1..Len(s) /\ Len(s) \in Nat /\ s \in [1..Len(s) -> S]
  BY LenProperties
<1>2. s \in [1..Len(s) -> FramesOf(s)] /\ FramesOf(s) \subseteq S
  BY <1>1 DEF FramesOf
<1>3. s \in Seq(FramesOf(s))
  BY <1>1, <1>2, SeqDef
<1> QED
  BY <1>2, <1>3, SeqMonotonic

\* The rest of a sequence has no element that the sequence lacks.
LEMMA TailElements ==
  ASSUME NEW S, NEW s \in Seq(S), s # <<>>
  PROVE  Head(s) \in FramesOf(s) /\ FramesOf(Tail(s)) \subseteq FramesOf(s)
<1>1. s \in Seq(FramesOf(s))
  BY ElementsOf
<1>2. Head(s) \in FramesOf(s) /\ Tail(s) \in Seq(FramesOf(s))
  BY <1>1, HeadTailProperties
<1> QED
  BY <1>2, ElementsOf

\* A concatenation has the elements of its parts.
LEMMA ConcatElements ==
  ASSUME NEW s, NEW u, s \in Seq(FramesOf(s)), u \in Seq(FramesOf(u))
  PROVE  /\ s \o u \in Seq(FramesOf(s \o u))
         /\ FramesOf(s \o u) \subseteq FramesOf(s) \cup FramesOf(u)
<1> DEFINE S == FramesOf(s) \cup FramesOf(u)
<1>1. s \in Seq(S) /\ u \in Seq(S)
  BY SeqMonotonic
<1>2. s \o u \in Seq(S)
  BY <1>1, ConcatProperties
<1> QED
  BY <1>2, ElementsOf

\* The elements of short sequences.
LEMMA TupleElements ==
  ASSUME NEW a, NEW b, NEW c
  PROVE  /\ <<>> \in Seq(FramesOf(<<>>)) /\ FramesOf(<<>>) = {}
         /\ <<a>> \in Seq(FramesOf(<<a>>)) /\ FramesOf(<<a>>) = {a}
         /\ <<a, b>> \in Seq(FramesOf(<<a, b>>)) /\ FramesOf(<<a, b>>) = {a, b}
         /\ <<a, b, c>> \in Seq(FramesOf(<<a, b, c>>)) /\ FramesOf(<<a, b, c>>) = {a, b, c}
<1>1. FramesOf(<<>>) = {} /\ FramesOf(<<a>>) = {a} /\ FramesOf(<<a, b>>) = {a, b}
      /\ FramesOf(<<a, b, c>>) = {a, b, c}
  BY DEF FramesOf
<1>2. <<>> \in Seq({}) /\ <<a>> \in Seq({a}) /\ <<a, b>> \in Seq({a, b})
      /\ <<a, b, c>> \in Seq({a, b, c})
  OBVIOUS
<1> QED
  BY <1>1, <1>2

\* Fit lists of calls can be joined.
LEMMA FitTogether ==
  ASSUME NEW r, NEW s, NEW u, Fit(r, s), Fit(r, u)
  PROVE  Fit(r, s \o u)
BY ConcatElements DEF Fit

\* Lists of up to three calls are fit when each call is.
LEMMA FitCalls ==
  ASSUME NEW r
  PROVE  /\ Fit(r, <<>>)
         /\ \A a : CallSuits(r, a) => Fit(r, <<a>>)
         /\ \A a, b : CallSuits(r, a) /\ CallSuits(r, b) => Fit(r, <<a, b>>)
         /\ \A a, b, c : CallSuits(r, a) /\ CallSuits(r, b) /\ CallSuits(r, c) => Fit(r, <<a, b, c>>)
<1>1. Fit(r, <<>>)
  BY TupleElements DEF Fit
<1>2. ASSUME NEW a, CallSuits(r, a) PROVE Fit(r, <<a>>)
  <2>1. <<a>> \in Seq(FramesOf(<<a>>)) /\ FramesOf(<<a>>) = {a}
    BY TupleElements
  <2> QED
    BY <1>2, <2>1 DEF Fit
<1>3. ASSUME NEW a, NEW b, CallSuits(r, a), CallSuits(r, b) PROVE Fit(r, <<a, b>>)
  <2>1. <<a, b>> \in Seq(FramesOf(<<a, b>>)) /\ FramesOf(<<a, b>>) = {a, b}
    BY TupleElements
  <2> QED
    BY <1>3, <2>1 DEF Fit
<1>4. ASSUME NEW a, NEW b, NEW c, CallSuits(r, a), CallSuits(r, b), CallSuits(r, c)
      PROVE  Fit(r, <<a, b, c>>)
  <2>1. <<a, b, c>> \in Seq(FramesOf(<<a, b, c>>)) /\ FramesOf(<<a, b, c>>) = {a, b, c}
    <3>1. FramesOf(<<a, b, c>>) = {a, b, c}
      BY DEF FramesOf
    <3>2. <<a, b, c>> \in Seq({a, b, c})
      OBVIOUS
    <3> QED
      BY <3>1, <3>2
  <2> QED
    BY <1>4, <2>1 DEF Fit
<1> QED
  BY <1>1, <1>2, <1>3, <1>4

\* What it takes for a call of each form to be fit.
LEMMA FitOps ==
  ASSUME NEW r, NEW op, op # "context", op \notin WaitOps
  PROVE  /\ \A c, k : CallSuits(r, OnNode(op, c, k)) <=> (op \in Unattended => ~Confirms(r, k))
         /\ \A k : CallSuits(r, OnKey(op, k)) <=> (op \in Unattended => ~Confirms(r, k))
         /\ op \notin Unattended =>
              /\ CallSuits(r, Op(op)) /\ \A i : CallSuits(r, OnIndex(op, i))
              /\ \A ok : CallSuits(r, WithOutcome(Op(op), ok))
              /\ \A i, ok : CallSuits(r, WithOutcome(OnIndex(op, i), ok))
         /\ \A c, k, ok : CallSuits(r, WithOutcome(OnNode(op, c, k), ok))
                           <=> (op \in Unattended => ~Confirms(r, k))
         /\ \A c, k, i : CallSuits(r, [OnNode(op, c, k) EXCEPT !.i = i])
                           <=> (op \in Unattended => ~Confirms(r, k))
BY DEF CallSuits, OnNode, OnKey, Op, OnIndex, WithOutcome

\* The calls of a node that waits.
LEMMA FitWaits ==
  ASSUME NEW r, NEW k, Waits(r, k), NEW op \in WaitOps
  PROVE  /\ \A c : CallSuits(r, OnNode(op, c, k))
         /\ \A c, ok : CallSuits(r, WithOutcome(OnNode(op, c, k), ok))
BY DEF CallSuits, OnNode, Op, WithOutcome, Waits, WaitOps, Confirms

\* followEdges traverses edges, whoever their targets are.
LEMMA FitFollow ==
  ASSUME NEW r, NEW src, NEW kind, NEW event, NEW i
  PROVE  Fit(r, FollowFrom(r, src, kind, event, i)) /\ Fit(r, FollowEdges(r, src, kind, event))
<1>1. \A j : CallSuits(r, OnIndex("edge", j))
  BY FitOps DEF Unattended, WaitOps
<1>2. \A n : Fit(r, FollowFrom(r, src, kind, event, n))
  BY <1>1, FitCalls DEF FollowFrom
<1> QED
  BY <1>2 DEF FollowEdges

\* So does the usual end of a handler, followEdges and maybeFinishRun.
LEMMA FitFinish ==
  ASSUME NEW r, NEW src, NEW kind, NEW event
  PROVE  Fit(r, FollowEdges(r, src, kind, event) \o <<Op("maybeFinish")>>)
<1>1. Fit(r, <<Op("maybeFinish")>>)
  BY FitCalls, FitOps DEF Unattended, WaitOps
<1> QED
  BY <1>1, FitFollow, FitTogether

\* emitResultEvents follows edges and injects an event.
LEMMA FitEmit ==
  ASSUME NEW r, NEW k, NEW ok
  PROVE  Fit(r, EmitResult(r, k, ok))
<1>1. \A ev : CallSuits(r, [Op("inject") EXCEPT !.ev = ev])
  BY DEF CallSuits, Op, Unattended, WaitOps
<1>2. \A ev : Fit(r, <<[Op("inject") EXCEPT !.ev = ev]>>) /\ Fit(r, <<>>)
  BY <1>1, FitCalls
<1> QED
  BY <1>2, FitFollow, FitTogether DEF EmitResult

\* activateNode pauses a confirmation, and executes nothing else for it.
LEMMA FitExecute ==
  ASSUME NEW r, NEW c, NEW k
  PROVE  CallSuits(r, ExecuteNode(r, c, k))
<1>1. CASE Confirms(r, k)
  <2>1. ExecuteNode(r, c, k) = OnNode("pause", c, k)
    BY <1>1 DEF Confirms, ExecuteNode, Immediate
  <2> QED
    BY <2>1 DEF CallSuits, OnNode, Op, Unattended, WaitOps
<1>2. CASE ~Confirms(r, k)
  <2>1. ExecuteNode(r, c, k).k = k
    BY DEF ExecuteNode, OnNode, OnKey, Op
  <2>2. /\ ExecuteNode(r, c, k).op = "context" => TypeOf(r, k) = "CONTEXT"
        /\ ExecuteNode(r, c, k).op \in WaitOps => Waits(r, k)
    BY DEF ExecuteNode, OnNode, OnKey, Op, Immediate, WaitOps, Waits
  <2> QED
    BY <1>2, <2>1, <2>2 DEF CallSuits
<1> QED
  BY <1>1, <1>2

\* A frame is put on a stack unless it has nothing left to do.
LEMMA PushSuits ==
  ASSUME NEW f, Fit(f.run, f.todo), CopySuits(f.snap),
         NEW s, s \in Seq(FramesOf(s)), StackSuits(s)
  PROVE  Push(f, s) \in Seq(FramesOf(Push(f, s))) /\ StackSuits(Push(f, s))
<1>1. CASE f.todo = <<>>
  BY <1>1 DEF Push
<1>2. CASE f.todo # <<>>
  <2>1. <<f>> \in Seq(FramesOf(<<f>>)) /\ FramesOf(<<f>>) = {f}
    BY TupleElements
  <2>2. Push(f, s) = <<f>> \o s
    BY <1>2 DEF Push
  <2>3. FrameSuits(f)
    BY DEF FrameSuits
  <2>4. /\ Push(f, s) \in Seq(FramesOf(Push(f, s)))
        /\ FramesOf(Push(f, s)) \subseteq {f} \cup FramesOf(s)
    <3>1. /\ <<f>> \o s \in Seq(FramesOf(<<f>> \o s))
          /\ FramesOf(<<f>> \o s) \subseteq FramesOf(<<f>>) \cup FramesOf(s)
      BY <2>1, ConcatElements
    <3> QED
      BY <2>1, <2>2, <3>1
  <2> QED
    BY <2>3, <2>4 DEF StackSuits
<1> QED
  BY <1>1, <1>2

\* A step replaces the stack of its own thread.
LEMMA SetSuits ==
  ASSUME TypeOK, StacksSuit, NEW t \in Thread, NEW s, StackSuits(s),
         stack' = [stack EXCEPT ![t] = s]
  PROVE  StacksSuit'
BY DEF TypeOK, StacksOK, StacksSuit

\* What the running frame has to do, and what is below it, is fit.
LEMMA TopSuits ==
  ASSUME TypeOK, StacksSuit, NEW t \in Thread, ~Idle(t)
  PROVE  /\ CallSuits(RunOf(t), Call(t)) /\ Fit(RunOf(t), Tail(Top(t).todo))
         /\ CopySuits(Snap(t))
         /\ Tail(stack[t]) \in Seq(FramesOf(Tail(stack[t]))) /\ StackSuits(Tail(stack[t]))
         /\ Fit(Caller(t).run, Caller(t).todo) /\ CopySuits(Caller(t).snap)
         /\ Fit(RunOf(t), Top(t).todo)
<1>1. stack[t] \in Seq(Frames(Owner, Attempts)) /\ stack[t] # <<>>
  BY StackFrames DEF TypeOK, StacksOK, Idle
<1>2. /\ Top(t) \in FramesOf(stack[t]) /\ FramesOf(Tail(stack[t])) \subseteq FramesOf(stack[t])
      /\ Tail(stack[t]) \in Seq(FramesOf(Tail(stack[t])))
  <2>1. Tail(stack[t]) \in Seq(Frames(Owner, Attempts))
    BY <1>1, HeadTailProperties
  <2> QED
    BY <1>1, <2>1, TailElements, ElementsOf DEF Top
<1>3. FrameSuits(Top(t)) /\ StackSuits(Tail(stack[t]))
  BY <1>2 DEF StacksSuit, StackSuits
<1>4. Top(t) \in Frames(Owner, Attempts)
  BY <1>1, HeadTailProperties DEF Top
<1>5. Top(t).todo # <<>> /\ Top(t).todo \in Seq(FramesOf(Top(t).todo))
  BY <1>3, <1>4, FrameParts DEF FrameSuits, Fit
<1>6. /\ Call(t) \in FramesOf(Top(t).todo)
      /\ FramesOf(Tail(Top(t).todo)) \subseteq FramesOf(Top(t).todo)
      /\ Tail(Top(t).todo) \in Seq(FramesOf(Tail(Top(t).todo)))
  <2>1. Tail(Top(t).todo) \in Seq(FramesOf(Top(t).todo))
    BY <1>5, HeadTailProperties
  <2> QED
    BY <1>5, <2>1, TailElements, ElementsOf DEF Call
<1>7. CallSuits(RunOf(t), Call(t)) /\ Fit(RunOf(t), Tail(Top(t).todo)) /\ CopySuits(Snap(t))
  BY <1>3, <1>6 DEF FrameSuits, Fit, RunOf, Snap
<1>8. /\ Caller(t).run = RunOf(t) /\ Caller(t).todo = Tail(Top(t).todo)
      /\ Caller(t).snap = Snap(t)
  BY DEF Caller, Frame
<1> QED
  BY <1>2, <1>3, <1>7, <1>8 DEF FrameSuits, RunOf

\* A handler that returns leaves the calls it names.
LEMMA ReturnSuits ==
  ASSUME TypeOK, StacksSuit, NEW t \in Thread, ~Idle(t),
         NEW snap, CopySuits(snap), NEW calls, Fit(RunOf(t), calls), Return(t, snap, calls)
  PROVE  StacksSuit'
<1> DEFINE f == Frame(RunOf(t), snap, calls \o Tail(Top(t).todo))
<1>1. f.run = RunOf(t) /\ f.snap = snap /\ f.todo = calls \o Tail(Top(t).todo)
  BY DEF Frame
<1>2. Fit(f.run, f.todo)
  BY <1>1, TopSuits, FitTogether
<1>3. stack' = [stack EXCEPT ![t] = Push(f, Tail(stack[t]))]
  BY DEF Return, SetStack
<1> HIDE DEF f
<1>4. StackSuits(Push(f, Tail(stack[t])))
  BY <1>1, <1>2, TopSuits, PushSuits
<1> QED
  BY <1>3, <1>4, SetSuits

\* A handler that returns without doing anything leaves the calls there were.
LEMMA SkipSuits ==
  ASSUME TypeOK, StacksSuit, NEW t \in Thread, ~Idle(t), Skip(t)
  PROVE  StacksSuit'
<1>1. Return(t, Snap(t), <<>>) /\ Fit(RunOf(t), <<>>)
  BY FitCalls DEF Skip
<1> QED
  BY <1>1, TopSuits, ReturnSuits

\* A handler that works on a frame of its own: an injection, a notification.
LEMMA EnterSuits ==
  ASSUME TypeOK, StacksSuit, NEW t \in Thread, ~Idle(t),
         NEW f, FrameSuits(f), Enter(t, f)
  PROVE  StacksSuit'
<1>1. stack' = [stack EXCEPT ![t] = Push(f, Push(Caller(t), Tail(stack[t])))]
  BY DEF Enter, SetStack
<1>2. LET s == Push(Caller(t), Tail(stack[t])) IN s \in Seq(FramesOf(s)) /\ StackSuits(s)
  BY TopSuits, PushSuits
<1>3. StackSuits(Push(f, Push(Caller(t), Tail(stack[t]))))
  BY <1>2, PushSuits DEF FrameSuits
<1> QED
  BY <1>1, <1>3, SetSuits

\* A thread that was idle takes up a frame.
LEMMA StartSuits ==
  ASSUME TypeOK, StacksSuit, NEW t \in Thread, NEW f, FrameSuits(f),
         stack' = [stack EXCEPT ![t] = <<f>>]
  PROVE  StacksSuit'
<1>1. FramesOf(<<f>>) = {f}
  BY DEF FramesOf
<1>2. StackSuits(<<f>>)
  BY <1>1 DEF StackSuits
<1> QED
  BY <1>2, SetSuits

\* A copy loaded now lists no waiting nodes and is of the cycle of its run.
LEMMA FreshFrame ==
  ASSUME RunsSuit, NEW r \in Run, NEW calls, Fit(r, calls)
  PROVE  FrameSuits(Frame(r, Load(r), calls))
BY DEF FrameSuits, Frame, Load, CopySuits, RunsSuit

\* A copy that is written waits for the same, in the same cycle.
LEMMA CopyStays ==
  ASSUME TypeOK, StacksSuit, NEW t \in Thread, ~Idle(t), NEW c, NEW k, NEW state, NEW x
  PROVE  /\ CopySuits(SetNode(Snap(t), c, k, state))
         /\ CopySuits(WithState(Snap(t), state)) /\ CopySuits(WithNext(Snap(t)))
         /\ CopySuits(WithMark(Snap(t), x)) /\ CopySuits(WithCommands(Snap(t), x))
         /\ CopySuits(WithTries(Snap(t), c, k, x))
<1>1. CopySuits(Snap(t)) /\ "waiting" \in DOMAIN Snap(t) /\ "cycle" \in DOMAIN Snap(t)
  BY TopSuits, CallParts DEF Snapshot
<1> QED
  BY <1>1 DEF CopySuits, SetNode, WithState, WithNext, WithMark, WithCommands, WithTries

-----------------------------------------------------------------------------
\* What is unrecorded, row by row.
LEMMA UnrecordedRows ==
  /\ \A n \in Unrecorded : n[1] \in Run /\ n[2] \in DOMAIN node[n[1]] /\ n[3] \in Key(n[1])
                          /\ n = <<n[1], n[2], n[3]>>
  /\ \A r \in Run : \A c \in DOMAIN node[r], k \in Key(r) :
       <<r, c, k>> \in Unrecorded <=>
         /\ Confirms(r, k) /\ node[r][c][k].state \in {"SUCCEEDED", "FAILED"}
         /\ <<r, c, k>> \notin Recorded
BY DEF Unrecorded, Existing, StateOf, Confirms

\* It is enough to look at the confirmations one by one.
LEMMA RowsStayEach ==
  ASSUME RowsSuit, Recorded \subseteq Recorded',
         \A r \in Run : \A c \in DOMAIN node'[r], k \in Key(r) :
           \/ c \in DOMAIN node[r] /\ node'[r][c][k].state = node[r][c][k].state
           \/ /\ node'[r][c][k].state = "WAITING_EVENT" => Waits(r, k)
              /\ Confirms(r, k) /\ node'[r][c][k].state \in {"SUCCEEDED", "FAILED"}
                   => <<r, c, k>> \in Recorded'
  PROVE  RowsStay
<1>1. RowsSuit'
  BY DEF RowsSuit
<1>2. ASSUME NEW n \in Unrecorded' PROVE n \in Unrecorded
  <2>1. /\ n[1] \in Run /\ n[2] \in DOMAIN node'[n[1]] /\ n[3] \in Key(n[1])
        /\ TypeOf(n[1], n[3]) = "MANUAL_CONFIRM"
        /\ node'[n[1]][n[2]][n[3]].state \in {"SUCCEEDED", "FAILED"}
        /\ n \notin Recorded' /\ n = <<n[1], n[2], n[3]>>
    BY <1>2 DEF Unrecorded, Existing, StateOf
  <2>2. /\ n[2] \in DOMAIN node[n[1]]
        /\ node[n[1]][n[2]][n[3]].state \in {"SUCCEEDED", "FAILED"}
    BY <2>1 DEF Confirms
  <2> QED
    BY <2>1, <2>2, UnrecordedRows DEF Confirms
<1> QED
  BY <1>1, <1>2 DEF RowsStay

\* A row is written: a confirmation is passed or failed with a decision only.
LEMMA WriteSuits ==
  ASSUME TypeOK, RowsSuit, NEW r, NEW c, NEW k, NEW row, WriteRow(r, c, k, row),
         Recorded \subseteq Recorded',
         row.state = "WAITING_EVENT" => Waits(r, k),
         Confirms(r, k) /\ row.state \in {"SUCCEEDED", "FAILED"} => <<r, c, k>> \in Recorded'
  PROVE  RowsStay
<1>1. RowsKept /\ DOMAIN node = Run /\ \A s \in Run : node[s] \in NodeRows(s)
  BY RowKept DEF TypeOK, RunsOK
<1>2. ASSUME NEW s \in Run, NEW d \in DOMAIN node'[s], NEW j \in Key(s)
      PROVE  \/ d \in DOMAIN node[s] /\ node'[s][d][j].state = node[s][d][j].state
             \/ /\ node'[s][d][j].state = "WAITING_EVENT" => Waits(s, j)
                /\ Confirms(s, j) /\ node'[s][d][j].state \in {"SUCCEEDED", "FAILED"}
                     => <<s, d, j>> \in Recorded'
  <2>1. d \in DOMAIN node[s]
    BY <1>1, <1>2 DEF RowsKept
  <2>2. node[s][d] \in [Key(s) -> NodeRow]
    <3>1. DOMAIN node[s] = 1..Len(node[s]) /\ node[s] \in [1..Len(node[s]) -> [Key(s) -> NodeRow]]
      BY <1>1, LenProperties DEF NodeRows
    <3> QED
      BY <2>1, <3>1
  <2>3. \/ s = r /\ d = c /\ j = k /\ node'[s][d][j] = row
        \/ node'[s][d][j] = node[s][d][j]
    BY <1>1, <1>2, <2>1, <2>2 DEF WriteRow
  <2> QED
    BY <1>2, <2>1, <2>3
<1> QED
  BY <1>2, RowsStayEach

\* updateNodeRun on another node, or with a decision.
LEMMA UpdateSuits ==
  ASSUME TypeOK, RowsSuit, NEW r, NEW c, NEW k, NEW state, UpdateNodeRun(r, c, k, state),
         Recorded \subseteq Recorded',
         r \in Run, c \in DOMAIN node[r], k \in Key(r),
         state = "WAITING_EVENT" => Waits(r, k),
         Confirms(r, k) /\ state \in {"SUCCEEDED", "FAILED"} => <<r, c, k>> \in Recorded'
  PROVE  RowsStay
<1> DEFINE row == [node[r][c][k] EXCEPT !.state = state]
<1>1. WriteRow(r, c, k, row)
  BY DEF UpdateNodeRun, WriteRow
<1>2. node[r][c][k] \in NodeRow
  <2>1. node[r] \in Seq([Key(r) -> NodeRow])
    BY DEF TypeOK, RunsOK, NodeRows
  <2>2. DOMAIN node[r] = 1..Len(node[r]) /\ node[r] \in [1..Len(node[r]) -> [Key(r) -> NodeRow]]
    BY <2>1, LenProperties
  <2> QED
    BY <2>2
<1>3. row.state = state
  BY <1>2 DEF NodeRow
<1> HIDE DEF row
<1> QED
  BY <1>1, <1>3, WriteSuits

\* Rows that are not written.
LEMMA SameSuits ==
  ASSUME RowsSuit, UNCHANGED node, Recorded \subseteq Recorded'
  PROVE  RowsStay
BY RowsStayEach

\* The rows of a new run are pending.
LEMMA CreateSuits ==
  ASSUME TypeOK, RowsSuit, NEW r \in Run, NEW parent, CreateWorkflowRun(r, parent),
         Recorded \subseteq Recorded'
  PROVE  RowsStay
<1>1. node' = [node EXCEPT ![r] = <<FreshNodes(r)>>] /\ DOMAIN node = Run
  BY DEF CreateWorkflowRun, TypeOK, RunsOK
<1>2. \A s \in Run : s # r => node'[s] = node[s]
  BY <1>1
<1>3. node'[r] = <<FreshNodes(r)>>
  BY <1>1
<1>4. \A c \in DOMAIN node'[r] : \A k \in Key(r) : node'[r][c][k].state = "PENDING"
  BY <1>3 DEF FreshNodes
<1> QED
  BY <1>2, <1>4, RowsStayEach

-----------------------------------------------------------------------------
(* What is recorded or about to be stays so, unless the process dies. *)

\* Only one thread's frames change, and it was not about to record.
LEMMA RecordsKept ==
  ASSUME TypeOK, NEW t \in Thread, Recording(t) = {}, decided \subseteq decided',
         NEW s, stack' = [stack EXCEPT ![t] = s]
  PROVE  Recorded \subseteq Recorded'
<1>1. ASSUME NEW u \in Thread, u # t PROVE Recording(u)' = Recording(u)
  <2>1. stack'[u] = stack[u]
    BY <1>1 DEF TypeOK, StacksOK
  <2> QED
    BY <2>1 DEF Recording, Calls, Idle, Call, Top, RunOf
<1> QED
  BY <1>1 DEF Recorded

\* The step of a thread replaces its own frames.
LEMMA OwnStack ==
  ASSUME TypeOK, NEW t \in Thread, Step(t)
  PROVE  \E s : stack' = [stack EXCEPT ![t] = s]
<1>0. /\ Skip(t) => \E s : stack' = [stack EXCEPT ![t] = s]
      /\ \A snap, calls : Return(t, snap, calls) => \E s : stack' = [stack EXCEPT ![t] = s]
      /\ \A f : Enter(t, f) => \E s : stack' = [stack EXCEPT ![t] = s]
      /\ \A s : SetStack(t, s) => \E u : stack' = [stack EXCEPT ![t] = u]
      /\ Throw(t) => \E s : stack' = [stack EXCEPT ![t] = s]
      /\ \A calls : ApplyTo(t, calls) => \E s : stack' = [stack EXCEPT ![t] = s]
      /\ \A tries : CreateCommand(t, tries) => \E s : stack' = [stack EXCEPT ![t] = s]
  BY DEF Skip, Return, Enter, Throw, SetStack, ApplyTo, CreateCommand
<1>1. CASE CompleteNode(t) \/ FailNode(t) \/ FailRun(t) \/ TraverseEdge(t)
  BY <1>0, <1>1 DEF CompleteNode, FailNode, FailRun, TraverseEdge
<1>2. CASE ActivateNode(t)
  BY <1>0, <1>2 DEF ActivateNode
<1>3. CASE FinishOrRepeat(t)
  BY <1>0, <1>3 DEF FinishOrRepeat
<1>4. CASE MaybeFinishRun(t)
  BY <1>0, <1>4 DEF MaybeFinishRun
<1>5. CASE ExecuteDelay(t)
  BY <1>0, <1>5 DEF ExecuteDelay
<1>6. CASE ExecuteWait(t) \/ ExecuteContext(t) \/ ExecuteSubflow(t) \/ SpawnChild(t)
  BY <1>0, <1>6 DEF ExecuteWait, ExecuteContext, ExecuteSubflow, SpawnChild
<1>7. CASE StoreOutput(t) \/ Bootstrap(t) \/ FailWithoutStart(t) \/ DispatchCapability(t)
  BY <1>0, <1>7 DEF StoreOutput, Bootstrap, FailWithoutStart, DispatchCapability
<1>8. CASE DispatchSsh(t) \/ DispatchNavigation(t) \/ SendCommand(t) \/ RefuseCommand(t)
  BY <1>0, <1>8 DEF DispatchSsh, DispatchNavigation, SendCommand, RefuseCommand
<1>9. CASE MarkDispatched(t) \/ TopicPublished(t) \/ ApplyResult(t) \/ ApplySshResult(t)
  BY <1>0, <1>9 DEF MarkDispatched, TopicPublished, ApplyResult, ApplySshResult
<1>10. CASE ScheduleRetry(t) \/ RetryNode(t) \/ Notify(t) \/ SettleSubflow(t)
  BY <1>0, <1>10 DEF ScheduleRetry, RetryNode, Notify, SettleSubflow
<1>11. CASE CancelCommand(t) \/ CancelNode(t) \/ CancelRun(t) \/ ApplyDecision(t)
  BY <1>0, <1>11 DEF CancelCommand, CancelNode, CancelRun, ApplyDecision
<1>12. CASE RecordDecision(t) \/ ListWaiting(t) \/ WakeRun(t) \/ StartByEvent(t)
  BY <1>0, <1>12 DEF RecordDecision, ListWaiting, WakeRun, StartByEvent
<1> QED
  BY <1>1, <1>2, <1>3, <1>4, <1>5, <1>6, <1>7, <1>8, <1>9, <1>10, <1>11, <1>12 DEF Step


\* A thread that does not record a decision takes no record away.
LEMMA StepRecords ==
  ASSUME TypeOK, NEW t \in Thread, Step(t)
  PROVE  Recorded \subseteq Recorded'
<1>1. PICK s : stack' = [stack EXCEPT ![t] = s]
  BY OwnStack
<1>2. CASE RecordDecision(t)
  <2>1. decided' = decided \cup Recording(t)
    BY <1>2 DEF RecordDecision, Recording
  <2>2. ASSUME NEW u \in Thread, u # t PROVE Recording(u)' = Recording(u)
    <3>1. stack'[u] = stack[u]
      BY <1>1, <2>2 DEF TypeOK, StacksOK
    <3> QED
      BY <3>1 DEF Recording, Calls, Idle, Call, Top, RunOf
  <2> QED
    BY <2>1, <2>2 DEF Recorded
<1>3. ASSUME NEW op, op # "record", Calls(t, op), UNCHANGED decided
      PROVE  Recorded \subseteq Recorded'
  <2>1. Recording(t) = {}
    BY <1>3 DEF Recording, Calls
  <2> QED
    BY <1>1, <1>3, <2>1, RecordsKept
<1>4. CASE CompleteNode(t) \/ FailNode(t) \/ FailRun(t)
  BY <1>3, <1>4 DEF CompleteNode, FailNode, FailRun
<1>5. CASE TraverseEdge(t) \/ ActivateNode(t) \/ FinishOrRepeat(t)
  BY <1>3, <1>5 DEF TraverseEdge, ActivateNode, FinishOrRepeat
<1>6. CASE MaybeFinishRun(t) \/ ExecuteDelay(t) \/ ExecuteWait(t)
  BY <1>3, <1>6 DEF MaybeFinishRun, ExecuteDelay, ExecuteWait
<1>7. CASE ExecuteContext(t) \/ ExecuteSubflow(t) \/ SpawnChild(t)
  BY <1>3, <1>7 DEF ExecuteContext, ExecuteSubflow, SpawnChild
<1>8. CASE StoreOutput(t) \/ Bootstrap(t) \/ FailWithoutStart(t)
  BY <1>3, <1>8 DEF StoreOutput, Bootstrap, FailWithoutStart, db
<1>9. CASE DispatchCapability(t) \/ DispatchSsh(t) \/ DispatchNavigation(t)
  BY <1>3, <1>9 DEF DispatchCapability, DispatchSsh, DispatchNavigation, Dispatches, CreateCommand
<1>10. CASE SendCommand(t) \/ RefuseCommand(t) \/ MarkDispatched(t)
  BY <1>3, <1>10 DEF SendCommand, RefuseCommand, MarkDispatched
<1>11. CASE TopicPublished(t) \/ ApplyResult(t) \/ ApplySshResult(t)
  BY <1>3, <1>11 DEF TopicPublished, ApplyResult, ApplySshResult, Applies, ApplyTo, db
<1>12. CASE ScheduleRetry(t) \/ RetryNode(t) \/ Notify(t)
  BY <1>3, <1>12 DEF ScheduleRetry, RetryNode, Notify, db
<1>13. CASE SettleSubflow(t) \/ CancelCommand(t) \/ CancelNode(t)
  BY <1>3, <1>13 DEF SettleSubflow, CancelCommand, CancelNode
<1>14. CASE CancelRun(t) \/ ApplyDecision(t) \/ ListWaiting(t)
  BY <1>3, <1>14 DEF CancelRun, ApplyDecision, ListWaiting, db
<1>15. CASE WakeRun(t) \/ StartByEvent(t)
  BY <1>3, <1>15 DEF WakeRun, StartByEvent, db
<1> QED
  BY <1>2, <1>4, <1>5, <1>6, <1>7, <1>8, <1>9, <1>10, <1>11, <1>12, <1>13, <1>14, <1>15 DEF Step


\* decideManualConfirmation goes on to record what it has written.
LEMMA TellsToRecord ==
  ASSUME TypeOK, NEW t \in Thread, ~Idle(t), NEW snap, NEW c, NEW k, NEW ok,
         Return(t, snap, <<WithOutcome(OnNode("record", c, k), ok)>>)
  PROVE  <<RunOf(t), c, k>> \in Recorded'
<1> DEFINE call == WithOutcome(OnNode("record", c, k), ok)
           todo == <<call>> \o Tail(Top(t).todo)
           f == Frame(RunOf(t), snap, todo)
<1>1. /\ Tail(Top(t).todo) \in Seq(CallsOn(RunOf(t), Len(Snap(t).node), Owner, Attempts))
      /\ Tail(stack[t]) \in Seq(Frames(Owner, Attempts))
  BY TopParts DEF TypeOK
<1>2. call.op = "record" /\ call.c = c /\ call.k = k
  BY DEF WithOutcome, OnNode, Op
<1>3. stack'[t] = Push(f, Tail(stack[t]))
  BY DEF Return, SetStack, TypeOK, StacksOK
<1> HIDE DEF call
<1>5. Head(todo) = call /\ todo # <<>>
  BY <1>1
<1>4. f.run = RunOf(t) /\ f.todo = todo
  BY DEF Frame
<1> HIDE DEF todo, f
<1>6. stack'[t] = <<f>> \o Tail(stack[t])
  BY <1>3, <1>4, <1>5 DEF Push
<1>7. stack'[t] # <<>> /\ Head(stack'[t]) = f
  BY <1>1, <1>6
<1>8. <<RunOf(t), c, k>> \in Recording(t)'
  BY <1>2, <1>4, <1>5, <1>7 DEF Recording, Calls, Idle, Call, Top, RunOf
<1> QED
  BY <1>8 DEF Recorded

\* No step of a thread passes or fails a confirmation without recording a
\* decision: only decideManualConfirmation addresses one.
LEMMA StepRows ==
  ASSUME TypeOK, HandlersSuit, NEW t \in Thread, Step(t)
  PROVE  RowsStay
<1> USE DEF HandlersSuit
<1>r. Recorded \subseteq Recorded'
  BY StepRecords
<1>0. RowsSuit /\ \A r \in Run : DOMAIN node[r] = 1..Len(node[r])
  <2>1. \A r \in Run : node[r] \in Seq([Key(r) -> NodeRow])
    BY DEF TypeOK, RunsOK, NodeRows
  <2> QED
    BY <2>1, LenProperties
<1>1. CASE \/ FailRun(t) \/ TraverseEdge(t) \/ MaybeFinishRun(t)
           \/ ExecuteContext(t) \/ Bootstrap(t) \/ FailWithoutStart(t)
  <2>1. UNCHANGED node
    BY <1>1 DEF FailRun, TraverseEdge, MaybeFinishRun, ExecuteContext, Bootstrap,
                FailWithoutStart, db
  <2> QED
    BY <1>r, <2>1, SameSuits
<1>14. CASE FinishOrRepeat(t)
  <2>1. UNCHANGED node
    BY <1>14 DEF FinishOrRepeat
  <2> QED
    BY <1>r, <2>1, SameSuits
<1>2. CASE \/ SendCommand(t) \/ RefuseCommand(t) \/ MarkDispatched(t)
           \/ TopicPublished(t) \/ CancelCommand(t) \/ CancelRun(t)
  <2>1. UNCHANGED node
    BY <1>2 DEF SendCommand, RefuseCommand, MarkDispatched, TopicPublished,
                CancelCommand, CancelRun
  <2> QED
    BY <1>r, <2>1, SameSuits
<1>3. CASE \/ ApplyResult(t) \/ ApplySshResult(t) \/ Notify(t)
           \/ ListWaiting(t) \/ WakeRun(t)
  <2>1. UNCHANGED db
    BY <1>3 DEF ApplyResult, ApplySshResult, ApplyTo, Notify, ListWaiting, WakeRun
  <2>2. UNCHANGED node
    BY <2>1 DEF db
  <2> QED
    BY <1>r, <2>2, SameSuits
<1>4. ASSUME Calls(t, "complete") \/ Calls(t, "fail")
             \/ Calls(t, "activate"), NEW state,
             UpdateNodeRun(RunOf(t), Newest(Snap(t)), Call(t).k, state),
             state # "WAITING_EVENT", Calls(t, "activate") => state = "RUNNING"
      PROVE  RowsStay
  <2>1. /\ ~Idle(t) /\ Call(t).op \in {"complete", "fail", "activate"}
        /\ Call(t).op # "activate" => ~Confirms(RunOf(t), Call(t).k)
    BY <1>4, TopSuits DEF Calls, CallSuits, Unattended
  <2>2. /\ RunOf(t) \in Run /\ Newest(Snap(t)) \in DOMAIN node[RunOf(t)]
        /\ Call(t).k \in Key(RunOf(t))
    BY <1>0, <2>1, CallParts DEF KeyOps, FreeOps
  <2>3. Call(t).op = "activate" => state = "RUNNING"
    BY <1>4, <2>1 DEF Calls
  <2> QED
    BY <1>r, <1>4, <2>1, <2>2, <2>3, UpdateSuits
<1>5. CASE CompleteNode(t) \/ FailNode(t)
  <2>1. /\ Calls(t, "complete") \/ Calls(t, "fail")
        /\ \E state : /\ UpdateNodeRun(RunOf(t), Newest(Snap(t)), Call(t).k, state)
                      /\ state # "WAITING_EVENT"
    BY <1>5 DEF CompleteNode, FailNode
  <2>2. ~Calls(t, "activate")
    BY <1>5 DEF CompleteNode, FailNode, Calls
  <2> QED
    BY <1>4, <2>1, <2>2
<1>6. CASE ActivateNode(t)
  <2>1. /\ Calls(t, "activate")
        /\ UNCHANGED node \/ UpdateNodeRun(RunOf(t), Newest(Snap(t)), Call(t).k, "RUNNING")
    BY <1>6 DEF ActivateNode
  <2> QED
    BY <1>r, <1>4, <2>1, SameSuits
<1>7. ASSUME NEW op \in RowOps, Calls(t, op)
      PROVE  /\ ~Idle(t) /\ RunOf(t) \in Run /\ Call(t).c \in DOMAIN node[RunOf(t)]
             /\ Call(t).k \in Key(RunOf(t))
             /\ op \in Unattended => ~Confirms(RunOf(t), Call(t).k)
             /\ op \in WaitOps => Waits(RunOf(t), Call(t).k)
  BY <1>0, <1>7, CallParts, TopSuits DEF Calls, CallSuits
<1>8. CASE ExecuteDelay(t) \/ ExecuteWait(t) \/ ExecuteSubflow(t) \/ StoreOutput(t)
  <2>1. \E op \in RowOps : \E state :
          /\ Calls(t, op)
          /\ UpdateNodeRun(RunOf(t), Call(t).c, Call(t).k, state)
          /\ state \notin {"SUCCEEDED", "FAILED"}
          /\ state = "WAITING_EVENT" => op \in WaitOps
    <3>1. CASE ExecuteDelay(t)
      BY <3>1 DEF ExecuteDelay, RowOps
    <3>2. CASE ExecuteSubflow(t)
      BY <3>2 DEF ExecuteSubflow, RowOps, WaitOps
    <3>3. CASE ExecuteWait(t)
      <4>1. \E op \in {"pause", "await"} :
              /\ Calls(t, op)
              /\ UpdateNodeRun(RunOf(t), Call(t).c, Call(t).k,
                               IF op = "pause" THEN "PAUSED" ELSE "WAITING_EVENT")
        BY <3>3 DEF ExecuteWait, Calls
      <4> QED
        BY <4>1 DEF RowOps, WaitOps
    <3>4. CASE StoreOutput(t)
      <4>1. \E op \in {"park", "link", "stamp"} :
              /\ Calls(t, op)
              /\ UpdateNodeRun(RunOf(t), Call(t).c, Call(t).k,
                               CASE op = "park" -> "PENDING"
                                 [] op = "link" -> "WAITING_EVENT"
                                 [] op = "stamp" -> "RUNNING")
        BY <3>4 DEF StoreOutput, Calls
      <4> QED
        BY <4>1 DEF RowOps, WaitOps
    <3> QED
      BY <1>8, <3>1, <3>2, <3>3, <3>4
  <2> QED
    BY <1>r, <1>7, <2>1, UpdateSuits
<1>9. CASE \/ DispatchCapability(t) \/ DispatchSsh(t) \/ DispatchNavigation(t)
           \/ ScheduleRetry(t) \/ RetryNode(t)
  <2>1. /\ \/ UNCHANGED node
           \/ \E r, c, k, tries : WriteRow(r, c, k, [state |-> "RUNNING", tries |-> tries])
    <3>1. CASE DispatchCapability(t) \/ DispatchSsh(t) \/ DispatchNavigation(t)
      <4>1. PICK tries : CreateCommand(t, tries)
        BY <3>1 DEF DispatchCapability, DispatchSsh, DispatchNavigation
      <4>2. /\ UNCHANGED decided
            /\ WriteRow(RunOf(t), Call(t).c, Call(t).k, [state |-> "RUNNING", tries |-> tries])
        BY <4>1 DEF CreateCommand, WriteRow
      <4> QED
        BY <4>2
    <3>2. CASE ScheduleRetry(t)
      <4>1. UNCHANGED decided
        BY <3>2 DEF ScheduleRetry
      <4>2. \/ UNCHANGED node
            \/ WriteRow(RunOf(t), Call(t).c, Call(t).k,
                 [state |-> "RUNNING", tries |-> Snap(t).node[Call(t).c][Call(t).k].tries])
        BY <3>2 DEF ScheduleRetry, WriteRow
      <4> QED
        BY <4>1, <4>2
    <3>3. CASE RetryNode(t)
      BY <3>3 DEF RetryNode, WriteRow
    <3> QED
      BY <1>9, <3>1, <3>2, <3>3
  <2>2. \A tries : [state |-> "RUNNING", tries |-> tries].state = "RUNNING"
    OBVIOUS
  <2> QED
    BY <1>r, <2>1, <2>2, WriteSuits, SameSuits
<1>10. CASE SettleSubflow(t)
  <2>1. /\ Calls(t, "settle")
        /\ \/ UNCHANGED node
           \/ \E state : /\ UpdateNodeRun(RunOf(t), Call(t).c, Call(t).k, state)
                         /\ state # "WAITING_EVENT"
    BY <1>10 DEF SettleSubflow
  <2> QED
    BY <1>r, <1>7, <2>1, UpdateSuits, SameSuits DEF RowOps, Unattended
<1>11. CASE ApplyDecision(t)
  <2>1. /\ Calls(t, "decide")
        /\ \/ UNCHANGED node
           \/ \E snap, state, ok :
                /\ Return(t, snap, <<WithOutcome(OnNode("record", Call(t).c, Call(t).k), ok)>>)
                /\ UpdateNodeRun(RunOf(t), Call(t).c, Call(t).k, state)
                /\ state \in {"SUCCEEDED", "FAILED"}
    BY <1>11 DEF ApplyDecision
  <2>2. CASE UNCHANGED node
    BY <1>0, <1>r, <2>2, SameSuits
  <2>3. CASE \E snap, state, ok :
                /\ Return(t, snap, <<WithOutcome(OnNode("record", Call(t).c, Call(t).k), ok)>>)
                /\ UpdateNodeRun(RunOf(t), Call(t).c, Call(t).k, state)
                /\ state \in {"SUCCEEDED", "FAILED"}
    <3>1. PICK snap, state, ok :
                /\ Return(t, snap, <<WithOutcome(OnNode("record", Call(t).c, Call(t).k), ok)>>)
                /\ UpdateNodeRun(RunOf(t), Call(t).c, Call(t).k, state)
                /\ state \in {"SUCCEEDED", "FAILED"}
      BY <2>3
    <3>2. <<RunOf(t), Call(t).c, Call(t).k>> \in Recorded'
      BY <2>1, <3>1, TellsToRecord DEF Calls
    <3>3. /\ RunOf(t) \in Run /\ Call(t).c \in DOMAIN node[RunOf(t)]
          /\ Call(t).k \in Key(RunOf(t)) /\ state # "WAITING_EVENT"
      BY <1>7, <2>1, <3>1 DEF RowOps
    <3> QED
      BY <1>0, <1>r, <3>1, <3>2, <3>3, UpdateSuits
  <2> QED
    BY <2>1, <2>2, <2>3
<1>15. CASE RecordDecision(t)
  <2>1. UNCHANGED node
    BY <1>15 DEF RecordDecision
  <2> QED
    BY <1>0, <1>r, <2>1, SameSuits
<1>12. CASE CancelNode(t)
  <2>1. /\ ~Idle(t) /\ Call(t).op = "cancelNodes"
        /\ \/ UNCHANGED node
           \/ \E n \in OpenNodes(Snap(t)) : UpdateNodeRun(RunOf(t), n[1], n[2], "CANCELLED")
    BY <1>12 DEF CancelNode, Calls
  <2>2. ASSUME NEW n \in OpenNodes(Snap(t))
        PROVE  /\ RunOf(t) \in Run /\ n[1] \in DOMAIN node[RunOf(t)] /\ n[2] \in Key(RunOf(t))
    <3>1. /\ RunOf(t) \in Run /\ Snap(t) \in Snapshot(RunOf(t), Owner, Attempts)
          /\ Len(Snap(t).node) <= Len(node[RunOf(t)]) /\ Len(Snap(t).node) > 0
          /\ Len(Snap(t).node) \in Nat /\ Len(node[RunOf(t)]) \in Nat
      BY <2>1, CallParts DEF FreeOps
    <3>2. n[1] \in 1..Len(Snap(t).node) /\ n[2] \in Key(RunOf(t))
      BY <2>2, <3>1, OpenNodeIn
    <3> QED
      BY <1>0, <3>1, <3>2
  <2>3. "CANCELLED" \notin {"WAITING_EVENT", "SUCCEEDED", "FAILED"}
    OBVIOUS
  <2>4. \A n \in OpenNodes(Snap(t)) :
          UpdateNodeRun(RunOf(t), n[1], n[2], "CANCELLED") => RowsStay
    BY <1>0, <1>r, <2>2, <2>3, UpdateSuits
  <2> QED
    BY <1>0, <1>r, <2>1, <2>4, SameSuits
<1>13. CASE SpawnChild(t) \/ StartByEvent(t)
  <2>1. /\ \/ UNCHANGED node
           \/ \E r \in Run : \E parent : CreateWorkflowRun(r, parent)
    <3>1. CASE SpawnChild(t)
      <4>1. Graph[RunOf(t)].node[Call(t).k].calls \subseteq Run
        BY <1>7, <3>1, NodeParts DEF NodeAttributes, SpawnChild, RowOps
      <4> QED
        BY <3>1, <4>1 DEF SpawnChild
    <3> QED
      BY <1>13, <3>1 DEF StartByEvent
  <2> QED
    BY <1>r, <2>1, CreateSuits, SameSuits
<1> QED
  BY <1>1, <1>2, <1>3, <1>5, <1>6, <1>8, <1>9, <1>10, <1>11, <1>12, <1>13, <1>14, <1>15 DEF Step

-----------------------------------------------------------------------------
\* A handler that changes its copy, or loads another, leaves the calls it names.
LEMMA SkipNothing ==
  ASSUME TypeOK, StacksSuit, RunsSuit, NEW t \in Thread, ~Idle(t),
         NEW calls, Fit(RunOf(t), calls),
         \/ Skip(t) \/ Return(t, Snap(t), calls)
         \/ \E c, k, state : Return(t, SetNode(Snap(t), c, k, state), calls)
         \/ \E state : Return(t, WithState(Snap(t), state), calls)
         \/ \E mark : Return(t, WithMark(Snap(t), mark), calls)
         \/ Return(t, Load(RunOf(t)), calls)
  PROVE  StacksSuit'
<1>1. CopySuits(Load(RunOf(t)))
  <2>1. RunOf(t) \in Run
    BY CallParts
  <2> QED
    BY <2>1 DEF CopySuits, Load, RunsSuit
<1>2. CopySuits(Snap(t))
  BY TopSuits
<1>3. /\ \A c, k, state : CopySuits(SetNode(Snap(t), c, k, state))
      /\ \A state : CopySuits(WithState(Snap(t), state))
      /\ \A mark : CopySuits(WithMark(Snap(t), mark))
  BY CopyStays
<1> QED
  BY <1>1, <1>2, <1>3, SkipSuits, ReturnSuits

\* The frames a step of a thread leaves are fit: confirmations are paused by
\* activateNode, cancelled by a cancellation, and decided, and nothing else.
LEMMA StepStacks ==
  ASSUME TypeOK, HandlersSuit, NEW t \in Thread, Step(t)
  PROVE  StacksSuit'
<1> DEFINE r == RunOf(t)
           k == Call(t).k
           c == Call(t).c
<1>0. StacksSuit /\ RunsSuit /\ Fit(r, <<>>)
  BY FitCalls DEF HandlersSuit
<1>a. ASSUME NEW op, Calls(t, op)
      PROVE  ~Idle(t) /\ (op \in Unattended => ~Confirms(r, k)) /\ (op \in WaitOps => Waits(r, k))
  BY <1>0, <1>a, TopSuits DEF Calls, CallSuits
<1>b. \A op : op \notin Unattended => Fit(r, <<Op(op)>>)
  <2>1. "context" \in Unattended /\ WaitOps \subseteq Unattended
    BY DEF Unattended, WaitOps
  <2> QED
    BY <2>1, FitCalls, FitOps DEF WaitOps
<1>1. CASE CompleteNode(t)
  <2>1. Fit(r, IF TypeOf(r, k) = "END" THEN <<Op("finish")>>
               ELSE FollowEdges(r, k, "success", NoEvent) \o <<Op("maybeFinish")>>)
    BY <1>b, FitFinish DEF Unattended
  <2> QED
    BY <1>0, <1>1, <1>a, <2>1, SkipNothing DEF CompleteNode
<1>2. CASE FailNode(t)
  <2>1. CallSuits(r, Op("failRun")) /\ CallSuits(r, NotifyParent(FALSE))
    BY FitOps DEF Unattended, WaitOps, NotifyParent
  <2>2. Fit(r, IF HasFailureEdge(r, k)
                 THEN FollowEdges(r, k, "failure", NoEvent) \o <<Op("maybeFinish")>>
                 ELSE <<Op("failRun"), NotifyParent(FALSE)>>)
    BY <2>1, FitCalls, FitFinish
  <2> QED
    BY <1>0, <1>2, <1>a, <2>2, SkipNothing DEF FailNode
<1>3. CASE FailRun(t) \/ CancelRun(t)
  BY <1>0, <1>3, <1>a, SkipNothing DEF FailRun, CancelRun, WithState
<1>4. CASE TraverseEdge(t)
  <2> DEFINE e == Graph[r].edges[Call(t).i]
             others == FollowFrom(r, e.src, e.kind, e.event, Call(t).i)
  <2>1. /\ CallSuits(r, OnKey("activate", e.dst))
        /\ \A n : CallSuits(r, OnNode("park", n, e.dst))
    <3>1. "activate" \notin WaitOps \cup Unattended /\ "park" \notin WaitOps \cup Unattended
      BY DEF Unattended, WaitOps
    <3> QED
      BY <3>1, FitOps
  <2>2. PICK first, mark :
          /\ Return(t, WithMark(Snap(t), mark), first \o others)
          /\ \/ first = <<OnKey("activate", e.dst)>> \/ first = <<>>
             \/ \E n : first = <<OnNode("park", n, e.dst)>>
    BY <1>4 DEF TraverseEdge, WithMark
  <2>3. Fit(r, first)
    BY <1>0, <2>1, <2>2, FitCalls
  <2>4. Fit(r, first \o others)
    BY <2>3, FitFollow, FitTogether
  <2>5. ~Idle(t)
    BY <1>4, <1>a DEF TraverseEdge
  <2> QED
    BY <1>0, <2>2, <2>4, <2>5, SkipNothing
<1>5. CASE ActivateNode(t)
  <2>1. \A n : Fit(r, <<ExecuteNode(r, n, k)>>)
    BY FitExecute, FitCalls
  <2> QED
    BY <1>0, <1>5, <1>a, <2>1, SkipNothing DEF ActivateNode
<1>6. CASE FinishOrRepeat(t) \/ MaybeFinishRun(t)
  <2>1. Fit(r, <<NotifyParent(TRUE)>>) /\ ~Idle(t)
    <3>1. CallSuits(r, NotifyParent(TRUE))
      BY FitOps DEF Unattended, WaitOps, NotifyParent
    <3>2. Calls(t, "finish") \/ Calls(t, "maybeFinish")
      <4>1. CASE FinishOrRepeat(t)
        BY <4>1 DEF FinishOrRepeat
      <4>2. CASE MaybeFinishRun(t)
        BY <4>2 DEF MaybeFinishRun
      <4> QED
        BY <1>6, <4>1, <4>2
    <3> QED
      BY <1>a, <3>1, <3>2, FitCalls
  <2>2. \/ Skip(t) \/ Return(t, WithState(Snap(t), "SUCCEEDED"), <<NotifyParent(TRUE)>>)
        \/ Return(t, WithNext(Snap(t)), <<>>)
    <3>1. CASE FinishOrRepeat(t)
      BY <3>1 DEF FinishOrRepeat, WithState, WithNext
    <3>2. CASE MaybeFinishRun(t)
      BY <3>2 DEF MaybeFinishRun, WithState
    <3> QED
      BY <1>6, <3>1, <3>2
  <2>3. CASE Return(t, WithNext(Snap(t)), <<>>)
    BY <1>0, <2>1, <2>3, CopyStays, ReturnSuits
  <2> QED
    BY <1>0, <2>1, <2>2, <2>3, SkipNothing
<1>7. CASE ExecuteDelay(t) \/ StoreOutput(t) \/ FailWithoutStart(t) \/ MarkDispatched(t)
  <2>1. ~Idle(t) /\ Skip(t)
    BY <1>7, <1>a DEF ExecuteDelay, StoreOutput, FailWithoutStart, MarkDispatched
  <2> QED
    BY <1>0, <2>1, SkipNothing
<1>8. CASE ExecuteWait(t)
  <2>1. ~Idle(t) /\ \E n, j, state : Return(t, SetNode(Snap(t), n, j, state), <<>>)
    BY <1>8, <1>a DEF ExecuteWait
  <2> QED
    BY <1>0, <2>1, SkipNothing
<1>9. CASE ExecuteContext(t)
  <2>1. ~Idle(t) /\ ~Confirms(r, k) /\ Return(t, Snap(t), <<OnKey("complete", k)>>)
    BY <1>9, <1>a DEF ExecuteContext, Unattended
  <2>2. Fit(r, <<OnKey("complete", k)>>)
    BY <2>1, FitCalls, FitOps DEF WaitOps
  <2> QED
    BY <1>0, <2>1, <2>2, SkipNothing
<1>10. CASE ExecuteSubflow(t)
  <2>1. ~Idle(t) /\ Waits(r, k)
        /\ Return(t, SetNode(Snap(t), c, k, "WAITING_EVENT"), <<OnNode("spawn", c, k)>>)
    BY <1>10, <1>a DEF ExecuteSubflow, WaitOps
  <2>2. Fit(r, <<OnNode("spawn", c, k)>>)
    BY <2>1, FitCalls, FitWaits DEF WaitOps
  <2> QED
    BY <1>0, <2>1, <2>2, SkipNothing
<1>11. CASE SpawnChild(t)
  <2>1. ~Idle(t) /\ ~Confirms(r, k) /\ Waits(r, k)
    BY <1>11, <1>a DEF SpawnChild, Unattended, WaitOps
  <2>2. CASE Return(t, Snap(t), <<OnKey("fail", k)>>)
    <3>1. Fit(r, <<OnKey("fail", k)>>)
      BY <2>1, FitCalls, FitOps DEF WaitOps
    <3> QED
      BY <1>0, <2>1, <2>2, <3>1, SkipNothing
  <2>3. CASE \E child \in Run :
               SetStack(t, <<Frame(r, Snap(t), <<OnNode("link", c, k)>>),
                                     Frame(child, Load(child), <<Op("boot")>>)>>
                                    \o Push(Caller(t), Tail(stack[t])))
    <3>1. PICK child \in Run :
                           SetStack(t, <<Frame(r, Snap(t), <<OnNode("link", c, k)>>),
                                     Frame(child, Load(child), <<Op("boot")>>)>>
                                    \o Push(Caller(t), Tail(stack[t])))
      BY <2>3
    <3> DEFINE f == Frame(r, Snap(t), <<OnNode("link", c, k)>>)
               g == Frame(child, Load(child), <<Op("boot")>>)
               s == Push(Caller(t), Tail(stack[t]))
    <3>2. FrameSuits(g)
      <4>1. Fit(child, <<Op("boot")>>)
        BY FitCalls, FitOps DEF Unattended, WaitOps
      <4> QED
        BY <1>0, <4>1, FreshFrame
    <3>3. FrameSuits(f)
      <4>1. Fit(r, <<OnNode("link", c, k)>>)
        BY <2>1, FitCalls, FitWaits DEF WaitOps
      <4> QED
        BY <1>0, <2>1, <4>1, TopSuits DEF FrameSuits, Frame
    <3>4. s \in Seq(FramesOf(s)) /\ StackSuits(s)
      BY <1>0, <2>1, TopSuits, PushSuits
    <3> HIDE DEF f, g, s
    <3>5. StackSuits(<<f, g>> \o s)
      <4>1. FramesOf(<<f, g>>) = {f, g} /\ <<f, g>> \in Seq({f, g})
        BY DEF FramesOf
      <4>2. FramesOf(<<f, g>> \o s) \subseteq {f, g} \cup FramesOf(s)
        BY <3>4, <4>1, ConcatElements
      <4> QED
        BY <3>2, <3>3, <3>4, <4>2 DEF StackSuits
    <3>6. stack' = [stack EXCEPT ![t] = <<f, g>> \o s]
      BY <3>1 DEF SetStack, f, g, s
    <3> QED
      BY <1>0, <3>5, <3>6, SetSuits
  <2>4. Graph[r].node[k].calls \subseteq Run
    BY <1>11, <2>1, CallParts, NodeParts DEF NodeAttributes, SpawnChild, Calls, RowOps
  <2> QED
    BY <1>11, <2>2, <2>3, <2>4 DEF SpawnChild
<1>12. CASE Bootstrap(t)
  <2>1. ASSUME NEW j, TypeOf(r, j) = "START"
        PROVE  Fit(r, <<OnKey("complete", j)>>)
    <3>1. ~Confirms(r, j)
      BY <2>1 DEF Confirms
    <3> QED
      BY <3>1, FitCalls, FitOps DEF WaitOps
  <2>2. ~Idle(t)
    BY <1>12, <1>a DEF Bootstrap
  <2> DEFINE starts == {j \in Key(r) : TypeOf(r, j) = "START"}
  <2>3. starts # {} => TypeOf(r, CHOOSE j \in starts : TRUE) = "START"
    OBVIOUS
  <2>4. Return(t, Load(r), IF starts = {} THEN <<Op("orphan")>>
                           ELSE <<OnKey("complete", CHOOSE j \in starts : TRUE)>>)
    BY <1>12 DEF Bootstrap
  <2>5. Fit(r, IF starts = {} THEN <<Op("orphan")>>
               ELSE <<OnKey("complete", CHOOSE j \in starts : TRUE)>>)
    BY <1>b, <2>1, <2>3 DEF Unattended
  <2> QED
    BY <1>0, <2>2, <2>4, <2>5, SkipNothing
<1>13. CASE DispatchCapability(t) \/ DispatchSsh(t) \/ DispatchNavigation(t)
  <2>1. PICK tries : Calls(t, "dispatch") /\ CreateCommand(t, tries)
    BY <1>13 DEF DispatchCapability, DispatchSsh, DispatchNavigation, Dispatches
  <2>2. ~Idle(t) /\ ~Confirms(r, k)
    BY <1>a, <2>1 DEF Unattended
  <2>3. Return(t, WithTries(Snap(t), c, k, tries),
               <<[OnNode("send", c, k) EXCEPT !.i = Len(cmd) + 1]>>)
    BY <2>1 DEF CreateCommand, WithTries
  <2>4. Fit(r, <<[OnNode("send", c, k) EXCEPT !.i = Len(cmd) + 1]>>)
    BY <2>2, FitCalls, FitOps DEF WaitOps
  <2> QED
    BY <1>0, <2>2, <2>3, <2>4, CopyStays, ReturnSuits
<1>14. ASSUME NEW op \in {"mark", "hand", "published", "fail", "retry"},
              Calls(t, "send") \/ Calls(t, "hand")
       PROVE  CallSuits(r, After(t, op)) /\ ~Idle(t)
  <2>1. ~Idle(t) /\ ~Confirms(r, k) /\ Call(t) \in OpRecord
    BY <1>14, <1>a, CallParts DEF Unattended
  <2>2. After(t, op).k = k /\ After(t, op).op = op
    BY <2>1 DEF After, OpRecord
  <2> QED
    BY <1>14, <2>1, <2>2 DEF CallSuits, WaitOps
<1>15. CASE SendCommand(t)
  <2> DEFINE type == TypeOf(r, k)
             ssh == Calls(t, "send") /\ type = "SSH"
             calls == CASE ssh -> <<After(t, "mark"), OnNode("stamp", c, k), After(t, "hand")>>
               [] type = "TOPIC" -> <<After(t, "mark"), After(t, "published")>>
               [] type \in {"ROBOT_CAPABILITY", "NAVIGATION"} -> <<After(t, "mark")>>
               [] OTHER -> <<>>
  <2>1. Return(t, Snap(t), calls) /\ (Calls(t, "send") \/ Calls(t, "hand"))
    BY <1>15 DEF SendCommand
  <2>2. CallSuits(r, OnNode("stamp", c, k))
    BY FitOps DEF Unattended, WaitOps
  <2>3. Fit(r, calls)
    <3>1. \/ calls = <<After(t, "mark"), OnNode("stamp", c, k), After(t, "hand")>>
          \/ calls = <<After(t, "mark"), After(t, "published")>>
          \/ calls = <<After(t, "mark")>> \/ calls = <<>>
      OBVIOUS
    <3>2. CallSuits(r, After(t, "mark")) /\ CallSuits(r, After(t, "hand"))
          /\ CallSuits(r, After(t, "published"))
      BY <1>14, <2>1
    <3> QED
      BY <2>2, <3>1, <3>2, FitCalls
  <2> HIDE DEF calls
  <2> QED
    BY <1>0, <1>14, <2>1, <2>3, SkipNothing
<1>16. CASE RefuseCommand(t)
  <2>1. PICK op \in {"fail", "retry"} :
          Return(t, Snap(t), <<After(t, op)>>) /\ (Calls(t, "send") \/ Calls(t, "hand"))
    BY <1>16 DEF RefuseCommand
  <2>2. Fit(r, <<After(t, op)>>) /\ ~Idle(t)
    BY <1>14, <2>1, FitCalls
  <2> QED
    BY <1>0, <2>1, <2>2, SkipNothing
<1>17. CASE TopicPublished(t)
  <2>1. ~Idle(t) /\ ~Confirms(r, k)
        /\ Return(t, Snap(t), EmitResult(r, k, TRUE) \o <<OnKey("complete", k)>>)
    BY <1>17, <1>a DEF TopicPublished, Unattended
  <2>2. Fit(r, EmitResult(r, k, TRUE) \o <<OnKey("complete", k)>>)
    BY <2>1, FitCalls, FitOps, FitEmit, FitTogether DEF WaitOps
  <2> QED
    BY <1>0, <2>1, <2>2, SkipNothing
<1>18. CASE ApplyResult(t) \/ ApplySshResult(t)
  <2> DEFINE i == Call(t).i
             d == cmd[i].c
             j == cmd[i].k
  <2>1. ~Idle(t) /\ Call(t).op = "result"
    BY <1>18 DEF ApplyResult, ApplySshResult, Applies, Calls
  <2>2. i \in DOMAIN cmd /\ cmd[i].run = r
    BY <2>1, CallParts DEF CommandOps
  <2>3. ~Confirms(r, j)
    BY <2>2 DEF HandlersSuit, CommandsSuit
  <2>4. PICK calls :
          /\ Skip(t) \/ Return(t, Load(r), calls)
          /\ \/ calls = <<OnKey("complete", j)>> \o EmitResult(r, j, TRUE)
             \/ calls = EmitResult(r, j, FALSE) \o <<OnNode("retry", d, j)>>
             \/ calls = EmitResult(r, j, TRUE) \o <<OnKey("complete", j)>>
             \/ calls = <<OnNode("stamp", d, j), OnNode("retry", d, j)>>
    BY <1>18 DEF ApplyResult, ApplySshResult, ApplyTo
  <2> HIDE DEF d, j
  <2>5. /\ CallSuits(r, OnKey("complete", j)) /\ CallSuits(r, OnNode("retry", d, j))
        /\ CallSuits(r, OnNode("stamp", d, j))
    BY <2>3, FitOps DEF WaitOps
  <2>6. /\ Fit(r, <<OnKey("complete", j)>>) /\ Fit(r, <<OnNode("retry", d, j)>>)
        /\ Fit(r, <<OnNode("stamp", d, j), OnNode("retry", d, j)>>)
    BY <2>5, FitCalls
  <2>7. Fit(r, calls)
    BY <2>4, <2>6, FitEmit, FitTogether
  <2> QED
    BY <1>0, <2>1, <2>4, <2>7, SkipNothing
<1>19. CASE ScheduleRetry(t)
  <2>1. ~Idle(t) /\ ~Confirms(r, k)
        /\ (Skip(t) \/ Return(t, Snap(t), <<OnKey("fail", k)>>))
    BY <1>19, <1>a DEF ScheduleRetry, Unattended
  <2>2. Fit(r, <<OnKey("fail", k)>>)
    BY <2>1, FitCalls, FitOps DEF WaitOps
  <2> QED
    BY <1>0, <2>1, <2>2, SkipNothing
<1>20. CASE RetryNode(t)
  <2>1. ~Idle(t) /\ \E tries : Return(t, WithTries(Snap(t), c, k, tries), <<ExecuteNode(r, c, k)>>)
    BY <1>20, <1>a DEF RetryNode, WithTries
  <2>2. Fit(r, <<ExecuteNode(r, c, k)>>)
    BY FitExecute, FitCalls
  <2> QED
    BY <1>0, <2>1, <2>2, CopyStays, ReturnSuits
<1>21. CASE Notify(t)
  <2> DEFINE up == run[r].parent
  <2>1. ~Idle(t) /\ r \in Run
    BY <1>21, <1>a, CallParts DEF Notify
  <2>2. \/ Skip(t)
        \/ /\ up # NoParent
           /\ Enter(t, Frame(up[1], Load(up[1]),
                <<WithOutcome(OnNode("settle", up[2], up[3]), Call(t).ok)>>))
    BY <1>21 DEF Notify
  <2>3. CASE up # NoParent /\ Enter(t, Frame(up[1], Load(up[1]),
                <<WithOutcome(OnNode("settle", up[2], up[3]), Call(t).ok)>>))
    <3>1. Waits(up[1], up[3]) /\ up[1] \in Run
      <4>1. run[r] \in RunRow(Attempts)
        BY <2>1 DEF TypeOK, RunsOK
      <4> QED
        BY <2>1, <2>3, <4>1 DEF HandlersSuit, RunsSuit, RunRow, NodeRun
    <3>2. Fit(up[1], <<WithOutcome(OnNode("settle", up[2], up[3]), Call(t).ok)>>)
      BY <3>1, FitCalls, FitWaits DEF WaitOps
    <3> QED
      BY <1>0, <2>1, <2>3, <3>1, <3>2, FreshFrame, EnterSuits
  <2> QED
    BY <1>0, <2>1, <2>2, <2>3, SkipNothing
<1>22. CASE SettleSubflow(t)
  <2>1. Fit(r, <<Op("failRun")>>)
    BY <1>b DEF Unattended
  <2>2. ~Idle(t)
    BY <1>22, <1>a DEF SettleSubflow
  <2>3. PICK calls, state :
          /\ Skip(t) \/ Return(t, SetNode(Snap(t), c, k, state), calls)
          /\ \/ calls = <<Op("failRun")>>
             \/ \E kind : calls = FollowEdges(r, k, kind, NoEvent) \o <<Op("maybeFinish")>>
    BY <1>22 DEF SettleSubflow
  <2>4. Fit(r, calls)
    BY <2>1, <2>3, FitFinish
  <2> QED
    BY <1>0, <2>2, <2>3, <2>4, SkipNothing
<1>23. CASE CancelCommand(t)
  <2>1. ~Idle(t) /\ Fit(r, <<Call(t)>>)
    BY <1>0, <1>23, <1>a, TopSuits, FitCalls DEF CancelCommand
  <2>2. \/ Skip(t)
        \/ \E i \in Snap(t).commands :
             Return(t, WithCommands(Snap(t), Snap(t).commands \ {i}), <<Call(t)>>)
    BY <1>23 DEF CancelCommand, WithCommands
  <2> QED
    BY <1>0, <2>1, <2>2, SkipNothing, CopyStays, ReturnSuits
<1>24. CASE CancelNode(t)
  <2>1. ~Idle(t) /\ Fit(r, <<Call(t)>>)
    BY <1>0, <1>24, <1>a, TopSuits, FitCalls DEF CancelNode
  <2>2. \/ Skip(t)
        \/ \E n, j, state : Return(t, SetNode(Snap(t), n, j, state), <<Call(t)>>)
    BY <1>24 DEF CancelNode
  <2> QED
    BY <1>0, <2>1, <2>2, SkipNothing
<1>25. CASE ApplyDecision(t)
  <2>1. ~Idle(t)
    BY <1>25, <1>a DEF ApplyDecision
  <2>2. \/ Throw(t)
        \/ \E state, ok : Return(t, SetNode(Snap(t), c, k, state),
                                <<WithOutcome(OnNode("record", c, k), ok)>>)
    BY <1>25 DEF ApplyDecision
  <2>3. \A ok : Fit(r, <<WithOutcome(OnNode("record", c, k), ok)>>)
    BY FitCalls, FitOps DEF Unattended, WaitOps
  <2>4. CASE Throw(t)
    BY <1>0, <2>4, TupleElements, SetSuits DEF Throw, SetStack, StackSuits
  <2> QED
    BY <1>0, <2>1, <2>2, <2>3, <2>4, SkipNothing
<1>29. CASE RecordDecision(t)
  <2>1. Fit(r, <<Op("cancelNodes"), Op("failRun")>>)
    BY FitCalls, FitOps DEF Unattended, WaitOps
  <2>2. ~Idle(t)
    BY <1>29, <1>a DEF RecordDecision
  <2>3. PICK calls :
          /\ Throw(t) \/ Return(t, Snap(t), calls)
          /\ \/ calls = <<Op("cancelNodes"), Op("failRun")>>
             \/ \E kind : calls = FollowEdges(r, k, kind, NoEvent) \o <<Op("maybeFinish")>>
    BY <1>29 DEF RecordDecision
  <2>4. Fit(r, calls)
    BY <2>1, <2>3, FitFinish
  <2>5. CASE Throw(t)
    BY <1>0, <2>5, TupleElements, SetSuits DEF Throw, SetStack, StackSuits
  <2> QED
    BY <1>0, <2>2, <2>3, <2>4, <2>5, SkipNothing
<1>26. CASE ListWaiting(t)
  <2>1. ~Idle(t) /\ Return(t, WithWaiting(Snap(t), WaitingRuns(Call(t).ev)),
                           <<Op("wake"), [Op("startRun") EXCEPT !.ev = Call(t).ev]>>)
    BY <1>26, <1>a DEF ListWaiting, WithWaiting
  <2>2. CopySuits(WithWaiting(Snap(t), WaitingRuns(Call(t).ev)))
    <3>1. "waiting" \in DOMAIN Snap(t) /\ "cycle" \in DOMAIN Snap(t) /\ CopySuits(Snap(t))
      BY <1>0, <2>1, CallParts, TopSuits DEF Snapshot
    <3>2. ASSUME NEW n \in WaitingRuns(Call(t).ev)
          PROVE  Waits(n[1], n[3])
      <4>1. /\ n[1] \in Run /\ n[2] \in DOMAIN node[n[1]] /\ n[3] \in Key(n[1])
            /\ node[n[1]][n[2]][n[3]].state = "WAITING_EVENT"
        BY <3>2 DEF WaitingRuns
      <4> QED
        BY <4>1 DEF HandlersSuit, RowsSuit
    <3> QED
      BY <3>1, <3>2 DEF CopySuits, WithWaiting
  <2>3. Fit(r, <<Op("wake"), [Op("startRun") EXCEPT !.ev = Call(t).ev]>>)
    <3>1. CallSuits(r, [Op("startRun") EXCEPT !.ev = Call(t).ev]) /\ CallSuits(r, Op("wake"))
      BY DEF CallSuits, Op, Unattended, WaitOps
    <3> QED
      BY <3>1, FitCalls
  <2> QED
    BY <1>0, <2>1, <2>2, <2>3, ReturnSuits
<1>27. CASE WakeRun(t)
  <2>1. ~Idle(t)
    BY <1>27, <1>a DEF WakeRun
  <2>2. ASSUME NEW n \in Snap(t).waiting,
               SetStack(t,
                 (IF run[n[1]].state = "RUNNING"
                    THEN <<Frame(n[1], Load(n[1]), <<OnKey("complete", n[3])>>)>>
                    ELSE <<>>)
                 \o <<Frame(r, WithWaiting(Snap(t), Snap(t).waiting \ {n}), Top(t).todo)>>
                 \o Tail(stack[t]))
        PROVE  StacksSuit'
    <3> DEFINE f == Frame(n[1], Load(n[1]), <<OnKey("complete", n[3])>>)
               g == Frame(r, WithWaiting(Snap(t), Snap(t).waiting \ {n}), Top(t).todo)
               first == IF run[n[1]].state = "RUNNING" THEN <<f>> ELSE <<>>
               s == Tail(stack[t])
    <3>1. FrameSuits(f)
      <4>1. Waits(n[1], n[3]) /\ ~Confirms(n[1], n[3]) /\ n[1] \in Run
        <5>1. Snap(t).waiting \subseteq NodeRun(Attempts)
          BY <2>1, CallParts DEF Snapshot
        <5> QED
          BY <1>0, <2>1, <2>2, <5>1, TopSuits DEF CopySuits, NodeRun, Waits, Confirms
      <4>2. Fit(n[1], <<OnKey("complete", n[3])>>)
        BY <4>1, FitCalls, FitOps DEF WaitOps
      <4> QED
        BY <1>0, <4>1, <4>2, FreshFrame
    <3>2. FrameSuits(g)
      <4>1. /\ Fit(r, Top(t).todo) /\ CopySuits(Snap(t))
            /\ "waiting" \in DOMAIN Snap(t) /\ "cycle" \in DOMAIN Snap(t)
        BY <1>0, <2>1, TopSuits, CallParts DEF Snapshot
      <4>2. CopySuits(WithWaiting(Snap(t), Snap(t).waiting \ {n}))
        BY <4>1 DEF CopySuits, WithWaiting
      <4> QED
        BY <4>1, <4>2 DEF FrameSuits, Frame
    <3>3. s \in Seq(FramesOf(s)) /\ StackSuits(s)
      BY <1>0, <2>1, TopSuits
    <3>4. stack' = [stack EXCEPT ![t] = first \o <<g>> \o s]
      BY <2>2 DEF SetStack
    <3> HIDE DEF f, g, s
    <3>5. first \in Seq(FramesOf(first)) /\ FramesOf(first) \subseteq {f}
          /\ <<g>> \in Seq(FramesOf(<<g>>)) /\ FramesOf(<<g>>) = {g}
      <4>1. /\ FramesOf(<<g>>) = {g} /\ FramesOf(<<f>>) = {f} /\ FramesOf(<<>>) = {}
            /\ <<g>> \in Seq({g}) /\ <<f>> \in Seq({f}) /\ <<>> \in Seq({})
        BY DEF FramesOf
      <4> QED
        BY <4>1
    <3> HIDE DEF first
    <3>6. /\ first \o <<g>> \in Seq(FramesOf(first \o <<g>>))
          /\ FramesOf(first \o <<g>>) \subseteq {f, g}
      BY <3>5, ConcatElements
    <3>7. FramesOf(first \o <<g>> \o s) \subseteq {f, g} \cup FramesOf(s)
      BY <3>3, <3>6, ConcatElements
    <3>8. StackSuits(first \o <<g>> \o s)
      BY <3>1, <3>2, <3>3, <3>7 DEF StackSuits
    <3> QED
      BY <1>0, <3>4, <3>8, SetSuits
  <2>3. \/ Skip(t)
        \/ \E n \in Snap(t).waiting :
             SetStack(t,
                 (IF run[n[1]].state = "RUNNING"
                    THEN <<Frame(n[1], Load(n[1]), <<OnKey("complete", n[3])>>)>>
                    ELSE <<>>)
                 \o <<Frame(r, WithWaiting(Snap(t), Snap(t).waiting \ {n}), Top(t).todo)>>
                 \o Tail(stack[t]))
    BY <1>27 DEF WakeRun, WithWaiting
  <2> QED
    BY <1>0, <2>1, <2>2, <2>3, SkipNothing
<1>28. CASE StartByEvent(t)
  <2>1. ~Idle(t)
        /\ (Skip(t) \/ \E s \in Run : Enter(t, Frame(s, Load(s), <<Op("boot")>>)))
    BY <1>28, <1>a DEF StartByEvent
  <2>2. \A s \in Run : FrameSuits(Frame(s, Load(s), <<Op("boot")>>))
    <3>1. \A s : Fit(s, <<Op("boot")>>)
      BY FitCalls, FitOps DEF Unattended, WaitOps
    <3> QED
      BY <1>0, <3>1, FreshFrame
  <2> QED
    BY <1>0, <2>1, <2>2, SkipNothing, EnterSuits
<1> QED
  BY <1>1, <1>2, <1>3, <1>4, <1>5, <1>6, <1>7, <1>8, <1>9, <1>10, <1>11, <1>12, <1>13,
     <1>15, <1>16, <1>17, <1>18, <1>19, <1>20, <1>21, <1>22, <1>23, <1>24, <1>25, <1>26,
     <1>27, <1>28, <1>29 DEF Step

-----------------------------------------------------------------------------
\* Commands are created for, timers armed for and children started by nodes
\* that are no confirmations, and cycles count from one.
LEMMA StepRest ==
  ASSUME TypeOK, HandlersSuit, NEW t \in Thread, Step(t)
  PROVE  CommandsSuit' /\ TasksSuit' /\ RunsSuit'
<1> DEFINE r == RunOf(t)
           k == Call(t).k
           c == Call(t).c
<1>0. StacksSuit /\ CommandsSuit /\ TasksSuit /\ RunsSuit /\ cmd \in Seq(CommandRow)
      /\ run \in [Run -> RunRow(Attempts)]
  BY DEF HandlersSuit, TypeOK, CommandsOK, RunsOK
<1>a. ASSUME NEW op, Calls(t, op)
      PROVE  ~Idle(t) /\ (op \in Unattended => ~Confirms(r, k)) /\ (op \in WaitOps => Waits(r, k))
  BY <1>0, <1>a, TopSuits DEF Calls, CallSuits
<1>b. UNCHANGED cmd => CommandsSuit'
  BY <1>0 DEF CommandsSuit
<1>c. UNCHANGED timer => TasksSuit'
  BY <1>0 DEF TasksSuit
<1>d. UNCHANGED run => RunsSuit'
  BY <1>0 DEF RunsSuit
<1>e. ASSUME NEW s, NEW state, NEW snap, UpdateWorkflowRunState(s, state, snap),
             snap.cycle # 0
      PROVE  RunsSuit'
  <2>1. \A q \in Run : /\ run'[q].parent = run[q].parent
                       /\ run'[q].cycle = run[q].cycle \/ run'[q].cycle = snap.cycle
    BY <1>0, <1>e DEF UpdateWorkflowRunState, RunRow
  <2> QED
    BY <1>0, <1>e, <2>1 DEF RunsSuit
<1>f. ASSUME NEW s \in Run, NEW parent, CreateWorkflowRun(s, parent),
             parent # NoParent => Waits(parent[1], parent[3])
      PROVE  RunsSuit'
  <2>1. \A q \in Run : /\ run'[q].parent = IF q = s THEN parent ELSE run[q].parent
                       /\ run'[q].cycle = IF q = s THEN 1 ELSE run[q].cycle
    BY <1>0, <1>f DEF CreateWorkflowRun
  <2> QED
    BY <1>0, <1>f, <2>1 DEF RunsSuit
<1>g. ASSUME NEW task, timer' = BagAdd(timer, task),
             task.kind # "cycle" => ~Confirms(task.run, task.k)
      PROVE  TasksSuit'
  <2>1. DOMAIN timer' = DOMAIN timer \cup {task}
    BY <1>g DEF BagAdd
  <2> QED
    BY <1>0, <1>g, <2>1 DEF TasksSuit
<1>1. CASE \/ CompleteNode(t) \/ FailNode(t) \/ TraverseEdge(t) \/ ActivateNode(t)
           \/ ExecuteWait(t) \/ ExecuteSubflow(t) \/ StoreOutput(t)
  <2>1. UNCHANGED <<run, cmd, timer>>
    BY <1>1 DEF CompleteNode, FailNode, TraverseEdge, ActivateNode, ExecuteWait,
                ExecuteSubflow, StoreOutput
  <2> QED
    BY <1>b, <1>c, <1>d, <2>1
<1>2. CASE \/ ApplyResult(t) \/ ApplySshResult(t) \/ Notify(t)
           \/ ListWaiting(t) \/ WakeRun(t) \/ Bootstrap(t)
  <2>1. UNCHANGED <<db, timer>>
    BY <1>2 DEF ApplyResult, ApplySshResult, ApplyTo, Notify, ListWaiting, WakeRun, Bootstrap
  <2>2. UNCHANGED <<run, cmd, timer>>
    BY <2>1 DEF db
  <2> QED
    BY <1>b, <1>c, <1>d, <2>2
<1>3. CASE \/ RetryNode(t) \/ SettleSubflow(t) \/ CancelNode(t)
           \/ ApplyDecision(t) \/ RecordDecision(t)
  <2>1. UNCHANGED <<run, cmd, timer>>
    BY <1>3 DEF RetryNode, SettleSubflow, CancelNode, ApplyDecision, RecordDecision
  <2> QED
    BY <1>b, <1>c, <1>d, <2>1
<1>4. CASE \/ FailRun(t) \/ CancelRun(t) \/ ExecuteContext(t) \/ FailWithoutStart(t)
           \/ MaybeFinishRun(t)
  <2>1. UNCHANGED <<cmd, timer>>
    BY <1>4 DEF FailRun, CancelRun, ExecuteContext, FailWithoutStart, MaybeFinishRun
  <2>2. \/ UNCHANGED run
        \/ \E s, state, snap : UpdateWorkflowRunState(s, state, snap) /\ snap.cycle # 0
    <3>1. CASE FailWithoutStart(t)
      <4>1. [cycle |-> 1, next |-> FALSE].cycle # 0
        OBVIOUS
      <4> QED
        BY <3>1, <4>1 DEF FailWithoutStart
    <3>2. CASE FailRun(t) \/ CancelRun(t) \/ ExecuteContext(t) \/ MaybeFinishRun(t)
      <4>1. Snap(t).cycle # 0
        BY <1>0, <1>a, <3>2, TopSuits
           DEF FailRun, CancelRun, ExecuteContext, MaybeFinishRun, CopySuits
      <4> QED
        BY <3>2, <4>1 DEF FailRun, CancelRun, ExecuteContext, MaybeFinishRun
    <3> QED
      BY <1>4, <3>1, <3>2
  <2> QED
    BY <1>b, <1>c, <1>d, <1>e, <2>1, <2>2
<1>5. CASE FinishOrRepeat(t)
  <2> DEFINE task == [kind |-> "cycle", run |-> r, c |-> Snap(t).cycle + 1, k |-> ""]
  <2>1. UNCHANGED cmd
    BY <1>5 DEF FinishOrRepeat
  <2>2. \/ UNCHANGED run
        \/ \E s, state, snap : UpdateWorkflowRunState(s, state, snap) /\ snap.cycle # 0
    <3>1. ~Idle(t)
      BY <1>5, <1>a DEF FinishOrRepeat
    <3>2. Snap(t).cycle # 0 /\ WithNext(Snap(t)).cycle # 0
      BY <1>0, <3>1, TopSuits, CopyStays DEF CopySuits
    <3> QED
      BY <1>5, <3>2 DEF FinishOrRepeat, WithNext
  <2>3. UNCHANGED timer \/ timer' = BagAdd(timer, task)
    BY <1>5 DEF FinishOrRepeat
  <2>4. task.kind = "cycle"
    OBVIOUS
  <2> HIDE DEF task
  <2> QED
    BY <1>b, <1>c, <1>d, <1>e, <1>g, <2>1, <2>2, <2>3, <2>4
<1>6. CASE ExecuteDelay(t) \/ ScheduleRetry(t)
  <2>1. UNCHANGED <<run, cmd>>
    BY <1>6 DEF ExecuteDelay, ScheduleRetry
  <2>2. ~Confirms(r, k)
    BY <1>6, <1>a DEF ExecuteDelay, ScheduleRetry, Unattended
  <2>3. \/ UNCHANGED timer
        \/ \E kind : timer' = BagAdd(timer, [kind |-> kind, run |-> r, c |-> c, k |-> k])
    BY <1>6 DEF ExecuteDelay, ScheduleRetry
  <2> QED
    BY <1>b, <1>c, <1>d, <1>g, <2>1, <2>2, <2>3
<1>7. CASE SpawnChild(t)
  <2>1. UNCHANGED <<cmd, timer>> /\ ~Idle(t) /\ Waits(r, k)
    BY <1>7, <1>a DEF SpawnChild, WaitOps
  <2>2. Graph[r].node[k].calls \subseteq Run
    BY <1>7, <2>1, CallParts, NodeParts DEF NodeAttributes, SpawnChild, Calls, RowOps
  <2>3. \/ UNCHANGED run
        \/ \E s \in Run : CreateWorkflowRun(s, <<r, c, k>>)
    BY <1>7, <2>2 DEF SpawnChild
  <2> QED
    BY <1>b, <1>c, <1>d, <1>f, <2>1, <2>3
<1>8. CASE StartByEvent(t)
  <2>1. UNCHANGED <<cmd, timer>> /\ (UNCHANGED run \/ \E s \in Run : CreateWorkflowRun(s, NoParent))
    BY <1>8 DEF StartByEvent
  <2> QED
    BY <1>b, <1>c, <1>d, <1>f, <2>1
<1>9. CASE DispatchCapability(t) \/ DispatchSsh(t) \/ DispatchNavigation(t)
  <2>1. PICK tries : Calls(t, "dispatch") /\ CreateCommand(t, tries)
    BY <1>9 DEF DispatchCapability, DispatchSsh, DispatchNavigation, Dispatches
  <2> DEFINE row == [run |-> r, c |-> c, k |-> k, state |-> "CREATED",
                     live |-> FALSE, fired |-> FALSE]
  <2>2. UNCHANGED <<run, timer>> /\ cmd' = Append(cmd, row)
    BY <2>1 DEF CreateCommand
  <2>3. ~Confirms(row.run, row.k)
    BY <1>a, <2>1 DEF Unattended
  <2> HIDE DEF row
  <2>4. DOMAIN cmd = 1..Len(cmd) /\ Len(cmd) \in Nat
    BY <1>0, LenProperties
  <2>5. /\ DOMAIN cmd' = 1..(Len(cmd)+1) /\ cmd'[Len(cmd)+1] = row
        /\ \A i \in 1..Len(cmd) : cmd'[i] = cmd[i]
    BY <2>2, <2>4
  <2>6. CommandsSuit'
    BY <1>0, <2>3, <2>4, <2>5 DEF CommandsSuit
  <2> QED
    BY <1>c, <1>d, <2>2, <2>6
<1>10. CASE \/ SendCommand(t) \/ RefuseCommand(t) \/ MarkDispatched(t)
            \/ TopicPublished(t) \/ CancelCommand(t)
  <2>1. UNCHANGED <<run, timer>>
    BY <1>10 DEF SendCommand, RefuseCommand, MarkDispatched, TopicPublished, CancelCommand
  <2>2. \/ UNCHANGED cmd
        \/ \E i, state : cmd' = [cmd EXCEPT ![i].state = state]
        \/ \E i, live : cmd' = [cmd EXCEPT ![i].live = live]
    BY <1>10 DEF SendCommand, RefuseCommand, MarkDispatched, TopicPublished, CancelCommand
  <2>3. \A i \in DOMAIN cmd : cmd[i] \in CommandRow
    BY <1>0, LenProperties
  <2>4. DOMAIN cmd' = DOMAIN cmd
        /\ \A i \in DOMAIN cmd : cmd'[i].run = cmd[i].run /\ cmd'[i].k = cmd[i].k
    BY <2>2, <2>3 DEF CommandRow
  <2> QED
    BY <1>0, <1>c, <1>d, <2>1, <2>4 DEF CommandsSuit
<1> QED
  BY <1>1, <1>2, <1>3, <1>4, <1>5, <1>6, <1>7, <1>8, <1>9, <1>10 DEF Step

\* Timer tasks, results and requests find their thread idle and write no
\* existing row.
LEMMA OtherRows ==
  ASSUME TypeOK, RowsSuit,
         \/ \E task \in DOMAIN timer : Fire(task)
         \/ \E i \in DOMAIN cmd : Result(i) \/ CommandFeedback(i)
         \/ \E h \in Http : HttpRequest(h)
  PROVE  RowsStay
<1>1. Timer \in Thread /\ Callback \in Thread /\ Http \subseteq Thread
  BY DEF Thread
<1>2. ASSUME NEW t \in Thread, Idle(t), UNCHANGED decided,
             UNCHANGED stack \/ \E s : stack' = [stack EXCEPT ![t] = s]
      PROVE  Recorded \subseteq Recorded'
  <2>1. CASE UNCHANGED stack
    BY <1>2, <2>1 DEF Recorded, Recording, Calls, Idle, Call, Top, RunOf
  <2>2. Recording(t) = {}
    BY <1>2 DEF Recording, Calls
  <2> QED
    BY <1>2, <2>1, <2>2, RecordsKept
<1>3. ASSUME NEW task \in DOMAIN timer, FireDelay(task) \/ FireRetry(task)
      PROVE  RowsStay
  <2>1. /\ UNCHANGED <<node, decided>> /\ Idle(Timer)
        /\ UNCHANGED stack \/ \E s : stack' = [stack EXCEPT ![Timer] = s]
    BY <1>3 DEF FireDelay, FireRetry, FireTask
  <2> QED
    BY <1>1, <1>2, <2>1, SameSuits
<1>4. ASSUME NEW task \in DOMAIN timer, FireCycle(task)
      PROVE  RowsStay
  <2> DEFINE q == task.run
  <2>1. UNCHANGED decided /\ Idle(Timer)
    BY <1>4 DEF FireCycle, FireTask
  <2>2. CASE run[q].state = "RUNNING" /\ Len(node[q]) = task.c - 1
    <3>1. /\ node' = [node EXCEPT ![q] = Append(@, FreshNodes(q))]
          /\ \E s : stack' = [stack EXCEPT ![Timer] = s]
      BY <1>4, <2>2 DEF FireCycle
    <3>2. DOMAIN node = Run /\ \A r \in Run : node[r] \in Seq([Key(r) -> NodeRow])
      BY DEF TypeOK, RunsOK, NodeRows
    <3>3. ASSUME NEW r \in Run, NEW c \in DOMAIN node'[r], NEW k \in Key(r)
          PROVE  \/ c \in DOMAIN node[r] /\ node'[r][c][k].state = node[r][c][k].state
                 \/ node'[r][c][k].state = "PENDING"
      <4>1. CASE r # q
        BY <3>1, <3>2, <3>3, <4>1
      <4>2. CASE r = q
        <5>1. /\ node'[r] = Append(node[r], FreshNodes(r))
              /\ DOMAIN node[r] = 1..Len(node[r]) /\ Len(node[r]) \in Nat
          BY <3>1, <3>2, <4>2, LenProperties
        <5>2. /\ DOMAIN node'[r] = 1..(Len(node[r])+1)
              /\ node'[r][Len(node[r])+1] = FreshNodes(r)
              /\ \A d \in 1..Len(node[r]) : node'[r][d] = node[r][d]
          BY <3>2, <5>1
        <5>3. c \in DOMAIN node[r] \/ c = Len(node[r])+1
          BY <3>3, <5>1, <5>2
        <5> QED
          BY <5>1, <5>2, <5>3 DEF FreshNodes
      <4> QED
        BY <4>1, <4>2
    <3>4. Recorded \subseteq Recorded'
      BY <1>1, <1>2, <2>1, <3>1
    <3> QED
      BY <3>3, <3>4, RowsStayEach
  <2>3. CASE ~(run[q].state = "RUNNING" /\ Len(node[q]) = task.c - 1)
    <3>1. UNCHANGED <<node, stack>>
      BY <1>4, <2>3 DEF FireCycle
    <3> QED
      BY <1>1, <1>2, <2>1, <3>1, SameSuits
  <2> QED
    BY <2>2, <2>3
<1>5. ASSUME NEW i \in DOMAIN cmd, Result(i) \/ CommandFeedback(i)
      PROVE  RowsStay
  <2>1. /\ UNCHANGED <<node, decided>> /\ Idle(Callback)
        /\ \E s : stack' = [stack EXCEPT ![Callback] = s]
    BY <1>5 DEF Result, CommandResult, CommandFeedback
  <2> QED
    BY <1>1, <1>2, <2>1, SameSuits
<1>6. ASSUME NEW h \in Http, HttpRequest(h)
      PROVE  RowsStay
  <2>1. UNCHANGED decided /\ Idle(h) /\ \E s : stack' = [stack EXCEPT ![h] = s]
    BY <1>6 DEF HttpRequest, StartManual, Cancel, DecideManual, InjectEvent, Request, db
  <2>2. Recorded \subseteq Recorded'
    BY <1>1, <1>2, <2>1
  <2>3. UNCHANGED node \/ \E r \in Run : CreateWorkflowRun(r, NoParent)
    BY <1>6, ExecutorAssumption
       DEF HttpRequest, StartManual, Cancel, DecideManual, InjectEvent, db
  <2> QED
    BY <2>2, <2>3, SameSuits, CreateSuits
<1> QED
  BY <1>3, <1>4, <1>5, <1>6 DEF Fire

\* The steps that are not a thread's.
LEMMA OtherSuits ==
  ASSUME TypeOK, HandlersSuit,
         \/ \E task \in DOMAIN timer : Fire(task)
         \/ \E i \in DOMAIN cmd : Result(i) \/ CommandFeedback(i)
         \/ \E h \in Http : HttpRequest(h)
         \/ Restart
  PROVE  HandlersSuit' /\ (Restart \/ RowsStay)
<1> USE DEF HandlersSuit
<1>r. RowsSuit' /\ (Restart \/ RowsStay)
  BY OtherRows DEF Restart, RowsSuit, RowsStay
<1>0. StacksSuit /\ CommandsSuit /\ TasksSuit /\ RunsSuit /\ cmd \in Seq(CommandRow)
      /\ run \in [Run -> RunRow(Attempts)] /\ Timer \in Thread /\ Callback \in Thread
      /\ Http \subseteq Thread
  BY DEF TypeOK, CommandsOK, RunsOK, Thread
<1>b. UNCHANGED cmd => CommandsSuit'
  BY DEF CommandsSuit
<1>c. DOMAIN timer' \subseteq DOMAIN timer => TasksSuit'
  BY DEF TasksSuit
<1>d. UNCHANGED run => RunsSuit'
  BY DEF RunsSuit
<1>e. UNCHANGED stack => StacksSuit'
  BY DEF StacksSuit
<1>1. ASSUME NEW task \in DOMAIN timer, Fire(task) PROVE HandlersSuit'
  <2>1. FireTask(task)
    BY <1>1 DEF Fire, FireDelay, FireRetry, FireCycle
  <2>2. DOMAIN timer' \subseteq DOMAIN timer /\ UNCHANGED cmd
    BY <2>1, TaskRemoved DEF FireTask
  <2>3. CASE FireDelay(task) \/ FireRetry(task)
    <3>1. UNCHANGED run /\ task.kind # "cycle"
      BY <2>3 DEF FireDelay, FireRetry
    <3>2. ~Confirms(task.run, task.k)
      BY <3>1 DEF TasksSuit
    <3>3. /\ Fit(task.run, <<OnKey("complete", task.k)>>)
          /\ Fit(task.run, <<OnNode("again", task.c, task.k)>>)
      BY <3>2, FitCalls, FitOps DEF WaitOps
    <3>4. \/ UNCHANGED stack
          \/ stack' = [stack EXCEPT ![Timer] =
               <<Frame(task.run, Load(task.run), <<OnKey("complete", task.k)>>)>>]
          \/ stack' = [stack EXCEPT ![Timer] =
               <<Frame(task.run, Load(task.run), <<OnNode("again", task.c, task.k)>>)>>]
      BY <2>3 DEF FireDelay, FireRetry
    <3>5. StacksSuit'
      BY <1>0, <1>e, <3>3, <3>4, TaskParts, FreshFrame, StartSuits
    <3> QED
      BY <1>b, <1>c, <1>d, <1>r, <2>2, <3>1, <3>5
  <2>4. CASE FireCycle(task)
    <3>1. \/ UNCHANGED <<run, node, stack>>
          \/ /\ node' = [node EXCEPT ![task.run] = Append(@, FreshNodes(task.run))]
             /\ run' = [run EXCEPT ![task.run].cycle = task.c, ![task.run].next = FALSE]
             /\ task.c # 0
             /\ \E snap : CopySuits(snap) /\
                  stack' = [stack EXCEPT ![Timer] = <<Frame(task.run, snap, <<Op("boot")>>)>>]
      <4>1. CopySuits(Load(task.run))
        BY TaskParts DEF Load, CopySuits, RunsSuit
      <4>2. CASE run[task.run].state = "RUNNING" /\ Len(node[task.run]) = task.c - 1
        <5>1. /\ node' = [node EXCEPT ![task.run] = Append(@, FreshNodes(task.run))]
              /\ run' = [run EXCEPT ![task.run].cycle = task.c, ![task.run].next = FALSE]
              /\ stack' = [stack EXCEPT ![Timer] =
                             <<Frame(task.run, Load(task.run), <<Op("boot")>>)>>]
          BY <2>4, <4>2 DEF FireCycle
        <5>2. task.c # 0
          <6>1. Len(node[task.run]) \in Nat /\ task.c \in Nat
            BY TaskParts, LenProperties DEF TypeOK, RunsOK, NodeRows
          <6> QED
            BY <4>2, <6>1
        <5> QED
          BY <4>1, <5>1, <5>2
      <4>3. CASE ~(run[task.run].state = "RUNNING" /\ Len(node[task.run]) = task.c - 1)
        BY <2>4, <4>3 DEF FireCycle
      <4> QED
        BY <4>2, <4>3
    <3>2. CASE UNCHANGED <<run, node, stack>>
      BY <1>b, <1>c, <1>d, <1>e, <1>r, <2>2, <3>2
    <3>3. CASE /\ node' = [node EXCEPT ![task.run] = Append(@, FreshNodes(task.run))]
               /\ run' = [run EXCEPT ![task.run].cycle = task.c, ![task.run].next = FALSE]
               /\ task.c # 0
               /\ \E snap : CopySuits(snap) /\
                    stack' = [stack EXCEPT ![Timer] = <<Frame(task.run, snap, <<Op("boot")>>)>>]
      <4>1. StacksSuit'
        <5>1. PICK snap : CopySuits(snap) /\
                stack' = [stack EXCEPT ![Timer] = <<Frame(task.run, snap, <<Op("boot")>>)>>]
          BY <3>3
        <5>2. Fit(task.run, <<Op("boot")>>)
          BY FitCalls, FitOps DEF Unattended, WaitOps
        <5>3. FrameSuits(Frame(task.run, snap, <<Op("boot")>>))
          BY <5>1, <5>2 DEF FrameSuits, Frame
        <5> QED
          BY <1>0, <5>1, <5>3, StartSuits
      <4>2. \A r \in Run : /\ run'[r].parent = run[r].parent
                           /\ run'[r].cycle = run[r].cycle \/ run'[r].cycle = task.c
        BY <1>0, <3>3 DEF RunRow
      <4>3. RunsSuit'
        BY <3>3, <4>2 DEF RunsSuit
      <4> QED
        BY <1>b, <1>c, <1>r, <2>2, <4>1, <4>3
    <3> QED
      BY <3>1, <3>2, <3>3
  <2> QED
    BY <1>1, <2>3, <2>4 DEF Fire
<1>2. ASSUME NEW i \in DOMAIN cmd, Result(i) \/ CommandFeedback(i) PROVE HandlersSuit'
  <2>1. UNCHANGED <<run, timer>>
    BY <1>2 DEF Result, CommandResult, CommandFeedback
  <2>2. \A j \in DOMAIN cmd : cmd[j] \in CommandRow
    BY <1>0, LenProperties
  <2>3. \/ \E state : cmd' = [cmd EXCEPT ![i].live = FALSE, ![i].state = state]
        \/ cmd' = [cmd EXCEPT ![i].fired = TRUE]
    BY <1>2 DEF Result, CommandResult, CommandFeedback
  <2>4. DOMAIN cmd' = DOMAIN cmd
        /\ \A j \in DOMAIN cmd : cmd'[j].run = cmd[j].run /\ cmd'[j].k = cmd[j].k
    <3>1. CASE \E state : cmd' = [cmd EXCEPT ![i].live = FALSE, ![i].state = state]
      <4>1. PICK state : cmd' = [cmd EXCEPT ![i].live = FALSE, ![i].state = state]
        BY <3>1
      <4> QED
        BY <2>2, <4>1 DEF CommandRow
    <3>2. CASE cmd' = [cmd EXCEPT ![i].fired = TRUE]
      BY <2>2, <3>2 DEF CommandRow
    <3> QED
      BY <2>3, <3>1, <3>2
  <2>5. CommandsSuit'
    BY <2>4 DEF CommandsSuit
  <2>6. \E calls : /\ Fit(cmd[i].run, calls)
                   /\ stack' = [stack EXCEPT ![Callback] =
                                  <<Frame(cmd[i].run, Load(cmd[i].run), calls)>>]
    <3>1. \A ok : Fit(cmd[i].run, <<WithOutcome(OnIndex("result", i), ok)>>)
      BY FitCalls, FitOps DEF Unattended, WaitOps
    <3>2. CASE Result(i)
      BY <3>1, <3>2 DEF Result, CommandResult
    <3>3. CASE CommandFeedback(i)
      BY <3>3, FitFollow DEF CommandFeedback
    <3> QED
      BY <1>2, <3>2, <3>3
  <2>7. StacksSuit'
    BY <1>0, <2>2, <2>6, FreshFrame, StartSuits DEF CommandRow
  <2> QED
    BY <1>c, <1>d, <1>r, <2>1, <2>5, <2>7
<1>3. ASSUME NEW h \in Http, HttpRequest(h) PROVE HandlersSuit'
  <2>1. UNCHANGED <<cmd, timer>>
    BY <1>3 DEF HttpRequest, StartManual, Cancel, DecideManual, InjectEvent, Request, db
  <2>2. CASE \E r \in Manual : StartManual(h, r)
    <3>1. PICK r \in Manual : StartManual(h, r)
      BY <2>2
    <3>2. /\ CreateWorkflowRun(r, NoParent) /\ r \in Run
          /\ stack' = [stack EXCEPT ![h] = <<Frame(r, Load(r), <<Op("boot")>>)>>]
      BY <3>1, ExecutorAssumption DEF StartManual, Request
    <3>4. StacksSuit'
      <4>1. Fit(r, <<Op("boot")>>)
        BY FitCalls, FitOps DEF Unattended, WaitOps
      <4> QED
        BY <1>0, <3>2, <4>1, FreshFrame, StartSuits
    <3>5. \A q \in Run : /\ run'[q].parent = IF q = r THEN NoParent ELSE run[q].parent
                         /\ run'[q].cycle = IF q = r THEN 1 ELSE run[q].cycle
      BY <1>0, <3>2 DEF CreateWorkflowRun
    <3>6. RunsSuit'
      BY <3>5 DEF RunsSuit
    <3> QED
      BY <1>b, <1>c, <1>r, <2>1, <3>4, <3>6
  <2>3. CASE \E r \in Cancellable : Cancel(h, r)
    <3>1. PICK r \in Run : Cancel(h, r)
      BY <2>3, ExecutorAssumption
    <3> DEFINE a == Op("cancelCommands")
               b == Op("cancelNodes")
               d == Op("cancelRun")
               e == NotifyParent(FALSE)
    <3>2. UNCHANGED run
      BY <3>1 DEF Cancel, db
    <3>3. PICK commands : stack' = [stack EXCEPT ![h] =
              <<Frame(r, [Load(r) EXCEPT !.commands = commands], <<a, b, d, e>>)>>]
      BY <3>1 DEF Cancel, Request
    <3>4. /\ CallSuits(r, a) /\ CallSuits(r, b) /\ CallSuits(r, d) /\ CallSuits(r, e)
      BY FitOps DEF Unattended, WaitOps, NotifyParent
    <3> HIDE DEF a, b, d, e
    <3>5. Fit(r, <<a, b, d, e>>)
      <4>1. FramesOf(<<a, b, d, e>>) = {a, b, d, e}
        BY DEF FramesOf
      <4>2. <<a, b, d, e>> \in Seq({a, b, d, e})
        OBVIOUS
      <4> QED
        BY <3>4, <4>1, <4>2 DEF Fit
    <3>6. FrameSuits(Frame(r, [Load(r) EXCEPT !.commands = commands], <<a, b, d, e>>))
      BY <1>0, <3>1, <3>5 DEF FrameSuits, Frame, Load, CopySuits, RunsSuit
    <3>7. StacksSuit'
      BY <1>0, <3>3, <3>6, StartSuits
    <3> QED
      BY <1>b, <1>c, <1>d, <1>r, <2>1, <3>2, <3>7
  <2>4. CASE \/ \E r \in Run : \E c \in DOMAIN node[r], k \in Key(r), ok \in BOOLEAN :
                  DecideManual(h, r, c, k, ok)
             \/ \E ev \in Events : InjectEvent(h, ev)
    <3>1. UNCHANGED run
      BY <2>4 DEF DecideManual, InjectEvent, db
    <3>2. \E r \in Run : \E calls : Fit(r, calls)
             /\ stack' = [stack EXCEPT ![h] = <<Frame(r, Load(r), calls)>>]
      <4>1. \A r, c, k, ok : Fit(r, <<WithOutcome(OnNode("decide", c, k), ok)>>)
        BY FitCalls, FitOps DEF Unattended, WaitOps
      <4>2. \A r, ev : Fit(r, <<[Op("inject") EXCEPT !.ev = ev]>>)
        <5>1. \A r, ev : CallSuits(r, [Op("inject") EXCEPT !.ev = ev])
          BY DEF CallSuits, Op, Unattended, WaitOps
        <5> QED
          BY <5>1, FitCalls
      <4>3. Events # {} => (CHOOSE r \in Run : TRUE) \in Run
        BY DEF Events
      <4> QED
        BY <2>4, <4>1, <4>2, <4>3 DEF DecideManual, InjectEvent, Request
    <3>3. StacksSuit'
      BY <1>0, <3>2, FreshFrame, StartSuits
    <3> QED
      BY <1>b, <1>c, <1>d, <1>r, <2>1, <3>1, <3>3
  <2> QED
    BY <1>3, <2>2, <2>3, <2>4 DEF HttpRequest
<1>4. ASSUME Restart PROVE HandlersSuit'
  <2>1. UNCHANGED run /\ DOMAIN timer' = {}
    BY <1>4, NoTasks DEF Restart
  <2>2. CommandsSuit'
    <3>1. \A j \in DOMAIN cmd : cmd[j] \in CommandRow
      BY <1>0, LenProperties
    <3>2. DOMAIN cmd' = DOMAIN cmd
          /\ \A j \in DOMAIN cmd : cmd'[j].run = cmd[j].run /\ cmd'[j].k = cmd[j].k
      BY <1>4, <3>1 DEF Restart, CommandRow
    <3> QED
      BY <3>2 DEF CommandsSuit
  <2>3. StacksSuit'
    <3>1. \A t \in Thread : FramesOf(stack'[t]) = {}
      BY <1>4 DEF Restart, FramesOf
    <3> QED
      BY <3>1 DEF StacksSuit, StackSuits
  <2> QED
    BY <1>c, <1>d, <1>r, <2>1, <2>2, <2>3
<1> QED
  BY <1>1, <1>2, <1>3, <1>4, <1>r

\* What the frames may hold stays so.
LEMMA HandlersStaySuited == Spec => []HandlersSuit
<1>1. Init => HandlersSuit
  <2> SUFFICES ASSUME Init PROVE HandlersSuit
    OBVIOUS
  <2>1. DOMAIN timer = {} /\ DOMAIN cmd = {} /\ \A r \in Run : DOMAIN node[r] = {}
    BY NoTasks DEF Init
  <2>2. \A t \in Thread : FramesOf(stack[t]) = {}
    BY DEF Init, FramesOf
  <2>3. \A r \in Run : run[r].parent = NoParent /\ run[r].cycle = 1
    BY DEF Init
  <2> QED
    BY <2>1, <2>2, <2>3
       DEF HandlersSuit, RowsSuit, StacksSuit, StackSuits, CommandsSuit, TasksSuit, RunsSuit
<1>2. TypeOK /\ HandlersSuit /\ [Next]_vars => HandlersSuit'
  <2> SUFFICES ASSUME TypeOK, HandlersSuit, [Next]_vars
               PROVE  HandlersSuit'
    OBVIOUS
  <2>1. CASE \E t \in Thread : Step(t)
    BY <2>1, StepRows, StepStacks, StepRest DEF HandlersSuit, RowsStay
  <2>2. CASE UNCHANGED vars
    BY <2>2 DEF vars, HandlersSuit, RowsSuit, StacksSuit, CommandsSuit, TasksSuit, RunsSuit
  <2> QED
    BY <2>1, <2>2, OtherSuits DEF Next
<1> QED
  BY <1>1, <1>2, Typing, PTL DEF Spec

\* A MANUAL_CONFIRM node is passed or failed by a recorded decision only, however
\* old the copies are that the handlers of its run work on: of all that the
\* executor calls, decideManualConfirmation alone addresses such a node to
\* complete or fail it, and it goes on to record that, unless the process dies.
THEOREM DecisionRecordedHolds == Spec => DecisionRecorded
<1>1. TypeOK /\ HandlersSuit /\ [Next]_vars
        => [Restart \/ Unrecorded' \subseteq Unrecorded]_vars
  <2>1. ASSUME TypeOK, HandlersSuit, Next
        PROVE  Restart \/ Unrecorded' \subseteq Unrecorded
    <3>1. CASE \E t \in Thread : Step(t)
      BY <2>1, <3>1, StepRows DEF RowsStay
    <3> QED
      BY <2>1, <3>1, OtherSuits DEF Next, RowsStay
  <2> QED
    BY <2>1
<1> QED
  BY <1>1, HandlersStaySuited, Typing, PTL DEF DecisionRecorded, Spec

-----------------------------------------------------------------------------
(* Ended runs: who writes the state of a run, and from which copy. *)

\* No node of the run saves context_data, and its first cycle is its last.
SinglePass(r) ==
  Graph[r].loop = 1 /\ \A k \in Key(r) : TypeOf(r, k) # "CONTEXT"

\* A copy of the first cycle or a later one is one of the last.
LEMMA OnlyCycle ==
  ASSUME TypeOK, HandlersSuit, NEW t \in Thread, ~Idle(t), SinglePass(RunOf(t))
  PROVE  LastCycle(RunOf(t), Snap(t))
<1>1. Snap(t).cycle # 0
  BY TopSuits DEF HandlersSuit, CopySuits
<1>2. Snap(t).cycle \in Nat
  BY CallParts DEF Snapshot
<1> QED
  BY <1>1, <1>2 DEF LastCycle, SinglePass

\* A thread that writes the state of a run of a single pass ends it.
LEMMA StepEnds ==
  ASSUME TypeOK, HandlersSuit, NEW t \in Thread, Step(t),
         NEW r \in Run, SinglePass(r), run[r].state \in Terminal
  PROVE  run'[r].state \in Terminal
<1>0. DOMAIN run = Run /\ \A s \in Run : run[s] \in RunRow(Attempts)
  BY DEF TypeOK, RunsOK
<1>a. ASSUME NEW s, NEW state, NEW snap, UpdateWorkflowRunState(s, state, snap),
             s = r => state \in Terminal
      PROVE  run'[r].state \in Terminal
  <2>1. run'[r].state = IF s = r THEN state ELSE run[r].state
    BY <1>0, <1>a DEF UpdateWorkflowRunState, RunRow
  <2> QED
    BY <1>a, <2>1
<1>b. ASSUME NEW s \in Run, NEW parent, CreateWorkflowRun(s, parent)
      PROVE  run'[r].state \in Terminal
  <2>1. s # r
    BY <1>b DEF CreateWorkflowRun, Terminal
  <2> QED
    BY <1>0, <1>b, <2>1 DEF CreateWorkflowRun
<1>1. CASE \/ CompleteNode(t) \/ FailNode(t) \/ TraverseEdge(t) \/ ActivateNode(t)
           \/ ExecuteWait(t) \/ ExecuteSubflow(t) \/ StoreOutput(t) \/ ExecuteDelay(t)
  BY <1>1 DEF CompleteNode, FailNode, TraverseEdge, ActivateNode, ExecuteWait,
              ExecuteSubflow, StoreOutput, ExecuteDelay
<1>2. CASE \/ ApplyResult(t) \/ ApplySshResult(t) \/ Notify(t)
           \/ ListWaiting(t) \/ WakeRun(t) \/ Bootstrap(t)
  <2>1. UNCHANGED db
    BY <1>2 DEF ApplyResult, ApplySshResult, ApplyTo, Notify, ListWaiting, WakeRun, Bootstrap
  <2> QED
    BY <2>1 DEF db
<1>3. CASE \/ RetryNode(t) \/ SettleSubflow(t) \/ CancelNode(t) \/ ScheduleRetry(t)
           \/ ApplyDecision(t) \/ RecordDecision(t)
  BY <1>3 DEF RetryNode, SettleSubflow, CancelNode, ScheduleRetry, ApplyDecision, RecordDecision
<1>4. CASE \/ SendCommand(t) \/ RefuseCommand(t) \/ MarkDispatched(t)
           \/ TopicPublished(t) \/ CancelCommand(t)
  BY <1>4 DEF SendCommand, RefuseCommand, MarkDispatched, TopicPublished, CancelCommand
<1>5. CASE DispatchCapability(t) \/ DispatchSsh(t) \/ DispatchNavigation(t)
  <2>1. \E tries : CreateCommand(t, tries)
    BY <1>5 DEF DispatchCapability, DispatchSsh, DispatchNavigation
  <2> QED
    BY <2>1 DEF CreateCommand
<1>6. CASE FailRun(t) \/ CancelRun(t) \/ FailWithoutStart(t) \/ MaybeFinishRun(t)
  <2>1. \/ UNCHANGED run
        \/ \E s, snap : \E state \in Terminal : UpdateWorkflowRunState(s, state, snap)
    BY <1>6 DEF FailRun, CancelRun, FailWithoutStart, MaybeFinishRun, Terminal
  <2> QED
    BY <1>a, <2>1
<1>7. CASE ExecuteContext(t)
  <2>1. Calls(t, "context") /\ UpdateWorkflowRunState(RunOf(t), Snap(t).state, Snap(t))
    BY <1>7 DEF ExecuteContext
  <2>2. TypeOf(RunOf(t), Call(t).k) = "CONTEXT" /\ Call(t).k \in Key(RunOf(t))
    BY <2>1, TopSuits, CallParts DEF HandlersSuit, CallSuits, Calls, KeyOps
  <2>3. RunOf(t) # r
    BY <2>2 DEF SinglePass
  <2> QED
    BY <1>a, <2>1, <2>3
<1>8. CASE FinishOrRepeat(t)
  <2>1. ~Idle(t)
    BY <1>8 DEF FinishOrRepeat, Calls
  <2>2. \/ UNCHANGED run
        \/ UpdateWorkflowRunState(RunOf(t), "SUCCEEDED", Snap(t))
        \/ /\ ~LastCycle(RunOf(t), Snap(t))
           /\ \E snap : UpdateWorkflowRunState(RunOf(t), "RUNNING", snap)
    BY <1>8 DEF FinishOrRepeat
  <2>3. CASE UpdateWorkflowRunState(RunOf(t), "SUCCEEDED", Snap(t))
    BY <1>a, <2>3 DEF Terminal
  <2>4. CASE /\ ~LastCycle(RunOf(t), Snap(t))
             /\ \E snap : UpdateWorkflowRunState(RunOf(t), "RUNNING", snap)
    <3>1. RunOf(t) # r
      BY <2>1, <2>4, OnlyCycle
    <3> QED
      BY <1>a, <2>4, <3>1
  <2> QED
    BY <2>2, <2>3, <2>4
<1>9. CASE SpawnChild(t) \/ StartByEvent(t)
  <2>1. UNCHANGED run \/ \E s \in Run : \E parent : CreateWorkflowRun(s, parent)
    <3>1. CASE SpawnChild(t)
      <4>1. Graph[RunOf(t)].node[Call(t).k].calls \subseteq Run
        BY <3>1, CallParts, NodeParts DEF NodeAttributes, SpawnChild, Calls, RowOps
      <4> QED
        BY <3>1, <4>1 DEF SpawnChild
    <3>2. CASE StartByEvent(t)
      BY <3>2 DEF StartByEvent
    <3> QED
      BY <1>9, <3>1, <3>2
  <2> QED
    BY <1>b, <2>1
<1> QED
  BY <1>1, <1>2, <1>3, <1>4, <1>5, <1>6, <1>7, <1>8, <1>9 DEF Step

\* Timer tasks, results, requests and restarts leave ended runs alone.
LEMMA OtherEnds ==
  ASSUME TypeOK, NEW r \in Run, run[r].state \in Terminal,
         \/ \E task \in DOMAIN timer : Fire(task)
         \/ \E i \in DOMAIN cmd : Result(i) \/ CommandFeedback(i)
         \/ \E h \in Http : HttpRequest(h)
         \/ Restart
  PROVE  run'[r].state \in Terminal
<1>0. DOMAIN run = Run /\ \A s \in Run : run[s] \in RunRow(Attempts)
  BY DEF TypeOK, RunsOK
<1>1. ASSUME NEW task \in DOMAIN timer, Fire(task)
      PROVE  run'[r].state \in Terminal
  <2>1. \/ UNCHANGED run
        \/ run' = [run EXCEPT ![task.run].cycle = task.c, ![task.run].next = FALSE]
    BY <1>1 DEF Fire, FireDelay, FireRetry, FireCycle
  <2> QED
    BY <1>0, <2>1 DEF RunRow
<1>2. ASSUME NEW i \in DOMAIN cmd, Result(i) \/ CommandFeedback(i)
      PROVE  run'[r].state \in Terminal
  BY <1>2 DEF Result, CommandResult, CommandFeedback
<1>3. ASSUME NEW h \in Http, HttpRequest(h)
      PROVE  run'[r].state \in Terminal
  <2>1. UNCHANGED run \/ \E s \in Run : CreateWorkflowRun(s, NoParent)
    BY <1>3, ExecutorAssumption
       DEF HttpRequest, StartManual, Cancel, DecideManual, InjectEvent, db
  <2>2. ASSUME NEW s \in Run, CreateWorkflowRun(s, NoParent)
        PROVE  run'[r].state \in Terminal
    <3>1. s # r
      BY <2>2 DEF CreateWorkflowRun, Terminal
    <3> QED
      BY <1>0, <2>2, <3>1 DEF CreateWorkflowRun
  <2> QED
    BY <2>1, <2>2
<1>4. CASE Restart
  BY <1>4 DEF Restart
<1> QED
  BY <1>1, <1>2, <1>3, <1>4

\* A run of a single pass stays ended, whatever runs beside it: of the handlers
\* that write the state of their copy back, updateRunContext and the END of an
\* earlier cycle are the only ones that can write RUNNING.
THEOREM SinglePassStaysEnded ==
  Spec => [][\A r \in Run : SinglePass(r) /\ run[r].state \in Terminal
                            => run'[r].state \in Terminal]_vars
<1>1. TypeOK /\ HandlersSuit /\ [Next]_vars
        => [\A r \in Run : SinglePass(r) /\ run[r].state \in Terminal
                           => run'[r].state \in Terminal]_vars
  BY StepEnds, OtherEnds DEF Next
<1> QED
  BY <1>1, Typing, HandlersStaySuited, PTL DEF Spec

\* Workflows without robot and station nodes and without further cycles end
\* once: no handler working on a copy of a running run brings an ended one back.
THEOREM EndedRunStaysEndedHolds ==
  ASSUME \A r \in Run : SinglePass(r)
  PROVE  Spec => EndedRunStaysEnded
<1>1. [\A r \in Run : SinglePass(r) /\ run[r].state \in Terminal
                      => run'[r].state \in Terminal]_vars
      => [\A r \in Run : run[r].state \in Terminal => run'[r].state \in Terminal]_vars
  OBVIOUS
<1> QED
  BY <1>1, SinglePassStaysEnded, PTL DEF EndedRunStaysEnded
=============================================================================
