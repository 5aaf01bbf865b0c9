----------------------- MODULE RobotConnection_proofs -----------------------
(***************************************************************************)
(* Proofs about a robot's connection, for any number of sessions, scans,   *)
(* changes and calls, and of threads that refresh or send commands at      *)
(* once: a session that was dropped does not sample the battery again, no  *)
(* service call is left pending, subscriptions survive, and a transport is *)
(* let go only where one session is installed over another.  From what     *)
(* order of the refreshes that only one transport is at work, that the     *)
(* last change of the row takes effect, and that the row tells the state   *)
(* of the connection.                                                      *)
(***************************************************************************)
EXTENDS RobotConnection, FiniteSetTheorems, TLAPS

\* Subscriptions and stop flags are kept for each session.
SubsOK ==
  /\ subs = [s \in Session |-> subs[s]]
  /\ battery_stop = [s \in Session |-> battery_stop[s]]

Quiet == SubsOK /\ DroppedIsQuiet

\* The call is one a scan waits for, or has given up and not yet forgotten.
Awaits(d, s, c) ==
  /\ scanner[d].pc \in {"wait", "forget"}
  /\ scanner[d].session = s /\ scanner[d].call = c

CallsOK ==
  /\ pending = [s \in Session |-> pending[s]]
  /\ scanner = [d \in Scanner |-> scanner[d]]
  /\ \A d \in Scanner : {"pc", "session", "call"} \subseteq DOMAIN scanner[d]
  /\ \A s \in Session : \A c \in pending[s] : \E d \in Scanner : Awaits(d, s, c)

-----------------------------------------------------------------------------
(* The battery *)

\* Only these steps change what a session subscribes to, or the stop flag.
LEMMA SubsUntouched ==
  ASSUME Next, ~ \E m \in Manager : StopSession(m), ~HandleSubscribe,
         ~ \E s \in Session : EndSample(s) \/ PollBattery(s)
  PROVE  UNCHANGED <<subs, battery_stop>>
<1>1. ASSUME NEW e, ChangeRow(e)
      PROVE  UNCHANGED <<subs, battery_stop>>
  BY <1>1 DEF ChangeRow, session
<1>2. ASSUME NEW m \in Manager, ManagerStep(m)
      PROVE  UNCHANGED <<subs, battery_stop>>
  BY <1>2 DEF ManagerStep, LoadRow, BeginCommand, Ensure, EraseSession, JoinTransport,
       OpenSession, Install, session
<1>3. ASSUME NEW d \in Scanner, ScannerStep(d)
      PROVE  UNCHANGED <<subs, battery_stop>>
  BY <1>3 DEF ScannerStep, BeginScan, CallService, Answered, GiveUp, Forget,
       MarkDisconnected, RequestReconnect, AwaitReconnect, CallSent,
       ForgetServiceCall, session, scanRest
<1>4. ASSUME HandleUp \/ HandleDown
      PROVE  UNCHANGED <<subs, battery_stop>>
  BY <1>4 DEF HandleUp, HandleDown
<1>5. ASSUME NEW s \in Session, TransportStep(s)
      PROVE  UNCHANGED <<subs, battery_stop>>
  BY <1>5 DEF TransportStep, session
<1>6. ASSUME NEW s \in Session, NEW c \in Call, Response(s, c)
      PROVE  UNCHANGED <<subs, battery_stop>>
  BY <1>6 DEF Response, HandleResponse
<1> QED
  BY <1>1, <1>2, <1>3, <1>4, <1>5, <1>6 DEF Next, StrandStep

LEMMA StopSessionQuiet ==
  ASSUME Quiet, NEW m \in Manager, StopSession(m)
  PROVE  Quiet'
<1> DEFINE v == manager[m].victim
<1>1. /\ battery_stop' = [battery_stop EXCEPT ![v] = TRUE]
      /\ subs' = [subs EXCEPT ![v] = subs[v] \ {"battery"}]
  BY DEF StopSession
<1> HIDE DEF v
<1>2. SubsOK'
  BY <1>1 DEF Quiet, SubsOK
<1>3. \A s \in Session :
        /\ battery_stop'[s] = IF s = v THEN TRUE ELSE battery_stop[s]
        /\ subs'[s] = IF s = v THEN subs[v] \ {"battery"} ELSE subs[s]
  BY <1>1 DEF Quiet, SubsOK
<1> QED
  BY <1>2, <1>3 DEF Quiet, DroppedIsQuiet

LEMMA HandleSubscribeQuiet ==
  ASSUME Quiet, HandleSubscribe
  PROVE  Quiet'
<1> DEFINE v == Head(strand).session
           topics == IF battery_stop[v] THEN {"pose"} ELSE {"pose", "battery"}
<1>1. /\ subs' = [subs EXCEPT ![v] = subs[v] \cup topics]
      /\ UNCHANGED battery_stop
  BY DEF HandleSubscribe, Subscribe
<1>2. "battery" \in topics => ~battery_stop[v]
  OBVIOUS
<1> HIDE DEF v, topics
<1>3. SubsOK'
  BY <1>1 DEF Quiet, SubsOK
<1>4. \A s \in Session : subs'[s] = IF s = v THEN subs[v] \cup topics ELSE subs[s]
  BY <1>1 DEF Quiet, SubsOK
<1> QED
  BY <1>1, <1>2, <1>3, <1>4 DEF Quiet, DroppedIsQuiet

LEMMA SampleQuiet ==
  ASSUME Quiet, NEW v \in Session, EndSample(v) \/ PollBattery(v)
  PROVE  Quiet'
<1>1. /\ UNCHANGED battery_stop
      /\ \/ subs' = [subs EXCEPT ![v] = subs[v] \ {"battery"}]
         \/ /\ subs' = [subs EXCEPT ![v] = subs[v] \cup {"battery"}]
            /\ ~battery_stop[v]
  BY DEF EndSample, PollBattery, Polls, Subscribe, Unsubscribe
<1>2. SubsOK'
  BY <1>1 DEF Quiet, SubsOK
<1>3. \A s \in Session :
        /\ s # v => subs'[s] = subs[s]
        /\ battery_stop[v] => subs'[v] = subs[v] \ {"battery"}
  BY <1>1 DEF Quiet, SubsOK
<1> QED
  BY <1>1, <1>2, <1>3 DEF Quiet, DroppedIsQuiet

\* A session that was dropped never samples the battery again, although its
\* delayed poll and its first task may still be due on the robot's strand.
THEOREM DroppedStaysQuiet == Spec => []DroppedIsQuiet
<1>1. Init => Quiet
  BY DEF Init, Quiet, SubsOK, DroppedIsQuiet
<1>2. Quiet /\ [Next]_vars => Quiet'
  <2> SUFFICES ASSUME Quiet, [Next]_vars PROVE Quiet'
    OBVIOUS
  <2>1. CASE \E m \in Manager : StopSession(m)
    BY <2>1, StopSessionQuiet
  <2>2. CASE HandleSubscribe
    BY <2>2, HandleSubscribeQuiet
  <2>3. CASE \E s \in Session : EndSample(s) \/ PollBattery(s)
    BY <2>3, SampleQuiet
  <2>4. CASE UNCHANGED <<subs, battery_stop>>
    BY <2>4 DEF Quiet, SubsOK, DroppedIsQuiet
  <2>5. CASE UNCHANGED vars
    BY <2>4, <2>5 DEF vars, session
  <2> QED
    BY <2>1, <2>2, <2>3, <2>4, <2>5, SubsUntouched
<1>3. Quiet => DroppedIsQuiet
  BY DEF Quiet
<1> QED
  BY <1>1, <1>2, <1>3, PTL DEF Spec

-----------------------------------------------------------------------------
(* Service calls *)


\* A scan that goes on keeps the fields of its record.
LEMMA AfterCallFields ==
  ASSUME NEW rec, {"pc", "session", "call"} \subseteq DOMAIN rec, NEW timedOut
  PROVE  {"pc", "session", "call"} \subseteq DOMAIN AfterCall(rec, timedOut)
<1>1. DOMAIN AfterCall(rec, timedOut) \in {DOMAIN rec, DOMAIN NoScan}
  BY DEF AfterCall
<1>2. {"pc", "session", "call"} \subseteq DOMAIN NoScan
  BY DEF NoScan
<1> QED
  BY <1>1, <1>2

\* A step that adds no pending call and moves only a scan whose call is not
\* pending.
LEMMA CallsKept ==
  ASSUME CallsOK, NEW d \in Scanner, NEW rec, scanner' = [scanner EXCEPT ![d] = rec],
         {"pc", "session", "call"} \subseteq DOMAIN rec,
         pending' = [s \in Session |-> pending'[s]],
         \A s \in Session : pending'[s] \subseteq pending[s],
         ScanAt(d, "wait") \/ ScanAt(d, "forget") =>
           \A s \in Session :
             s = scanner[d].session => scanner[d].call \notin pending'[s]
  PROVE  CallsOK'
<1>1. /\ scanner' = [e \in Scanner |-> scanner'[e]]
      /\ \A e \in Scanner : e # d => scanner'[e] = scanner[e]
      /\ \A e \in Scanner : {"pc", "session", "call"} \subseteq DOMAIN scanner'[e]
  BY DEF CallsOK
<1>2. ASSUME NEW s \in Session, NEW c \in pending'[s]
      PROVE  \E e \in Scanner : Awaits(e, s, c)'
  <2>1. PICK e \in Scanner : Awaits(e, s, c)
    BY <1>2 DEF CallsOK
  <2>2. e # d
    BY <1>2, <2>1 DEF Awaits, ScanAt
  <2> QED
    BY <1>1, <2>1, <2>2 DEF Awaits
<1> QED
  BY <1>1, <1>2 DEF CallsOK

\* A call is sent, and its scan waits for it.
LEMMA CallSentKeeps ==
  ASSUME CallsOK, NEW d \in Scanner, ScanAt(d, "call"), NEW c \in Call,
         CallSent(scanner[d].session, c),
         Scan(d, [scanner[d] EXCEPT !.pc = "wait", !.call = c])
  PROVE  CallsOK'
<1> DEFINE v == scanner[d].session
           rec == [scanner[d] EXCEPT !.pc = "wait", !.call = c]
<1>1. /\ scanner' = [scanner EXCEPT ![d] = rec]
      /\ pending' = [pending EXCEPT ![v] = pending[v] \cup {c}]
  BY DEF Scan, CallSent
<1>2. /\ rec.pc = "wait" /\ rec.call = c /\ rec.session = v
      /\ {"pc", "session", "call"} \subseteq DOMAIN rec
  BY DEF CallsOK
<1> HIDE DEF rec, v
<1>3. /\ scanner' = [e \in Scanner |-> scanner'[e]] /\ scanner'[d] = rec
      /\ \A e \in Scanner : e # d => scanner'[e] = scanner[e]
      /\ \A e \in Scanner : {"pc", "session", "call"} \subseteq DOMAIN scanner'[e]
  BY <1>1, <1>2 DEF CallsOK
<1>4. /\ pending' = [s \in Session |-> pending'[s]]
      /\ \A s \in Session :
           pending'[s] = IF s = v THEN pending[v] \cup {c} ELSE pending[s]
  BY <1>1 DEF CallsOK
<1>5. ASSUME NEW s \in Session, NEW b \in pending'[s]
      PROVE  \E e \in Scanner : Awaits(e, s, b)'
  <2>1. CASE s = v /\ b = c
    BY <1>2, <1>3, <2>1 DEF Awaits
  <2>2. CASE b \in pending[s]
    <3>1. PICK e \in Scanner : Awaits(e, s, b)
      BY <2>2 DEF CallsOK
    <3>2. e # d
      BY <3>1 DEF Awaits, ScanAt
    <3> QED
      BY <1>3, <3>1, <3>2 DEF Awaits
  <2> QED
    BY <1>4, <1>5, <2>1, <2>2
<1> QED
  BY <1>3, <1>4, <1>5 DEF CallsOK

\* A scan gives up waiting: its call is pending until it is forgotten.
LEMMA GiveUpKeeps ==
  ASSUME CallsOK, NEW d \in Scanner, GiveUp(d)
  PROVE  CallsOK'
<1> DEFINE rec == [scanner[d] EXCEPT !.pc = "forget"]
<1>1. scanner' = [scanner EXCEPT ![d] = rec] /\ pending' = pending
  BY DEF GiveUp, Scan, session
<1>2. /\ rec.pc = "forget" /\ rec.call = scanner[d].call
      /\ rec.session = scanner[d].session
      /\ {"pc", "session", "call"} \subseteq DOMAIN rec
  BY DEF CallsOK
<1> HIDE DEF rec
<1>3. /\ scanner' = [e \in Scanner |-> scanner'[e]] /\ scanner'[d] = rec
      /\ \A e \in Scanner : e # d => scanner'[e] = scanner[e]
      /\ \A e \in Scanner : {"pc", "session", "call"} \subseteq DOMAIN scanner'[e]
  BY <1>1, <1>2 DEF CallsOK
<1>4. \A e \in Scanner : \A s, b : Awaits(e, s, b) => Awaits(e, s, b)'
  BY <1>2, <1>3 DEF Awaits
<1> QED
  BY <1>1, <1>3, <1>4 DEF CallsOK

\* A call that got no answer is forgotten, and its scan goes on.
LEMMA ForgetKeeps ==
  ASSUME CallsOK, NEW d \in Scanner, Forget(d)
  PROVE  CallsOK'
<1> DEFINE v == scanner[d].session  c == scanner[d].call
           rec == AfterCall(scanner[d], TRUE)
<1>1. /\ scanner' = [scanner EXCEPT ![d] = rec]
      /\ pending' = [pending EXCEPT ![v] = pending[v] \ {c}]
  BY DEF Forget, ForgetServiceCall, Scan
<1>2. {"pc", "session", "call"} \subseteq DOMAIN rec
  BY AfterCallFields DEF CallsOK
<1> HIDE DEF rec
<1>3. /\ pending' = [s \in Session |-> pending'[s]]
      /\ \A s \in Session : pending'[s] \subseteq pending[s]
      /\ \A s \in Session : s = v => c \notin pending'[s]
  BY <1>1 DEF CallsOK
<1> QED
  BY <1>1, <1>2, <1>3, CallsKept

\* The other steps of a scan leave no call behind.
LEMMA ScansKeep ==
  ASSUME CallsOK, NEW d \in Scanner, ScannerStep(d)
  PROVE  CallsOK'
<1>0. /\ pending = [s \in Session |-> pending[s]]
      /\ {"pc", "session", "call"} \subseteq DOMAIN scanner[d]
      /\ {"pc", "session", "call"} \subseteq DOMAIN NoScan
  BY DEF CallsOK, NoScan
<1>1. ASSUME NEW rec, Scan(d, rec), pending' = pending, NEW pc,
             ScanAt(d, pc), pc \notin {"wait", "forget"},
             {"pc", "session", "call"} \subseteq DOMAIN rec
      PROVE  CallsOK'
  BY <1>0, <1>1, CallsKept DEF Scan, ScanAt
<1>2. ASSUME scanner' = scanner, pending' = pending
      PROVE  CallsOK'
  BY <1>2 DEF CallsOK, Awaits
<1>3. CASE BeginScan(d)
  <2>1. pending' = pending /\ ScanAt(d, "idle")
    BY <1>3 DEF BeginScan, session
  <2>2. \/ Scan(d, [NoScan EXCEPT !.pc = "call", !.session = installed])
        \/ scanner' = scanner
    BY <1>3 DEF BeginScan
  <2> QED
    BY <1>0, <1>1, <1>2, <2>1, <2>2
<1>4. CASE CallService(d)
  <2>1. ScanAt(d, "call")
    BY <1>4 DEF CallService
  <2>2. \/ \E c \in Call : /\ CallSent(scanner[d].session, c)
                           /\ Scan(d, [scanner[d] EXCEPT !.pc = "wait", !.call = c])
        \/ Scan(d, AfterCall(scanner[d], TRUE)) /\ pending' = pending
    BY <1>4 DEF CallService, session
  <2> QED
    BY <1>0, <1>1, <2>1, <2>2, AfterCallFields, CallSentKeeps, ZenonT(30)
<1>5. CASE Answered(d)
  <2>1. /\ scanner' = [scanner EXCEPT ![d] = AfterCall(scanner[d], FALSE)]
        /\ pending' = pending
        /\ scanner[d].call \notin pending[scanner[d].session]
    BY <1>5 DEF Answered, Scan, session
  <2>2. /\ pending' = [s \in Session |-> pending'[s]]
        /\ \A s \in Session : pending'[s] \subseteq pending[s]
        /\ \A s \in Session :
             s = scanner[d].session => scanner[d].call \notin pending'[s]
    BY <1>0, <2>1
  <2> DEFINE rec == AfterCall(scanner[d], FALSE)
  <2>3. /\ {"pc", "session", "call"} \subseteq DOMAIN rec
        /\ scanner' = [scanner EXCEPT ![d] = rec]
    BY <1>0, <2>1, AfterCallFields
  <2> HIDE DEF rec
  <2> QED
    BY <2>2, <2>3, CallsKept
<1>6. CASE MarkDisconnected(d)
  BY <1>0, <1>1, <1>6 DEF MarkDisconnected, session
<1>7. CASE RequestReconnect(d)
  BY <1>0, <1>1, <1>7 DEF RequestReconnect, session
<1>8. CASE AwaitReconnect(d)
  <2>1. pending' = pending /\ ScanAt(d, "await")
    BY <1>8 DEF AwaitReconnect, session
  <2>2. \/ Scan(d, [NoScan EXCEPT !.pc = "call", !.again = TRUE,
                                  !.session = scanner[d].session])
        \/ Scan(d, NoScan)
    BY <1>8 DEF AwaitReconnect
  <2> QED
    BY <1>0, <1>1, <2>1, <2>2, ZenonT(30)
<1> QED
  BY <1>3, <1>4, <1>5, <1>6, <1>7, <1>8, GiveUpKeeps, ForgetKeeps DEF ScannerStep

\* An answer that arrives only ends a wait.
LEMMA ResponseKeeps ==
  ASSUME CallsOK, NEW v \in Session, NEW b \in Call, Response(v, b)
  PROVE  CallsOK'
<1>1. /\ scanner' = scanner
      /\ pending' = [pending EXCEPT ![v] = pending[v] \ {b}]
  BY DEF Response, HandleResponse, threads
<1>2. /\ pending' = [s \in Session |-> pending'[s]]
      /\ \A s \in Session : pending'[s] \subseteq pending[s]
  BY <1>1 DEF CallsOK
<1> QED
  BY <1>1, <1>2 DEF CallsOK, Awaits

\* No other step sends a call or moves a scan.
LEMMA CallsUntouched ==
  ASSUME Next, ~ \E d \in Scanner : ScannerStep(d),
         ~ \E s \in Session, c \in Call : Response(s, c)
  PROVE  UNCHANGED <<pending, scanner>>
<1>1. ASSUME NEW e, ChangeRow(e)
      PROVE  UNCHANGED <<pending, scanner>>
  BY <1>1 DEF ChangeRow, session, threads
<1>2. ASSUME NEW m \in Manager, ManagerStep(m)
      PROVE  UNCHANGED <<pending, scanner>>
  BY <1>2 DEF ManagerStep, LoadRow, BeginCommand, Ensure, EraseSession, StopSession,
       JoinTransport, OpenSession, Install, session
<1>3. ASSUME StrandStep
      PROVE  UNCHANGED <<pending, scanner>>
  BY <1>3 DEF StrandStep, HandleUp, HandleDown, HandleSubscribe, threads
<1>4. ASSUME NEW s \in Session, TransportStep(s) \/ EndSample(s) \/ PollBattery(s)
      PROVE  UNCHANGED <<pending, scanner>>
  BY <1>4 DEF TransportStep, EndSample, PollBattery, session, threads
<1> QED
  BY <1>1, <1>2, <1>3, <1>4 DEF Next

\* A service call that no thread waits for is not pending, whichever of its
\* answer and the end of the wait comes first.
THEOREM NoCallLeftPending == Spec => []PendingHasCaller
<1>1. Init => CallsOK
  BY DEF Init, CallsOK, NoScan
<1>2. CallsOK /\ [Next]_vars => CallsOK'
  <2> SUFFICES ASSUME CallsOK, [Next]_vars PROVE CallsOK'
    OBVIOUS
  <2>1. CASE \E d \in Scanner : ScannerStep(d)
    BY <2>1, ScansKeep
  <2>2. CASE \E s \in Session, c \in Call : Response(s, c)
    BY <2>2, ResponseKeeps
  <2>3. CASE UNCHANGED <<pending, scanner>>
    BY <2>3 DEF CallsOK, Awaits
  <2>4. CASE UNCHANGED vars
    BY <2>3, <2>4 DEF vars, session, threads
  <2> QED
    BY <2>1, <2>2, <2>3, <2>4, CallsUntouched
<1>3. CallsOK => PendingHasCaller
  BY DEF CallsOK, Awaits, PendingHasCaller
<1> QED
  BY <1>1, <1>2, <1>3, PTL DEF Spec

-----------------------------------------------------------------------------
(* What moves a transport *)

Fields == {"pc", "stop", "connected", "ws", "alive", "closing", "leftover", "peer"}
Tasks == [kind : {"up", "down", "subscribe"}, session : Session]

\* The records of transports, sessions and refreshes have their fields.
ShapeOK ==
  /\ transport = [s \in Session |-> transport[s]]
  /\ \A s \in Session : Fields \subseteq DOMAIN transport[s]
  /\ state = [s \in Session |-> state[s]]
  /\ \A s \in Session : state[s] \in State \ {"Disabled"}
  /\ subs = [s \in Session |-> subs[s]]
  /\ strand \in Seq(Tasks)
  /\ manager = [m \in Manager |-> manager[m]]
  /\ \A m \in Manager :
       /\ {"pc", "want", "victim"} \subseteq DOMAIN manager[m]
       /\ manager[m].pc \in {"stop", "join", "install"} =>
            manager[m].victim \in Session
  /\ installed \in Session \cup {NoSession}

\* A worker's step: it announces the connection, reports the end of a cycle,
\* or goes on in silence.
Move(v) ==
  LET t == transport[v]  u == transport'[v] IN
    /\ transport' = [s \in Session |-> transport'[s]]
    /\ Fields \subseteq DOMAIN u
    /\ \A s \in Session : s # v => transport'[s] = transport[s]
    /\ u.stop = t.stop
    /\ t.pc \notin {"idle", "exited"} /\ u.pc # "idle"
    /\ u.pc = "exited" => t.stop
    /\ u.pc \in {"connect", "announce", "read"} =>
         \/ u.ws
         \/ u.ws = t.ws /\ t.pc \in {"connect", "announce", "read"}
    /\ \/ /\ t.pc = "announce" /\ u.pc = "read" /\ u.connected
          /\ strand' = Append(strand, Task("up", v))
       \/ /\ t.pc = "ended" /\ u.pc \in {"start", "exited"}
          /\ strand' = Append(strand, Task("down", v))
       \/ /\ strand' = strand
          /\ u.pc = "read" =>
               /\ t.pc = "read" /\ u.connected = t.connected
               /\ u.closing = t.closing /\ u.peer = t.peer
               /\ u.alive => t.alive
          /\ t.pc = "read" => u.pc \in {"read", "ended"}
          /\ t.pc # "ended"

LEMMA TransportMoves ==
  ASSUME ShapeOK, NEW v \in Session, TransportStep(v),
         transport[v].pc = "read" => transport[v].ws
  PROVE  Move(v)
<1>1. /\ Fields \subseteq DOMAIN transport[v]
      /\ transport = [s \in Session |-> transport[s]]
  BY DEF ShapeOK
<1>2. CASE BeginCycle(v)
  BY <1>1, <1>2 DEF BeginCycle, Go, Move, Fields
<1>3. CASE Resolved(v)
  BY <1>1, <1>3 DEF Resolved, Busy, Move, Fields
<1>4. CASE Handshaken(v)
  BY <1>1, <1>4 DEF Handshaken, Busy, Go, Move, Fields
<1>5. CASE Announce(v)
  BY <1>1, <1>5 DEF Announce, PostStrand, Move, Fields
<1>6. CASE GoSilent(v)
  BY <1>1, <1>6 DEF GoSilent, Busy, Move, Fields
<1>7. CASE Fail(v)
  BY <1>1, <1>7 DEF Fail, Cycle, Go, Move, Fields
<1>8. CASE TimeOutConnection(v)
  BY <1>1, <1>8 DEF TimeOutConnection, Move, Fields
<1>9. CASE RunLeftover(v)
  BY <1>1, <1>9, ZenonT(30) DEF RunLeftover, Move, Fields
<1>10. CASE RunClose(v)
  BY <1>1, <1>10 DEF RunClose, Cycle, Move, Fields
<1>11. CASE Interrupt(v)
  BY <1>1, <1>11 DEF Interrupt, Cycle, Go, Move, Fields
<1>12. CASE EndCycle(v)
  BY <1>1, <1>12 DEF EndCycle, Ended, NewTransport, ReportEnd, PostStrand, Move, Fields
<1> QED
  BY <1>2, <1>3, <1>4, <1>5, <1>6, <1>7, <1>8, <1>9, <1>10, <1>11, <1>12
     DEF TransportStep, Network, Worker

-----------------------------------------------------------------------------
(* The strand *)

\* A connection of the session is still to be handled.
UpDue(q, s) == \E i \in 1..Len(q) : q[i] = Task("up", s)

\* Every loss of the session's connection is followed by a connection.
Followed(q, s) ==
  \A i \in 1..Len(q) :
    q[i] = Task("down", s) => \E j \in 1..Len(q) : i < j /\ q[j] = Task("up", s)

LEMMA AppendFacts ==
  ASSUME NEW q \in Seq(Tasks), NEW k \in Tasks, NEW s
  PROVE  /\ Append(q, k) \in Seq(Tasks)
         /\ UpDue(q, s) => UpDue(Append(q, k), s)
         /\ k = Task("up", s) =>
              UpDue(Append(q, k), s) /\ Followed(Append(q, k), s)
         /\ k # Task("down", s) /\ Followed(q, s) => Followed(Append(q, k), s)
<1> DEFINE r == Append(q, k)  n == Len(q)
<1>1. /\ r \in Seq(Tasks) /\ Len(r) = n + 1 /\ n \in Nat /\ r[n + 1] = k
      /\ \A i \in 1..n : r[i] = q[i]
  OBVIOUS
<1> HIDE DEF r, n
<1>2. \A i \in 1..Len(r) : i = n + 1 \/ i \in 1..n
  BY <1>1
<1>3. ASSUME UpDue(q, s) PROVE UpDue(r, s)
  BY <1>1, <1>3 DEF UpDue, n
<1>4. ASSUME k = Task("up", s) PROVE UpDue(r, s) /\ Followed(r, s)
  <2>1. n + 1 \in 1..Len(r) /\ r[n + 1] = Task("up", s)
    BY <1>1, <1>4
  <2>2. Task("up", s) # Task("down", s)
    BY DEF Task
  <2> QED
    BY <1>1, <1>2, <2>1, <2>2 DEF UpDue, Followed
<1>5. ASSUME k # Task("down", s), Followed(q, s) PROVE Followed(r, s)
  <2> SUFFICES ASSUME NEW i \in 1..Len(r), r[i] = Task("down", s)
               PROVE  \E j \in 1..Len(r) : i < j /\ r[j] = Task("up", s)
    BY DEF Followed
  <2>1. i \in 1..n /\ q[i] = Task("down", s)
    BY <1>1, <1>2, <1>5
  <2>2. PICK j \in 1..n : i < j /\ q[j] = Task("up", s)
    BY <1>5, <2>1 DEF Followed, n
  <2> QED
    BY <1>1, <2>2, SMTT(30)
<1> QED
  BY <1>1, <1>3, <1>4, <1>5 DEF r

LEMMA TailFacts ==
  ASSUME NEW q \in Seq(Tasks), q # << >>, NEW s
  PROVE  /\ Tail(q) \in Seq(Tasks) /\ Head(q) \in Tasks
         /\ Head(q) = Task(Head(q).kind, Head(q).session)
         /\ Followed(q, s) => Followed(Tail(q), s)
         /\ Head(q) # Task("up", s) /\ UpDue(q, s) => UpDue(Tail(q), s)
         /\ Head(q) = Task("down", s) /\ Followed(q, s) => UpDue(Tail(q), s)
<1> DEFINE r == Tail(q)  n == Len(r)
<1>1. /\ r \in Seq(Tasks) /\ Len(q) = n + 1 /\ n \in Nat /\ q[1] = Head(q)
      /\ \A i \in 1..n : r[i] = q[i + 1]
      /\ Head(q) \in Tasks
  OBVIOUS
<1>2. \A h \in Tasks : h = Task(h.kind, h.session)
  BY DEF Tasks, Task
<1> HIDE DEF r, n
<1>3. \A j \in 1..Len(q) : j # 1 => (j - 1 \in 1..n /\ r[j - 1] = q[j])
  <2> SUFFICES ASSUME NEW j \in 1..Len(q), j # 1
               PROVE  j - 1 \in 1..n /\ r[j - 1] = q[j]
    OBVIOUS
  <2>1. j - 1 \in 1..n /\ j = (j - 1) + 1
    BY <1>1
  <2> QED
    BY <1>1, <2>1
<1>4. ASSUME Followed(q, s) PROVE Followed(r, s)
  <2> SUFFICES ASSUME NEW i \in 1..Len(r), r[i] = Task("down", s)
               PROVE  \E j \in 1..Len(r) : i < j /\ r[j] = Task("up", s)
    BY DEF Followed
  <2>1. i + 1 \in 1..Len(q) /\ q[i + 1] = Task("down", s)
    BY <1>1 DEF n
  <2>2. PICK j \in 1..Len(q) : i + 1 < j /\ q[j] = Task("up", s)
    BY <1>4, <2>1 DEF Followed
  <2>3. j - 1 \in 1..n /\ r[j - 1] = q[j] /\ i < j - 1
    BY <1>1, <1>3, <2>2
  <2> QED
    BY <2>2, <2>3 DEF n
<1>5. ASSUME Head(q) # Task("up", s), UpDue(q, s) PROVE UpDue(r, s)
  BY <1>1, <1>3, <1>5 DEF UpDue, n
<1>6. ASSUME Head(q) = Task("down", s), Followed(q, s) PROVE UpDue(r, s)
  <2>1. PICK j \in 1..Len(q) : 1 < j /\ q[j] = Task("up", s)
    BY <1>1, <1>6 DEF Followed
  <2> QED
    BY <1>1, <1>3, <2>1 DEF UpDue, n
<1> QED
  BY <1>1, <1>2, <1>4, <1>5, <1>6 DEF r

-----------------------------------------------------------------------------
(* Subscriptions *)

\* A connection in use is known to be one, unless it is about to be closed,
\* and the strand has been told of it.
Wired(s) ==
  /\ transport[s].pc \in {"connect", "announce", "read"} => transport[s].ws
  /\ transport[s].pc = "read" =>
       transport[s].connected \/ transport[s].stop \/ transport[s].closing
  /\ transport[s].pc = "read" => Followed(strand, s)

\* The robot serves what the session counts on once the strand has handled the
\* connection.
Restored(s) ==
  /\ transport[s].pc = "read" /\ transport[s].alive
  /\ ~UpDue(strand, s) /\ ~transport[s].stop /\ ~transport[s].closing
  => state[s] = "Online" /\ subs[s] \subseteq transport[s].peer

\* A transport that was told to stop is waited for until its worker is gone.
StopJoined ==
  \A s \in Live : transport[s].stop =>
    \E m \in Manager : manager[m].pc = "join" /\ manager[m].victim = s

SubsInv ==
  /\ ShapeOK /\ StopJoined
  /\ \A s \in Session : Wired(s) /\ Restored(s)

\* A session whose connection and subscriptions a step leaves alone.
LEMMA SessionKept ==
  ASSUME NEW s, Wired(s), Restored(s),
         transport'[s] = transport[s], state'[s] = state[s], subs'[s] = subs[s],
         Followed(strand, s) => Followed(strand', s),
         UpDue(strand, s) => UpDue(strand', s)
  PROVE  Wired(s)' /\ Restored(s)'
BY DEF Wired, Restored

LEMMA MoveKeepsSubs ==
  ASSUME SubsInv, NEW v \in Session, Move(v),
         UNCHANGED <<state, subs, manager, installed>>
  PROVE  SubsInv'
<1> DEFINE t == transport[v]  u == transport'[v]
<1>0. ShapeOK /\ Wired(v) /\ Restored(v)
  BY DEF SubsInv
<1>1. /\ Task("up", v) \in Tasks /\ Task("down", v) \in Tasks
      /\ Task("up", v) # Task("down", v)
      /\ \A s : s # v => Task("down", v) # Task("down", s)
      /\ \A s : Task("up", v) # Task("down", s)
  BY DEF Task, Tasks
<1>2. strand' \in Seq(Tasks)
  BY <1>0, <1>1, AppendFacts DEF Move, ShapeOK
<1>3. ShapeOK'
  BY <1>0, <1>2 DEF Move, ShapeOK
<1>4. StopJoined'
  BY DEF Move, StopJoined, SubsInv, Live
<1>5. ASSUME NEW s \in Session, s # v PROVE Wired(s)' /\ Restored(s)'
  <2>1. Wired(s) /\ Restored(s) /\ transport'[s] = transport[s]
    BY <1>5 DEF SubsInv, Move
  <2>2. PICK k \in Tasks : /\ strand' = strand \/ strand' = Append(strand, k)
                           /\ k # Task("down", s)
    BY <1>1, <1>5 DEF Move
  <2>3. /\ Followed(strand, s) => Followed(strand', s)
        /\ UpDue(strand, s) => UpDue(strand', s)
    BY <1>0, <2>2, AppendFacts, ZenonT(30) DEF ShapeOK
  <2> QED
    BY <2>1, <2>3, SessionKept
<1>6. Wired(v)' /\ Restored(v)'
  <2>1. CASE /\ t.pc = "announce" /\ u.pc = "read" /\ u.connected
             /\ strand' = Append(strand, Task("up", v))
    <3>1. UpDue(strand', v) /\ Followed(strand', v)
      BY <1>0, <1>1, <2>1, AppendFacts DEF ShapeOK
    <3> QED
      BY <1>0, <2>1, <3>1 DEF Move, Wired, Restored
  <2>2. CASE u.pc # "read"
    BY <1>0, <2>2 DEF Move, Wired, Restored
  <2>3. CASE /\ strand' = strand
             /\ u.pc = "read" =>
                  /\ t.pc = "read" /\ u.connected = t.connected
                  /\ u.closing = t.closing /\ u.peer = t.peer
                  /\ u.alive => t.alive
    BY <1>0, <2>3 DEF Move, Wired, Restored
  <2> QED
    BY <2>1, <2>2, <2>3 DEF Move
<1> QED
  BY <1>3, <1>4, <1>5, <1>6 DEF SubsInv

\* What one session's operation under its mutex does: it may add or drop
\* topics, which the robot is told of if it can be reached, move the state of
\* the connection, or mark the transport.
Touched(v) ==
  /\ transport' = [s \in Session |-> transport'[s]]
  /\ subs' = [s \in Session |-> subs'[s]]
  /\ state' = [s \in Session |-> state'[s]]
  /\ state'[v] \in State \ {"Disabled"}
  /\ Fields \subseteq DOMAIN transport'[v]
  /\ transport'[v].pc = transport[v].pc
  /\ \A s \in Session : s # v => /\ transport'[s] = transport[s]
                                 /\ subs'[s] = subs[s] /\ state'[s] = state[s]

LEMMA TouchedKeepsSubs ==
  ASSUME SubsInv, NEW v \in Session, Touched(v), UNCHANGED <<manager, installed>>,
         transport'[v].stop = transport[v].stop,
         strand' \in Seq(Tasks), Wired(v)', Restored(v)',
         \A s \in Session : s # v =>
           /\ Followed(strand, s) => Followed(strand', s)
           /\ UpDue(strand, s) => UpDue(strand', s)
  PROVE  SubsInv'
<1>1. ShapeOK'
  BY DEF SubsInv, ShapeOK, Touched
<1>2. StopJoined'
  BY DEF SubsInv, StopJoined, Touched, Live
<1>3. ASSUME NEW s \in Session PROVE Wired(s)' /\ Restored(s)'
  BY SessionKept DEF SubsInv, Touched
<1> QED
  BY <1>1, <1>2, <1>3 DEF SubsInv

\* Subscribing keeps the promise: what is added is served at once, or will be
\* when the connection is handled.
LEMMA SubscribeTouches ==
  ASSUME SubsInv, NEW v \in Session, NEW topics, Subscribe(v, topics),
         UNCHANGED state,
         Followed(strand, v) => Followed(strand', v),
         UpDue(strand, v) => UpDue(strand', v)
  PROVE  /\ Touched(v) /\ Wired(v)' /\ Restored(v)'
         /\ transport'[v].stop = transport[v].stop
<1>1. ShapeOK /\ Wired(v) /\ Restored(v)
  BY DEF SubsInv
<1>2. subs' = [subs EXCEPT ![v] = subs[v] \cup topics]
  BY DEF Subscribe
<1>3. CASE state[v] = "Online"
  <2> DEFINE rec == [transport[v] EXCEPT
                       !.peer = IF Reaches(v) THEN @ \cup topics ELSE @]
  <2>1. transport' = [transport EXCEPT ![v] = rec]
    BY <1>1, <1>3 DEF Subscribe, Served, ShapeOK
  <2>2. /\ Fields \subseteq DOMAIN rec
        /\ rec.pc = transport[v].pc /\ rec.stop = transport[v].stop
        /\ rec.alive = transport[v].alive /\ rec.closing = transport[v].closing
        /\ rec.ws = transport[v].ws /\ rec.connected = transport[v].connected
        /\ rec.peer = IF Reaches(v) THEN transport[v].peer \cup topics
                      ELSE transport[v].peer
    BY <1>1 DEF ShapeOK, Fields
  <2> HIDE DEF rec
  <2>3. Touched(v) /\ transport'[v] = rec
    BY <1>1, <1>2, <2>1, <2>2 DEF Touched, ShapeOK
  <2>4. Wired(v)'
    BY <1>1, <2>2, <2>3 DEF Wired
  <2>5. subs'[v] = subs[v] \cup topics /\ state'[v] = state[v]
    BY <1>1, <1>2 DEF ShapeOK
  <2>6. Restored(v)'
    BY <1>1, <2>2, <2>3, <2>5 DEF Restored, Wired, Reaches, CanSend
  <2> QED
    BY <2>2, <2>3, <2>4, <2>6
<1>4. CASE state[v] # "Online"
  <2>1. transport' = transport
    BY <1>4 DEF Subscribe
  <2> QED
    BY <1>1, <1>2, <1>4, <2>1 DEF Touched, ShapeOK, Wired, Restored
<1> QED
  BY <1>3, <1>4

LEMMA UnsubscribeTouches ==
  ASSUME SubsInv, NEW v \in Session, NEW topics, Unsubscribe(v, topics),
         state[v] = "Online", UNCHANGED <<state, strand>>
  PROVE  /\ Touched(v) /\ Wired(v)' /\ Restored(v)'
         /\ transport'[v].stop = transport[v].stop
<1> DEFINE gone == topics \cap subs[v]
           rec == [transport[v] EXCEPT
                     !.peer = IF Reaches(v) THEN @ \ gone ELSE @]
<1>1. ShapeOK /\ Wired(v) /\ Restored(v)
  BY DEF SubsInv
<1>2. /\ subs' = [subs EXCEPT ![v] = subs[v] \ topics]
      /\ transport' = [transport EXCEPT ![v] = rec]
  BY <1>1 DEF Unsubscribe, Unserved, ShapeOK
<1>3. /\ Fields \subseteq DOMAIN rec
      /\ rec.pc = transport[v].pc /\ rec.stop = transport[v].stop
      /\ rec.alive = transport[v].alive /\ rec.closing = transport[v].closing
      /\ rec.ws = transport[v].ws /\ rec.connected = transport[v].connected
      /\ rec.peer = IF Reaches(v) THEN transport[v].peer \ gone
                    ELSE transport[v].peer
  BY <1>1 DEF ShapeOK, Fields
<1> HIDE DEF rec
<1>4. Touched(v) /\ transport'[v] = rec
  BY <1>1, <1>2, <1>3 DEF Touched, ShapeOK
<1>5. Wired(v)'
  BY <1>1, <1>3, <1>4 DEF Wired
<1>6. subs'[v] = subs[v] \ topics /\ state'[v] = state[v]
  BY <1>1, <1>2 DEF ShapeOK
<1>7. Restored(v)'
  BY <1>1, <1>3, <1>4, <1>6 DEF Restored
<1> QED
  BY <1>3, <1>4, <1>5, <1>7

LEMMA StatesReached ==
  ASSUME NEW v, state[v] \in State \ {"Disabled"}
  PROVE  /\ TransitionTo(Engaged(v), "Online") = "Online"
         /\ TransitionTo(Engaged(v), "Reconnecting") \in State \ {"Disabled"}
<1>1. /\ Transition.Disconnected = {"Connecting", "Disabled"}
      /\ Transition.Connecting = {"Online", "Disconnected", "Reconnecting", "Disabled"}
      /\ Transition.Online = {"Degraded", "Reconnecting", "Disconnected", "Disabled"}
      /\ Transition.Degraded = {"Online", "Reconnecting", "Disconnected", "Disabled"}
      /\ Transition.Reconnecting = {"Connecting", "Online", "Disconnected", "Disabled"}
  BY DEF Transition
<1>2. Engaged(v) \in {"Connecting", "Online", "Degraded", "Reconnecting"}
  BY <1>1 DEF Engaged, TransitionTo, State
<1> QED
  BY <1>1, <1>2 DEF TransitionTo, State

\* Handling a connection restores what the session counts on.
LEMMA UpKeepsSubs ==
  ASSUME SubsInv, HandleUp
  PROVE  SubsInv'
<1>0. PICK v : v = Head(strand).session
  OBVIOUS
<1> DEFINE rec == [transport[v] EXCEPT
                     !.peer = IF Reaches(v) THEN @ \cup subs[v] ELSE @]
<1>1. ShapeOK /\ strand # << >> /\ strand' = Tail(strand)
  BY DEF SubsInv, HandleUp, Next1
<1>2. /\ v \in Session /\ Head(strand) = Task("up", v)
      /\ strand' \in Seq(Tasks)
      /\ \A s : Followed(strand, s) => Followed(strand', s)
      /\ \A s : s # v /\ UpDue(strand, s) => UpDue(strand', s)
  <2>1. \A s : s # v => Task("up", v) # Task("up", s)
    BY DEF Task
  <2>2. Head(strand) \in Tasks /\ Head(strand) = Task("up", v)
    BY <1>0, <1>1, TailFacts DEF ShapeOK, HandleUp, Next1
  <2>3. v \in Session
    BY <2>2 DEF Tasks, Task
  <2> QED
    BY <1>1, <2>1, <2>2, <2>3, TailFacts DEF ShapeOK
<1>3. Wired(v) /\ Restored(v)
  BY <1>2 DEF SubsInv
<1>4. /\ state' = [state EXCEPT ![v] = "Online"]
      /\ transport' = [transport EXCEPT ![v] = rec]
      /\ UNCHANGED <<subs, manager, installed>>
  <2>1. state[v] \in State \ {"Disabled"}
    BY <1>1, <1>2 DEF ShapeOK
  <2>2. OnTransportConnected(v) /\ UNCHANGED <<subs, manager, installed>>
    BY <1>0 DEF HandleUp, threads
  <2> QED
    BY <1>1, <2>1, <2>2, StatesReached DEF OnTransportConnected, Served, ShapeOK
<1>5. /\ Fields \subseteq DOMAIN rec
      /\ rec.pc = transport[v].pc /\ rec.stop = transport[v].stop
      /\ rec.alive = transport[v].alive /\ rec.closing = transport[v].closing
      /\ rec.ws = transport[v].ws /\ rec.connected = transport[v].connected
      /\ rec.peer = IF Reaches(v) THEN transport[v].peer \cup subs[v]
                    ELSE transport[v].peer
  BY <1>1, <1>2 DEF ShapeOK, Fields
<1> HIDE DEF rec
<1>6. Touched(v) /\ transport'[v] = rec /\ state'[v] = "Online"
  BY <1>1, <1>2, <1>4, <1>5 DEF Touched, ShapeOK, State
<1>7. Wired(v)'
  BY <1>2, <1>3, <1>5, <1>6 DEF Wired
<1>8. Restored(v)'
  BY <1>3, <1>4, <1>5, <1>6 DEF Restored, Wired, Reaches, CanSend
<1> QED
  BY <1>2, <1>4, <1>5, <1>6, <1>7, <1>8, TouchedKeepsSubs

\* A loss is handled before the connection that followed it.
LEMMA DownKeepsSubs ==
  ASSUME SubsInv, HandleDown
  PROVE  SubsInv'
<1>0. PICK v : v = Head(strand).session
  OBVIOUS
<1> DEFINE to == TransitionTo(Engaged(v), "Reconnecting")
<1>1. ShapeOK /\ strand # << >> /\ strand' = Tail(strand)
  BY DEF SubsInv, HandleDown, Next1
<1>2. /\ v \in Session /\ Head(strand) = Task("down", v)
      /\ strand' \in Seq(Tasks)
      /\ \A s : Followed(strand, s) => Followed(strand', s)
      /\ \A s : UpDue(strand, s) => UpDue(strand', s)
      /\ Followed(strand, v) => UpDue(strand', v)
  <2>1. \A s : Task("down", v) # Task("up", s)
    BY DEF Task
  <2>2. Head(strand) \in Tasks /\ Head(strand) = Task("down", v)
    BY <1>0, <1>1, TailFacts DEF ShapeOK, HandleDown, Next1
  <2>3. v \in Session
    BY <2>2 DEF Tasks, Task
  <2> QED
    BY <1>1, <2>1, <2>2, <2>3, TailFacts DEF ShapeOK
<1>3. Wired(v) /\ Restored(v)
  BY <1>2 DEF SubsInv
<1>4. /\ state' = [state EXCEPT ![v] = to] /\ to \in State \ {"Disabled"}
      /\ UNCHANGED <<transport, subs, manager, installed>>
  <2>1. state[v] \in State \ {"Disabled"}
    BY <1>1, <1>2 DEF ShapeOK
  <2>2. OnTransportClosed(v) /\ UNCHANGED <<transport, subs, manager, installed>>
    BY <1>0 DEF HandleDown, threads
  <2> QED
    BY <2>1, <2>2, StatesReached DEF OnTransportClosed
<1> HIDE DEF to
<1>6. Touched(v)
  BY <1>1, <1>2, <1>4 DEF Touched, ShapeOK
<1>7. Wired(v)'
  BY <1>2, <1>3, <1>4 DEF Wired
<1>8. Restored(v)'
  BY <1>2, <1>3, <1>4 DEF Restored, Wired
<1> QED
  BY <1>2, <1>4, <1>6, <1>7, <1>8, TouchedKeepsSubs

\* The first task of a session subscribes.
LEMMA SubscribeKeepsSubs ==
  ASSUME SubsInv, HandleSubscribe
  PROVE  SubsInv'
<1>0. PICK v : v = Head(strand).session
  OBVIOUS
<1>1. ShapeOK /\ strand # << >> /\ strand' = Tail(strand)
  BY DEF SubsInv, HandleSubscribe, Next1
<1>2. /\ v \in Session
      /\ strand' \in Seq(Tasks)
      /\ \A s : Followed(strand, s) => Followed(strand', s)
      /\ \A s : UpDue(strand, s) => UpDue(strand', s)
  <2>1. \A s : Task("subscribe", v) # Task("up", s)
    BY DEF Task
  <2>2. Head(strand) \in Tasks /\ Head(strand) = Task("subscribe", v)
    BY <1>0, <1>1, TailFacts DEF ShapeOK, HandleSubscribe, Next1
  <2>3. v \in Session
    BY <2>2 DEF Tasks, Task
  <2> QED
    BY <1>1, <2>1, <2>2, <2>3, TailFacts DEF ShapeOK
<1>3. /\ \E topics : Subscribe(v, topics)
      /\ UNCHANGED <<state, manager, installed>>
  BY <1>0 DEF HandleSubscribe, rest, threads
<1>4. PICK topics : Subscribe(v, topics)
  BY <1>3
<1>5. /\ Touched(v) /\ Wired(v)' /\ Restored(v)'
      /\ transport'[v].stop = transport[v].stop
  BY <1>2, <1>3, <1>4, SubscribeTouches
<1> QED
  BY <1>2, <1>3, <1>5, TouchedKeepsSubs

LEMMA SampleKeepsSubs ==
  ASSUME SubsInv, NEW v \in Session, EndSample(v) \/ PollBattery(v)
  PROVE  SubsInv'
<1>1. UNCHANGED <<state, strand, manager, installed>>
  BY DEF EndSample, PollBattery, rest, threads
<1>2. /\ Touched(v) /\ Wired(v)' /\ Restored(v)'
      /\ transport'[v].stop = transport[v].stop
  <2>1. CASE EndSample(v)
    BY <1>1, <2>1, UnsubscribeTouches DEF EndSample
  <2>2. CASE PollBattery(v)
    BY <1>1, <2>2, SubscribeTouches DEF PollBattery
  <2> QED
    BY <2>1, <2>2
<1>3. strand' \in Seq(Tasks)
  BY <1>1 DEF SubsInv, ShapeOK
<1> QED
  BY <1>1, <1>2, <1>3, TouchedKeepsSubs

\* A refreshing thread stops only what it then waits for.
LEMMA ManagerKeepsSubs ==
  ASSUME SubsInv, NEW m \in Manager, ManagerStep(m)
  PROVE  SubsInv'
<1>0. ShapeOK /\ StopJoined
  BY DEF SubsInv
<1>1. ASSUME UNCHANGED <<transport, strand, session>>, ShapeOK', StopJoined'
      PROVE  SubsInv'
  BY <1>1 DEF SubsInv, session, Wired, Restored, UpDue, Followed
<1>2. CASE LoadRow(m)
  BY <1>0, <1>1, <1>2 DEF LoadRow, At, ShapeOK, StopJoined, Live, session
<1>9. CASE BeginCommand(m)
  BY <1>0, <1>1, <1>9 DEF BeginCommand, At, ShapeOK, StopJoined, Live, session
<1>3. CASE Ensure(m)
  BY <1>0, <1>1, <1>3 DEF Ensure, At, Jump, ShapeOK, StopJoined, Live, session, rest
<1>4. CASE EraseSession(m)
  BY <1>0, <1>1, <1>4 DEF EraseSession, At, Return, ShapeOK, StopJoined, Live, session
<1>5. CASE StopSession(m)
  <2>1. PICK v \in Session : v = manager[m].victim
    BY <1>0, <1>5 DEF StopSession, At, ShapeOK
  <2> DEFINE rec == [transport[v] EXCEPT !.stop = TRUE, !.connected = FALSE]
  <2>2. /\ subs' = [subs EXCEPT ![v] = subs[v] \ {"battery"}]
        /\ transport' = [transport EXCEPT ![v] = rec]
        /\ manager' = [manager EXCEPT ![m].pc = "join"]
        /\ manager[m].pc = "stop"
        /\ UNCHANGED <<strand, state, installed>>
    BY <1>0, <1>5, <2>1 DEF StopSession, At, Jump, Stopped, ShapeOK, rest
  <2>3. /\ Fields \subseteq DOMAIN rec
        /\ rec.pc = transport[v].pc /\ rec.stop /\ rec.ws = transport[v].ws
    BY <1>0 DEF ShapeOK, Fields
  <2> HIDE DEF rec
  <2>4. /\ transport' = [s \in Session |-> transport'[s]]
        /\ \A s \in Session :
             transport'[s] = IF s = v THEN rec ELSE transport[s]
        /\ subs' = [s \in Session |-> subs'[s]]
        /\ \A s \in Session : s # v => subs'[s] = subs[s]
    BY <1>0, <2>2 DEF ShapeOK
  <2>5. /\ manager' = [n \in Manager |-> manager'[n]]
        /\ \A n \in Manager : n # m => manager'[n] = manager[n]
        /\ manager'[m].pc = "join" /\ manager'[m].victim = v
        /\ {"pc", "want", "victim"} \subseteq DOMAIN manager'[m]
    BY <1>0, <2>1, <2>2 DEF ShapeOK
  <2>6. ShapeOK'
    BY <1>0, <2>2, <2>3, <2>4, <2>5 DEF ShapeOK
  <2>7. StopJoined'
    BY <1>0, <2>2, <2>3, <2>4, <2>5 DEF StopJoined, Live
  <2>8. ASSUME NEW s \in Session PROVE Wired(s)' /\ Restored(s)'
    <3>1. Wired(s) /\ Restored(s)
      BY DEF SubsInv
    <3>2. CASE s = v
      BY <2>2, <2>3, <2>4, <3>1, <3>2 DEF Wired, Restored
    <3>3. CASE s # v
      BY <2>2, <2>4, <3>1, <3>3, SessionKept
    <3> QED
      BY <3>2, <3>3
  <2> QED
    BY <2>6, <2>7, <2>8 DEF SubsInv
<1>6. CASE JoinTransport(m)
  <2>1. /\ manager' = [manager EXCEPT ![m].pc = Return(m)]
        /\ UNCHANGED <<transport, strand, session, installed>>
    BY <1>6 DEF JoinTransport, Jump, rest
  <2>2. Return(m) \in {"idle", "open"}
    BY DEF Return
  <2>3. ShapeOK'
    BY <1>0, <2>1, <2>2 DEF ShapeOK, session
  <2>4. manager[m].victim \notin Live
    BY <1>6 DEF JoinTransport, Joined, Live
  <2>5. StopJoined'
    BY <1>0, <2>1, <2>4 DEF ShapeOK, StopJoined, Live
  <2> QED
    BY <1>1, <2>1, <2>3, <2>5
<1>7. CASE OpenSession(m)
  <2>1. PICK v \in Fresh :
          /\ transport' = Started(v)
          /\ manager' = [manager EXCEPT ![m].pc = "install", ![m].victim = v]
    BY <1>7 DEF OpenSession
  <2> DEFINE rec == [NewTransport EXCEPT !.pc = "start"]
  <2>2. /\ transport' = [transport EXCEPT ![v] = rec] /\ v \in Session
        /\ manager[m].pc = "open"
        /\ UNCHANGED <<strand, session, installed>>
    BY <1>7, <2>1 DEF OpenSession, Started, At, Fresh
  <2>3. /\ Fields \subseteq DOMAIN rec /\ rec.pc = "start" /\ ~rec.stop
    BY DEF NewTransport, Fields
  <2> HIDE DEF rec
  <2>4. /\ transport' = [s \in Session |-> transport'[s]]
        /\ \A s \in Session :
             transport'[s] = IF s = v THEN rec ELSE transport[s]
    BY <1>0, <2>2 DEF ShapeOK
  <2>5. /\ manager' = [n \in Manager |-> manager'[n]]
        /\ \A n \in Manager : n # m => manager'[n] = manager[n]
        /\ manager'[m].pc = "install" /\ manager'[m].victim = v
        /\ {"pc", "want", "victim"} \subseteq DOMAIN manager'[m]
    BY <1>0, <2>1, <2>2 DEF ShapeOK
  <2>6. ShapeOK'
    BY <1>0, <2>2, <2>3, <2>4, <2>5 DEF ShapeOK, session
  <2>7. StopJoined'
    BY <1>0, <2>2, <2>3, <2>4, <2>5 DEF StopJoined, Live
  <2>8. ASSUME NEW s \in Session PROVE Wired(s)' /\ Restored(s)'
    <3>1. Wired(s) /\ Restored(s)
      BY DEF SubsInv
    <3>2. CASE s = v
      BY <2>2, <2>3, <2>4, <3>1, <3>2 DEF Wired, Restored
    <3>3. CASE s # v
      BY <2>2, <2>4, <3>1, <3>3, SessionKept DEF session
    <3> QED
      BY <3>2, <3>3
  <2> QED
    BY <2>6, <2>7, <2>8 DEF SubsInv
<1>8. CASE Install(m)
  <2>1. PICK v \in Session : v = manager[m].victim
    BY <1>0, <1>8 DEF Install, At, ShapeOK
  <2>2. /\ strand' = Append(strand, Task("subscribe", v))
        /\ installed' = v
        /\ manager' = [manager EXCEPT ![m].pc = "idle"]
        /\ manager[m].pc = "install"
        /\ UNCHANGED <<transport, session>>
    BY <1>8, <2>1 DEF Install, PostStrand, Jump, At
  <2>3. /\ Task("subscribe", v) \in Tasks
        /\ \A s : Task("subscribe", v) # Task("down", s)
    BY DEF Task, Tasks
  <2>4. strand' \in Seq(Tasks)
    BY <1>0, <2>2, <2>3, AppendFacts DEF ShapeOK
  <2>5. ShapeOK'
    BY <1>0, <2>2, <2>4 DEF ShapeOK, session
  <2>6. StopJoined'
    BY <1>0, <2>2 DEF ShapeOK, StopJoined, Live
  <2>7. ASSUME NEW s \in Session PROVE Wired(s)' /\ Restored(s)'
    <3>1. Wired(s) /\ Restored(s)
      BY DEF SubsInv
    <3>2. /\ Followed(strand, s) => Followed(strand', s)
          /\ UpDue(strand, s) => UpDue(strand', s)
      BY <1>0, <2>2, <2>3, AppendFacts DEF ShapeOK
    <3> QED
      BY <2>2, <3>1, <3>2, SessionKept DEF session
  <2> QED
    BY <2>5, <2>6, <2>7 DEF SubsInv
<1> QED
  BY <1>2, <1>3, <1>4, <1>5, <1>6, <1>7, <1>8, <1>9 DEF ManagerStep

\* A reconnect that a scan requests closes the connection first.
LEMMA ScannerKeepsSubs ==
  ASSUME SubsInv, NEW d \in Scanner, ScannerStep(d)
  PROVE  SubsInv'
<1>0. ShapeOK /\ StopJoined
  BY DEF SubsInv
<1>1. CASE UNCHANGED <<transport, strand, state, subs, manager, installed>>
  BY <1>1 DEF SubsInv, ShapeOK, StopJoined, Live, Wired, Restored, UpDue, Followed
<1>2. CASE RequestReconnect(d)
  <2>1. PICK v : v = scanner[d].session
    OBVIOUS
  <2> DEFINE rec == [transport[v] EXCEPT !.connected = FALSE, !.closing = TRUE]
  <2>2. /\ transport' = [transport EXCEPT ![v] = rec]
        /\ UNCHANGED <<strand, state, subs, manager, installed>>
    BY <1>0, <1>2, <2>1 DEF RequestReconnect, ReconnectRequested, ShapeOK, session,
       scanRest
  <2>3. v \in Session =>
        /\ Fields \subseteq DOMAIN rec
        /\ rec.pc = transport[v].pc /\ rec.closing /\ rec.ws = transport[v].ws
        /\ rec.stop = transport[v].stop
    BY <1>0 DEF ShapeOK, Fields
  <2> HIDE DEF rec
  <2>4. /\ transport' = [s \in Session |-> transport'[s]]
        /\ \A s \in Session :
             transport'[s] = IF s = v THEN rec ELSE transport[s]
    BY <1>0, <2>2 DEF ShapeOK
  <2>5. ShapeOK'
    BY <1>0, <2>2, <2>3, <2>4 DEF ShapeOK
  <2>6. StopJoined'
    BY <1>0, <2>2, <2>3, <2>4 DEF StopJoined, Live
  <2>7. ASSUME NEW s \in Session PROVE Wired(s)' /\ Restored(s)'
    <3>1. Wired(s) /\ Restored(s)
      BY DEF SubsInv
    <3>2. CASE s = v
      BY <2>2, <2>3, <2>4, <3>1, <3>2 DEF Wired, Restored
    <3>3. CASE s # v
      BY <2>2, <2>4, <3>1, <3>3, SessionKept
    <3> QED
      BY <3>2, <3>3
  <2> QED
    BY <2>5, <2>6, <2>7 DEF SubsInv
<1>3. CASE BeginScan(d) \/ GiveUp(d) \/ Answered(d) \/ MarkDisconnected(d)
           \/ AwaitReconnect(d)
  BY <1>1, <1>3 DEF BeginScan, GiveUp, Answered, MarkDisconnected, AwaitReconnect,
     session, scanRest
<1>4. CASE CallService(d)
  <2>1. \/ UNCHANGED <<transport, session>>
        \/ \E c \in Call : CallSent(scanner[d].session, c)
    BY <1>4, Zenon DEF CallService
  <2>2. \A v, c : CallSent(v, c) =>
          transport' = transport /\ state' = state /\ subs' = subs
    BY Zenon DEF CallSent
  <2>3. UNCHANGED <<strand, scanRest>>
    BY <1>4, Zenon DEF CallService
  <2> QED
    BY <1>1, <2>1, <2>2, <2>3 DEF session, scanRest
<1>5. CASE Forget(d)
  BY <1>1, <1>5 DEF Forget, ForgetServiceCall, scanRest
<1> QED
  BY <1>2, <1>3, <1>4, <1>5 DEF ScannerStep

LEMMA StepKeepsSubs ==
  ASSUME SubsInv, [Next]_vars
  PROVE  SubsInv'
<1>1. CASE UNCHANGED <<transport, strand, state, subs, manager, installed>>
  BY <1>1 DEF SubsInv, ShapeOK, StopJoined, Live, Wired, Restored, UpDue, Followed
<1>2. ASSUME NEW e, ChangeRow(e) PROVE SubsInv'
  BY <1>1, <1>2 DEF ChangeRow, session, threads
<1>3. ASSUME NEW s \in Session, TransportStep(s) PROVE SubsInv'
  <2>1. UNCHANGED <<state, subs, manager, installed>>
    BY <1>3 DEF TransportStep, session, rest, threads
  <2>2. Move(s)
    BY <1>3, TransportMoves DEF SubsInv, Wired
  <2> QED
    BY <2>1, <2>2, MoveKeepsSubs
<1>4. ASSUME NEW s \in Session, NEW c \in Call, Response(s, c) PROVE SubsInv'
  BY <1>1, <1>4 DEF Response, HandleResponse, rest, threads
<1>5. CASE UNCHANGED vars
  BY <1>1, <1>5 DEF vars, session, threads
<1> QED
  BY <1>2, <1>3, <1>4, <1>5, ManagerKeepsSubs, ScannerKeepsSubs, UpKeepsSubs,
     DownKeepsSubs, SubscribeKeepsSubs, SampleKeepsSubs DEF Next, StrandStep

LEMMA SubsInvHolds == Spec => []SubsInv
<1>1. Init => SubsInv
  <2> SUFFICES ASSUME Init PROVE SubsInv
    OBVIOUS
  <2>1. ShapeOK
    BY DEF Init, ShapeOK, NewTransport, Fields, State
  <2>2. \A s \in Session : transport[s].pc = "idle"
    BY DEF Init, NewTransport
  <2> QED
    BY <2>1, <2>2 DEF SubsInv, StopJoined, Live, Wired, Restored
<1> QED
  BY <1>1, StepKeepsSubs, PTL DEF Spec

\* Once everything is at rest a connected robot serves all its session counts
\* on, however often and in whatever order connections were lost, requested
\* anew, announced and handled, and however many threads refresh.
THEOREM SubscriptionsSurvive == Spec => []SubscriptionsRestored
<1>1. SubsInv => SubscriptionsRestored
  <2> SUFFICES ASSUME SubsInv, Settled, NEW s \in Reading, transport[s].alive
               PROVE  subs[s] \subseteq transport[s].peer
    BY DEF SubscriptionsRestored
  <2>1. s \in Live /\ s \in Session /\ transport[s].pc = "read"
    BY DEF Reading, Live
  <2>2. ~transport[s].closing /\ ~UpDue(strand, s)
    BY <2>1 DEF Settled, UpDue
  <2>3. ~transport[s].stop
    BY <2>1 DEF Settled, SubsInv, StopJoined
  <2> QED
    BY <2>1, <2>2, <2>3 DEF SubsInv, Restored
<1> QED
  BY <1>1, SubsInvHolds, PTL

-----------------------------------------------------------------------------
(* Sessions, and the threads that hold them *)

\* The sessions whose transports work and are not to stop.
Working == {s \in Live : ~transport[s].stop}

Holding(m) == manager[m].pc \in {"stop", "join", "install"}

\* One thread at most holds a session, and none the installed one.  Only a
\* session that its thread waits for may have been told to stop.
OwnersOK ==
  /\ {"endpoint", "state", "by"} \subseteq DOMAIN row
  /\ installed # NoSession => installed \in Working
  /\ \A m \in Manager :
       /\ manager[m].pc \in {"stop", "install"} => manager[m].victim \in Working
       /\ manager[m].pc = "join" => transport[manager[m].victim].pc # "idle"
       /\ Holding(m) => manager[m].victim # installed
  /\ \A m, n \in Manager :
       Holding(m) /\ Holding(n) /\ manager[m].victim = manager[n].victim => m = n

\* Only a refresh stops a transport; otherwise one at work stays at work.
LEMMA WorkingStays ==
  ASSUME SubsInv, Next, ~ \E m \in Manager : StopSession(m), NEW w, w \in Working
  PROVE  w \in Working'
<1>0. ShapeOK /\ w \in Session /\ w \in Live
  BY DEF SubsInv, Working, Live
<1>1. ASSUME transport'[w].pc = transport[w].pc, transport'[w].stop = transport[w].stop
      PROVE  w \in Working'
  BY <1>0, <1>1 DEF Working, Live
<1>2. \A v, topics :
        \/ transport' = transport \/ transport' = Served(v, topics)
        \/ transport' = Unserved(v, topics) \/ transport' = ReconnectRequested(v)
        => w \in Working'
  <2> SUFFICES ASSUME NEW v, NEW topics,
                      \/ transport' = transport \/ transport' = Served(v, topics)
                      \/ transport' = Unserved(v, topics)
                      \/ transport' = ReconnectRequested(v)
               PROVE  w \in Working'
    OBVIOUS
  <2>1. transport = [s \in Session |-> transport[s]]
    BY <1>0 DEF ShapeOK
  <2>2. CASE transport' = Served(v, topics)
    BY <1>0, <1>1, <2>1, <2>2 DEF Served, Fields, ShapeOK
  <2>3. CASE transport' = Unserved(v, topics)
    BY <1>0, <1>1, <2>1, <2>3 DEF Unserved, Fields, ShapeOK
  <2>4. CASE transport' = ReconnectRequested(v)
    BY <1>0, <1>1, <2>1, <2>4 DEF ReconnectRequested, Fields, ShapeOK
  <2> QED
    BY <1>1, <2>2, <2>3, <2>4
<1>3. ASSUME NEW e, ChangeRow(e) PROVE w \in Working'
  BY <1>2, <1>3 DEF ChangeRow
<1>4. ASSUME NEW m \in Manager, ManagerStep(m) PROVE w \in Working'
  <2>1. CASE OpenSession(m)
    <3>1. PICK v \in Fresh : transport' = Started(v)
      BY <2>1 DEF OpenSession
    <3>2. v # w
      BY <1>0, <3>1 DEF Fresh, Live
    <3> QED
      BY <1>0, <1>1, <3>1, <3>2 DEF Started, ShapeOK
  <2>2. CASE ~OpenSession(m)
    BY <1>2, <1>4, <2>2 DEF ManagerStep, LoadRow, BeginCommand, Ensure, EraseSession,
       JoinTransport, Install
  <2> QED
    BY <2>1, <2>2
<1>5. ASSUME NEW d \in Scanner, ScannerStep(d) PROVE w \in Working'
  <2>1. transport' = transport \/ transport' = ReconnectRequested(scanner[d].session)
    BY <1>5 DEF ScannerStep, BeginScan, CallService, CallSent, Answered, GiveUp, Forget,
       MarkDisconnected, RequestReconnect, AwaitReconnect
  <2> QED
    BY <1>2, <2>1
<1>6. CASE StrandStep
  BY <1>2, <1>6 DEF StrandStep, HandleUp, HandleDown, HandleSubscribe,
     OnTransportConnected, Subscribe
<1>7. ASSUME NEW s \in Session, EndSample(s) \/ PollBattery(s) PROVE w \in Working'
  BY <1>2, <1>7 DEF EndSample, PollBattery, Subscribe, Unsubscribe
<1>8. ASSUME NEW s \in Session, TransportStep(s) PROVE w \in Working'
  <2>1. Move(s)
    BY <1>8, TransportMoves DEF SubsInv, Wired
  <2>2. CASE s = w
    BY <1>0, <2>1, <2>2 DEF Move, Working, Live
  <2>3. CASE s # w
    BY <1>0, <1>1, <2>1, <2>3 DEF Move
  <2> QED
    BY <2>2, <2>3
<1>9. ASSUME NEW s \in Session, NEW c \in Call, Response(s, c) PROVE w \in Working'
  BY <1>2, <1>9 DEF Response
<1> QED
  BY <1>3, <1>4, <1>5, <1>6, <1>7, <1>8, <1>9 DEF Next

\* What is neither a refresh nor a change of the row leaves both alone.
RowKept ==
  /\ UNCHANGED <<manager, installed, config, refreshes>>
  /\ row'.endpoint = row.endpoint
  /\ {"endpoint", "state", "by"} \subseteq DOMAIN row'

LEMMA RowUntouched ==
  ASSUME Next, ~ \E m \in Manager : ManagerStep(m),
         ~ \E e \in Endpoint \cup {Off} : ChangeRow(e),
         {"endpoint", "state", "by"} \subseteq DOMAIN row
  PROVE  RowKept
<1>1. ASSUME NEW s, NEW by, SetState(s, by),
             UNCHANGED <<manager, installed, config, refreshes>>
      PROVE  RowKept
  BY <1>1 DEF SetState, RowKept
<1>2. ASSUME UNCHANGED <<row, manager, installed, config, refreshes>> PROVE RowKept
  BY <1>2 DEF RowKept
<1>3. CASE HandleUp
  <2>1. /\ SetState("ONLINE", "lifecycle")
        /\ UNCHANGED <<manager, installed, config, refreshes>>
    BY <1>3 DEF HandleUp, threads
  <2> QED
    BY <1>1, <2>1
<1>4. CASE HandleDown
  <2>1. /\ SetState("DISCONNECTED", "lifecycle")
        /\ UNCHANGED <<manager, installed, config, refreshes>>
    BY <1>4 DEF HandleDown, threads
  <2> QED
    BY <1>1, <2>1
<1>5. CASE HandleSubscribe
  BY <1>2, <1>5 DEF HandleSubscribe, rest, threads
<1>6. ASSUME NEW d \in Scanner, ScannerStep(d) PROVE RowKept
  <2>1. CASE MarkDisconnected(d)
    BY <1>1, <2>1 DEF MarkDisconnected
  <2>2. CASE BeginScan(d)
    BY <1>2, <2>2 DEF BeginScan
  <2>3. ~MarkDisconnected(d) /\ ~BeginScan(d) => UNCHANGED scanRest
    BY <1>6, Zenon DEF ScannerStep, CallService, Answered, GiveUp, Forget,
       RequestReconnect, AwaitReconnect
  <2> QED
    BY <1>2, <2>1, <2>2, <2>3 DEF scanRest
<1>7. ASSUME NEW s \in Session, TransportStep(s) \/ EndSample(s) \/ PollBattery(s)
      PROVE  RowKept
  BY <1>2, <1>7 DEF TransportStep, EndSample, PollBattery, rest, threads
<1>8. ASSUME NEW s \in Session, NEW c \in Call, Response(s, c) PROVE RowKept
  BY <1>2, <1>8 DEF Response, rest, threads
<1> QED
  BY <1>3, <1>4, <1>5, <1>6, <1>7, <1>8 DEF Next, StrandStep

\* Only a worker's step, and the opening of a session, move a transport on.
LEMMA PcUntouched ==
  ASSUME ShapeOK, Next, ~ \E m \in Manager : OpenSession(m),
         ~ \E s \in Session : TransportStep(s), NEW w \in Session
  PROVE  transport'[w].pc = transport[w].pc
<1>1. \A v, topics :
        \/ transport' = transport \/ transport' = Stopped(v)
        \/ transport' = Served(v, topics) \/ transport' = Unserved(v, topics)
        \/ transport' = ReconnectRequested(v)
        => transport'[w].pc = transport[w].pc
  <2> SUFFICES ASSUME NEW v, NEW topics,
                      \/ transport' = transport \/ transport' = Stopped(v)
                      \/ transport' = Served(v, topics)
                      \/ transport' = Unserved(v, topics)
                      \/ transport' = ReconnectRequested(v)
               PROVE  transport'[w].pc = transport[w].pc
    OBVIOUS
  <2>1. CASE transport' = Served(v, topics)
    BY <2>1 DEF Served, Fields, ShapeOK
  <2>2. CASE transport' = Unserved(v, topics)
    BY <2>2 DEF Unserved, Fields, ShapeOK
  <2>3. CASE transport' = ReconnectRequested(v)
    BY <2>3 DEF ReconnectRequested, Fields, ShapeOK
  <2>4. CASE transport' = Stopped(v)
    BY <2>4 DEF Stopped, Fields, ShapeOK
  <2> QED
    BY <2>1, <2>2, <2>3, <2>4
<1>2. ASSUME NEW e, ChangeRow(e) PROVE transport'[w].pc = transport[w].pc
  BY <1>2 DEF ChangeRow
<1>3. ASSUME NEW m \in Manager, ManagerStep(m) PROVE transport'[w].pc = transport[w].pc
  BY <1>1, <1>3 DEF ManagerStep, LoadRow, BeginCommand, Ensure, EraseSession,
     StopSession, JoinTransport, Install
<1>4. ASSUME NEW d \in Scanner, ScannerStep(d) PROVE transport'[w].pc = transport[w].pc
  <2>1. transport' = transport \/ transport' = ReconnectRequested(scanner[d].session)
    BY <1>4 DEF ScannerStep, BeginScan, CallService, CallSent, Answered, GiveUp, Forget,
       MarkDisconnected, RequestReconnect, AwaitReconnect
  <2> QED
    BY <1>1, <2>1
<1>5. ASSUME StrandStep PROVE transport'[w].pc = transport[w].pc
  BY <1>1, <1>5 DEF StrandStep, HandleUp, HandleDown, HandleSubscribe,
     OnTransportConnected, Subscribe
<1>6. ASSUME NEW s \in Session, EndSample(s) \/ PollBattery(s)
      PROVE  transport'[w].pc = transport[w].pc
  BY <1>1, <1>6 DEF EndSample, PollBattery, Subscribe, Unsubscribe
<1>7. ASSUME NEW s \in Session, NEW c \in Call, Response(s, c)
      PROVE  transport'[w].pc = transport[w].pc
  BY <1>7 DEF Response
<1> QED
  BY <1>2, <1>3, <1>4, <1>5, <1>6, <1>7 DEF Next

\* No transport begins but where a session is opened.
LEMMA LiveShrinks ==
  ASSUME SubsInv, Next, ~ \E m \in Manager : OpenSession(m), NEW w \in Session
  PROVE  /\ transport[w].pc # "idle" => transport'[w].pc # "idle"
         /\ w \in Live' => w \in Live
<1>0. ShapeOK
  BY DEF SubsInv
<1>1. ASSUME NEW v \in Session, TransportStep(v)
      PROVE  /\ transport[w].pc # "idle" => transport'[w].pc # "idle"
             /\ w \in Live' => w \in Live
  <2>1. Move(v)
    BY <1>0, <1>1, TransportMoves DEF SubsInv, Wired
  <2>2. CASE w = v
    BY <2>1, <2>2 DEF Move, Live
  <2>3. CASE w # v
    BY <2>1, <2>3 DEF Move, Live
  <2> QED
    BY <2>2, <2>3
<1>2. ASSUME ~ \E v \in Session : TransportStep(v)
      PROVE  transport'[w].pc = transport[w].pc
  BY <1>0, <1>2, PcUntouched
<1> QED
  BY <1>1, <1>2 DEF Live

\* What only a refresh or a dispatch moves.
LEMMA HoldersUntouched ==
  ASSUME Next, ~ \E m \in Manager : ManagerStep(m),
         {"endpoint", "state", "by"} \subseteq DOMAIN row
  PROVE  /\ UNCHANGED <<manager, installed, config>>
         /\ {"endpoint", "state", "by"} \subseteq DOMAIN row'
<1>1. CASE \E e \in Endpoint \cup {Off} : ChangeRow(e)
  BY <1>1 DEF ChangeRow, threads
<1>2. CASE ~ \E e \in Endpoint \cup {Off} : ChangeRow(e)
  BY <1>2, RowUntouched DEF RowKept
<1> QED
  BY <1>1, <1>2

\* A thread's step leaves the other threads alone, and every transport at work
\* but the one that it stops.
LEMMA ThreadStep ==
  ASSUME ShapeOK, NEW m \in Manager, ManagerStep(m)
  PROVE  /\ row' = row
         /\ \A n \in Manager : n # m => manager'[n] = manager[n]
         /\ \A w \in Session : transport[w].pc # "idle" =>
              /\ transport'[w].pc = transport[w].pc
              /\ ~StopSession(m) \/ w # manager[m].victim =>
                   transport'[w] = transport[w]
<1>0. /\ manager = [n \in Manager |-> manager[n]]
      /\ transport = [s \in Session |-> transport[s]]
      /\ \A s \in Session : Fields \subseteq DOMAIN transport[s]
  BY DEF ShapeOK
<1>1. row' = row
  BY DEF ManagerStep, LoadRow, BeginCommand, Ensure, EraseSession, StopSession,
     JoinTransport, OpenSession, Install, rest
<1>2. \A n \in Manager : n # m => manager'[n] = manager[n]
  BY <1>0 DEF ManagerStep, LoadRow, BeginCommand, Ensure, EraseSession, StopSession,
     JoinTransport, OpenSession, Install, Jump
<1>3. ASSUME NEW w \in Session, transport[w].pc # "idle"
      PROVE  /\ transport'[w].pc = transport[w].pc
             /\ ~StopSession(m) \/ w # manager[m].victim => transport'[w] = transport[w]
  <2>1. CASE OpenSession(m)
    <3>1. PICK v \in Fresh : transport' = Started(v)
      BY <2>1 DEF OpenSession
    <3> QED
      BY <1>0, <1>3, <3>1 DEF Started, Fresh
  <2>2. CASE StopSession(m)
    BY <1>0, <2>2 DEF StopSession, Stopped, Fields
  <2>3. CASE ~OpenSession(m) /\ ~StopSession(m)
    BY <2>3 DEF ManagerStep, LoadRow, BeginCommand, Ensure, EraseSession,
       JoinTransport, Install
  <2> QED
    BY <2>1, <2>2, <2>3
<1> QED
  BY <1>1, <1>2, <1>3

LEMMA ManagerKeepsOwners ==
  ASSUME ShapeOK, OwnersOK, NEW m \in Manager, ManagerStep(m)
  PROVE  OwnersOK'
<1>0. /\ manager = [n \in Manager |-> manager[n]]
      /\ \A n \in Manager : {"pc", "want", "victim"} \subseteq DOMAIN manager[n]
      /\ \A n \in Manager : Holding(n) => manager[n].victim \in Session
      /\ installed \in Session \cup {NoSession} /\ NoSession \notin Session
  BY ConnectionAssumption DEF ShapeOK, Holding
<1>1. /\ row' = row
      /\ \A n \in Manager : n # m => manager'[n] = manager[n]
  BY ThreadStep
<1>2. ASSUME NEW w, w \in Working, ~StopSession(m) \/ w # manager[m].victim
      PROVE  w \in Working'
  BY <1>2, ThreadStep DEF Working, Live
<1>3. ASSUME NEW n \in Manager, n # m
      PROVE  /\ manager'[n].pc \in {"stop", "install"} =>
                  manager'[n].victim \in Working'
             /\ manager'[n].pc = "join" => transport'[manager'[n].victim].pc # "idle"
             /\ Holding(n)' <=> Holding(n)
  <2>1. manager'[n] = manager[n]
    BY <1>1, <1>3
  <2>2. StopSession(m) => Holding(m)
    BY DEF StopSession, At, Holding
  <2>3. StopSession(m) /\ Holding(n) => manager[n].victim # manager[m].victim
    BY <1>3, <2>2 DEF OwnersOK
  <2>4. manager[n].pc \in {"stop", "install"} => manager[n].victim \in Working'
    BY <1>2, <2>3 DEF OwnersOK, Holding
  <2>5. manager[n].pc = "join" => transport'[manager[n].victim].pc # "idle"
    BY <1>0, ThreadStep DEF OwnersOK, Holding
  <2> QED
    BY <2>1, <2>4, <2>5 DEF Holding
<1>4. installed # NoSession => installed \in Working'
  <2>1. StopSession(m) => installed # manager[m].victim
    BY DEF StopSession, At, Holding, OwnersOK
  <2> QED
    BY <1>2, <2>1 DEF OwnersOK
<1>5. ASSUME ~Holding(m)', installed' = installed
      PROVE  OwnersOK'
  BY <1>1, <1>3, <1>4, <1>5 DEF OwnersOK, Holding
<1>6. CASE LoadRow(m) \/ BeginCommand(m) \/ Ensure(m) \/ JoinTransport(m)
  <2>1. installed' = installed
    BY <1>6 DEF LoadRow, BeginCommand, Ensure, JoinTransport, rest
  <2>2. manager'[m].pc \in {"idle", "ensure", "drop", "open"}
    BY <1>0, <1>6 DEF LoadRow, BeginCommand, Ensure, JoinTransport, Jump, Return
  <2> QED
    BY <1>5, <2>1, <2>2 DEF Holding
<1>7. CASE EraseSession(m)
  <2>1. CASE installed = NoSession
    <3>1. installed' = installed
      BY <1>7, <2>1 DEF EraseSession
    <3>2. manager'[m].pc \in {"idle", "open"}
      BY <1>0, <1>7, <2>1 DEF EraseSession, Return
    <3> QED
      BY <1>5, <3>1, <3>2 DEF Holding
  <2>2. CASE installed # NoSession
    <3>1. /\ installed' = NoSession
          /\ manager'[m].pc = "stop" /\ manager'[m].victim = installed
      BY <1>0, <1>7, <2>2 DEF EraseSession
    <3>2. \A n \in Manager : n # m /\ Holding(n) =>
            manager'[n].victim # installed /\ manager'[n].victim # NoSession
      BY <1>0, <1>1 DEF OwnersOK
    <3> QED
      BY <1>0, <1>1, <1>3, <1>4, <2>2, <3>1, <3>2 DEF OwnersOK, Holding
  <2> QED
    BY <2>1, <2>2
<1>8. CASE StopSession(m)
  <2>1. /\ manager[m].pc = "stop" /\ installed' = installed
        /\ manager'[m].pc = "join" /\ manager'[m].victim = manager[m].victim
    BY <1>0, <1>8 DEF StopSession, At, Jump, rest
  <2>2. transport'[manager[m].victim].pc # "idle"
    BY <2>1, ThreadStep DEF OwnersOK, Working, Live
  <2> QED
    BY <1>1, <1>3, <1>4, <2>1, <2>2 DEF OwnersOK, Holding
<1>9. CASE OpenSession(m)
  <2>1. PICK v \in Fresh :
          /\ transport' = Started(v)
          /\ manager' = [manager EXCEPT ![m].pc = "install", ![m].victim = v]
    BY <1>9 DEF OpenSession
  <2>2. /\ installed' = installed
        /\ manager'[m].pc = "install" /\ manager'[m].victim = v
    BY <1>0, <1>9, <2>1 DEF OpenSession
  <2>3. v \in Working'
    BY <2>1 DEF Working, Live, Fresh, Started, NewTransport, ShapeOK
  <2>4. v # installed /\ \A n \in Manager : Holding(n) => manager[n].victim # v
    <3>1. transport[v].pc = "idle" /\ v \in Session
      BY <2>1 DEF Fresh
    <3> QED
      BY <1>0, <3>1 DEF OwnersOK, Holding, Working, Live
  <2> QED
    BY <1>1, <1>3, <1>4, <2>2, <2>3, <2>4 DEF OwnersOK, Holding
<1>10. CASE Install(m)
  <2>1. /\ manager[m].pc = "install" /\ installed' = manager[m].victim
        /\ manager'[m].pc = "idle"
    BY <1>0, <1>10 DEF Install, At, Jump
  <2>2. installed' \in Working'
    <3>1. ~StopSession(m)
      BY <2>1 DEF StopSession, At
    <3> QED
      BY <1>2, <2>1, <3>1 DEF OwnersOK
  <2>3. \A n \in Manager : n # m /\ Holding(n) => manager[n].victim # installed'
    BY <2>1 DEF OwnersOK, Holding
  <2> QED
    BY <1>1, <1>3, <2>1, <2>2, <2>3 DEF OwnersOK, Holding
<1> QED
  BY <1>6, <1>7, <1>8, <1>9, <1>10 DEF ManagerStep

LEMMA OwnersHold == Spec => [](SubsInv /\ OwnersOK)
<1>1. Init => OwnersOK
  BY DEF Init, OwnersOK, Holding
<1>2. SubsInv /\ OwnersOK /\ [Next]_vars => OwnersOK'
  <2> SUFFICES ASSUME SubsInv, OwnersOK, [Next]_vars PROVE OwnersOK'
    OBVIOUS
  <2>1. CASE \E m \in Manager : ManagerStep(m)
    BY <2>1, ManagerKeepsOwners DEF SubsInv
  <2>2. CASE Next /\ ~ \E m \in Manager : ManagerStep(m)
    <3>1. /\ UNCHANGED <<manager, installed>>
          /\ {"endpoint", "state", "by"} \subseteq DOMAIN row'
      BY <2>2, HoldersUntouched DEF OwnersOK
    <3>2. \A w : w \in Working => w \in Working'
      BY <2>2, WorkingStays DEF ManagerStep
    <3>3. \A w \in Session : transport[w].pc # "idle" => transport'[w].pc # "idle"
      BY <2>2, LiveShrinks DEF ManagerStep
    <3>4. \A m \in Manager : manager[m].pc = "join" => manager[m].victim \in Session
      BY DEF SubsInv, ShapeOK
    <3> QED
      BY <3>1, <3>2, <3>3, <3>4 DEF OwnersOK, Holding
  <2>3. CASE UNCHANGED vars
    BY <2>3 DEF vars, threads, OwnersOK, Holding, Working, Live
  <2> QED
    BY <2>1, <2>2, <2>3
<1> QED
  BY <1>1, <1>2, SubsInvHolds, PTL DEF Spec

\* However many threads refresh and send commands, none ever shuts down the
\* session that is installed: what one stops it has first taken out.
THEOREM InstalledStaysUp == Spec => []InstalledIsKept
<1>1. OwnersOK => InstalledIsKept
  BY DEF OwnersOK, Working, InstalledIsKept
<1> QED
  BY <1>1, OwnersHold, PTL

\* A transport at work that no thread has in hand any more was let go by the
\* installation of another session.
LEMMA StepLoses ==
  ASSUME SubsInv, OwnersOK, [Next]_vars, NEW s \in Orphans' \ Orphans
  PROVE  \E m \in Manager : Install(m) /\ installed = s
<1>0. ShapeOK /\ s \in Session /\ s \in Live' /\ ~Owned(s)'
  BY DEF SubsInv, Orphans, Live
<1>1. ASSUME Next, NEW m \in Manager, OpenSession(m) PROVE FALSE
  <2>1. PICK v \in Fresh :
          /\ transport' = Started(v)
          /\ manager' = [manager EXCEPT ![m].pc = "install", ![m].victim = v]
    BY <1>1 DEF OpenSession
  <2>2. Holds(m, v)'
    BY <1>0, <2>1 DEF Holds, ShapeOK
  <2>3. s # v
    BY <1>0, <2>2 DEF Owned
  <2>4. s \in Live
    BY <1>0, <2>1, <2>3 DEF Live, Started, ShapeOK
  <2>5. manager[m].pc = "open" /\ installed' = installed
    BY <1>1 DEF OpenSession, At
  <2>6. \A n \in Manager : Holds(n, s) => Holds(n, s)'
    BY <1>0, <2>1, <2>5 DEF Holds, ShapeOK
  <2> QED
    BY <1>0, <2>4, <2>5, <2>6 DEF Orphans, Owned
<1>2. ASSUME Next, ~ \E m \in Manager : OpenSession(m)
      PROVE  \E m \in Manager : Install(m) /\ installed = s
  <2>1. Owned(s) /\ s \in Live
    BY <1>0, <1>2, LiveShrinks DEF Orphans
  <2>2. CASE ~ \E m \in Manager : ManagerStep(m)
    <3>1. UNCHANGED <<manager, installed>>
      BY <1>2, <2>2, HoldersUntouched DEF OwnersOK
    <3> QED
      BY <1>0, <2>1, <3>1 DEF Owned, Holds
  <2>3. ASSUME NEW m \in Manager, ManagerStep(m)
        PROVE  Install(m) /\ installed = s
    <3>0. /\ manager = [n \in Manager |-> manager[n]]
          /\ {"pc", "want", "victim"} \subseteq DOMAIN manager[m]
      BY <1>0 DEF ShapeOK
    <3>1. \A n \in Manager : n # m /\ Holds(n, s) => Holds(n, s)'
      BY <1>0, <2>3, ThreadStep DEF Holds
    <3>2. installed = s \/ Holds(m, s)
      BY <1>0, <2>1, <3>1 DEF Owned
    <3>3. CASE LoadRow(m) \/ BeginCommand(m) \/ Ensure(m)
      <4>1. installed' = installed /\ ~Holds(m, s)
        BY <3>3 DEF LoadRow, BeginCommand, Ensure, At, Holds, rest
      <4> QED
        BY <1>0, <3>2, <4>1 DEF Owned
    <3>4. CASE EraseSession(m)
      <4>1. installed = s
        BY <3>2, <3>4 DEF EraseSession, At, Holds
      <4>2. s # NoSession
        BY <1>0, ConnectionAssumption
      <4> QED
        BY <1>0, <3>0, <3>4, <4>1, <4>2 DEF EraseSession, Owned, Holds
    <3>5. CASE StopSession(m)
      <4>1. installed' = installed /\ (Holds(m, s) => Holds(m, s)')
        BY <3>0, <3>5 DEF StopSession, At, Jump, Holds, rest
      <4> QED
        BY <1>0, <3>2, <4>1 DEF Owned
    <3>6. CASE JoinTransport(m)
      <4>1. installed' = installed /\ transport[manager[m].victim].pc = "exited"
        BY <3>6 DEF JoinTransport, Joined, rest
      <4>2. ~Holds(m, s)
        BY <2>1, <4>1 DEF Holds, Live
      <4> QED
        BY <1>0, <3>2, <4>1, <4>2 DEF Owned
    <3>7. CASE Install(m)
      <4>1. installed' = manager[m].victim
        BY <3>7 DEF Install
      <4>2. ~Holds(m, s)
        BY <1>0, <4>1 DEF Owned, Holds
      <4> QED
        BY <3>2, <3>7, <4>2
    <3> QED
      BY <1>2, <2>3, <3>3, <3>4, <3>5, <3>6, <3>7 DEF ManagerStep
  <2> QED
    BY <2>2, <2>3
<1>3. CASE UNCHANGED vars
  BY <1>3 DEF vars, threads, Orphans, Owned, Holds, Live
<1> QED
  BY <1>1, <1>2, <1>3

\* However many threads refresh and send commands, a transport at work slips
\* out of their hands only where one installs its session over another's.
THEOREM OnlyInstallsLose == Spec => LostOnlyByInstall
<1>1. SubsInv /\ OwnersOK /\ [Next]_vars =>
        [\A s \in Orphans' \ Orphans :
           \E m \in Manager : Install(m) /\ installed = s]_vars
  BY StepLoses
<1> QED
  BY <1>1, OwnersHold, PTL DEF Spec, LostOnlyByInstall

\* What the code takes for granted and nothing in it ensures: that no session
\* was installed since the thread has looked.
NoOverwrite == \A m \in Manager : Install(m) => installed = NoSession

LEMMA NoneLost == Spec /\ [][NoOverwrite]_vars => [](Orphans = {})
<1>1. Init => Orphans = {}
  BY DEF Init, Orphans, Live, NewTransport
<1>2. SubsInv /\ OwnersOK /\ Orphans = {} /\ [Next]_vars /\ [NoOverwrite]_vars
      => (Orphans = {})'
  <2> SUFFICES ASSUME SubsInv, OwnersOK, Orphans = {}, [Next]_vars,
                      [NoOverwrite]_vars, NEW s \in Orphans'
               PROVE  FALSE
    OBVIOUS
  <2>1. CASE UNCHANGED vars
    BY <2>1 DEF vars, threads, Orphans, Owned, Holds, Live
  <2>2. CASE ~UNCHANGED vars
    <3>1. PICK m \in Manager : Install(m) /\ installed = s
      BY StepLoses
    <3>2. s \in Session /\ NoSession \notin Session
      BY ConnectionAssumption DEF Orphans, Live
    <3> QED
      BY <2>2, <3>1, <3>2 DEF NoOverwrite
  <2> QED
    BY <2>1, <2>2
<1> QED
  BY <1>1, <1>2, OwnersHold, PTL DEF Spec

\* The transports at work are finitely many.
LEMMA LiveFinite == Spec => []IsFiniteSet(Live)
<1>1. Init => IsFiniteSet(Live)
  <2> SUFFICES ASSUME Init PROVE IsFiniteSet(Live)
    OBVIOUS
  <2>1. Live = {}
    BY DEF Init, Live, NewTransport
  <2> QED
    BY <2>1, FS_EmptySet
<1>2. SubsInv /\ IsFiniteSet(Live) /\ [Next]_vars => IsFiniteSet(Live)'
  <2> SUFFICES ASSUME SubsInv, IsFiniteSet(Live), [Next]_vars
               PROVE  IsFiniteSet(Live')
    OBVIOUS
  <2>1. \E v : Live' \subseteq Live \cup {v}
    <3>1. ASSUME NEW m \in Manager, OpenSession(m)
          PROVE  \E v : Live' \subseteq Live \cup {v}
      <4>1. PICK v \in Fresh : transport' = Started(v)
        BY <3>1 DEF OpenSession
      <4>2. Live' \subseteq Live \cup {v}
        BY <4>1 DEF Started, Live, SubsInv, ShapeOK
      <4> QED
        BY <4>2
    <3>2. CASE Next /\ ~ \E m \in Manager : OpenSession(m)
      BY <3>2, LiveShrinks DEF Live
    <3>3. CASE UNCHANGED vars
      BY <3>3 DEF vars, Live
    <3> QED
      BY <3>1, <3>2, <3>3
  <2>2. PICK v : Live' \subseteq Live \cup {v}
    BY <2>1
  <2> HIDE DEF Live
  <2>3. IsFiniteSet(Live \cup {v})
    BY FS_AddElement
  <2> QED
    BY <2>2, <2>3, FS_Subset
<1> QED
  BY <1>1, <1>2, SubsInvHolds, PTL DEF Spec

\* If no thread installs its session over another's then, whenever none is in
\* the middle of a refresh or a dispatch, at most one transport is at work.
THEOREM OneConnectionAtRest ==
  Spec /\ [][NoOverwrite]_vars
    => []((\A m \in Manager : manager[m].pc = "idle") => OneConnection)
<1>1. Orphans = {} =>
        ((\A m \in Manager : manager[m].pc = "idle") => OneConnection)
  <2> SUFFICES ASSUME Orphans = {}, \A m \in Manager : manager[m].pc = "idle"
               PROVE  OneConnection
    OBVIOUS
  <2>1. \A s \in Live : s = installed
    BY DEF Orphans, Owned, Holds
  <2> HIDE DEF Live
  <2>2. Live = {} \/ Live = {installed}
    BY <2>1
  <2>3. Cardinality(Live) = 0 \/ Cardinality(Live) = 1
    <3>1. CASE Live = {}
      BY <3>1, FS_EmptySet
    <3>2. CASE Live = {installed}
      BY <3>2, FS_Singleton
    <3> QED
      BY <2>2, <3>1, <3>2
  <2> QED
    BY <2>3 DEF OneConnection
<1> QED
  BY <1>1, NoneLost, PTL

-----------------------------------------------------------------------------
(* The row, and what refreshes make of it *)

\* What is installed is what the row asks for.
Arranged ==
  IF row.endpoint = Off THEN installed = NoSession
  ELSE installed # NoSession /\ config[installed] = row.endpoint

\* The thread works on the row's present settings and will arrange them.
Pursues(m) ==
  /\ manager[m].want = row.endpoint
  /\ \/ manager[m].pc \in {"ensure", "drop"}
     \/ manager[m].want # Off /\ manager[m].pc \in {"stop", "join", "open", "install"}

\* The copies that threads work on, and the settings of what they open.
CopiesOK ==
  /\ refreshes \in Nat
  /\ config = [s \in Session |-> config[s]]
  /\ \A m \in Manager :
       /\ manager[m].pc \in {"ensure", "open", "install"} => manager[m].want # Off
       /\ manager[m].pc = "install" => config[manager[m].victim] = manager[m].want

RefreshOK == refreshes = 0 => Arranged \/ \E m \in Manager : Pursues(m)

\* The order that refreshes would have if each looked, under the mutex of the
\* sessions, at what has become of them and of the row: none installs over
\* another, and once the last has read the row none drops or installs a session
\* on an older copy of it.
InOrder ==
  /\ NoOverwrite
  /\ \A m \in Manager :
       /\ refreshes = 0
       /\ Install(m) \/ (EraseSession(m) /\ installed # NoSession)
       => manager[m].want = row.endpoint

LEMMA ManagerKeepsCopies ==
  ASSUME SubsInv, OwnersOK, CopiesOK, NEW m \in Manager, ManagerStep(m)
  PROVE  CopiesOK'
<1>0. /\ ShapeOK
      /\ manager = [n \in Manager |-> manager[n]]
      /\ \A n \in Manager : {"pc", "want", "victim"} \subseteq DOMAIN manager[n]
      /\ \A n \in Manager : n # m => manager'[n] = manager[n]
      /\ Off \notin Endpoint
  BY ThreadStep, ConnectionAssumption DEF SubsInv, ShapeOK
<1>1. CASE OpenSession(m)
  <2>1. PICK v \in Fresh :
          /\ config' = [config EXCEPT ![v] = manager[m].want]
          /\ manager' = [manager EXCEPT ![m].pc = "install", ![m].victim = v]
    BY <1>1 DEF OpenSession
  <2>2. /\ manager'[m].pc = "install" /\ manager'[m].victim = v
        /\ manager'[m].want = manager[m].want /\ manager[m].want # Off
        /\ refreshes' = refreshes /\ v \in Session
    BY <1>0, <1>1, <2>1 DEF OpenSession, At, Fresh, CopiesOK
  <2>3. /\ config' = [s \in Session |-> config'[s]] /\ config'[v] = manager[m].want
        /\ \A s \in Session : s # v => config'[s] = config[s]
    BY <2>1, <2>2 DEF CopiesOK
  <2>4. \A n \in Manager : manager[n].pc = "install" =>
          manager[n].victim \in Session /\ manager[n].victim # v
    BY <2>1 DEF OwnersOK, Working, Live, Fresh
  <2> QED
    BY <1>0, <2>2, <2>3, <2>4 DEF CopiesOK
<1>2. CASE ~OpenSession(m)
  <2>1. config' = config
    BY <1>2 DEF ManagerStep, LoadRow, BeginCommand, Ensure, EraseSession, StopSession,
       JoinTransport, Install, rest
  <2>2. refreshes' \in Nat
    <3>1. CASE LoadRow(m)
      BY <3>1 DEF LoadRow, CopiesOK
    <3>2. CASE ~LoadRow(m)
      BY <1>2, <3>2 DEF ManagerStep, BeginCommand, Ensure, EraseSession, StopSession,
         JoinTransport, Install, rest, CopiesOK
    <3> QED
      BY <3>1, <3>2
  <2>3. /\ manager'[m].pc \in {"ensure", "open", "install"} => manager'[m].want # Off
        /\ manager'[m].pc # "install"
    <3>1. CASE LoadRow(m) \/ BeginCommand(m)
      BY <1>0, <3>1 DEF LoadRow, BeginCommand
    <3>2. CASE Ensure(m) \/ EraseSession(m)
      BY <1>0, <3>2 DEF Ensure, EraseSession, Jump, Return
    <3>3. CASE StopSession(m) \/ JoinTransport(m) \/ Install(m)
      BY <1>0, <3>3 DEF StopSession, JoinTransport, Install, Jump, Return
    <3> QED
      BY <1>2, <3>1, <3>2, <3>3 DEF ManagerStep
  <2> QED
    BY <1>0, <2>1, <2>2, <2>3 DEF CopiesOK
<1> QED
  BY <1>1, <1>2

LEMMA CopiesHold == Spec => []CopiesOK
<1>1. Init => CopiesOK
  BY DEF Init, CopiesOK
<1>2. SubsInv /\ OwnersOK /\ CopiesOK /\ [Next]_vars => CopiesOK'
  <2> SUFFICES ASSUME SubsInv, OwnersOK, CopiesOK, [Next]_vars PROVE CopiesOK'
    OBVIOUS
  <2>1. CASE \E m \in Manager : ManagerStep(m)
    BY <2>1, ManagerKeepsCopies
  <2>2. CASE Next /\ ~ \E m \in Manager : ManagerStep(m)
    <3>1. UNCHANGED <<manager, installed, config>>
      BY <2>2, HoldersUntouched DEF OwnersOK
    <3>2. refreshes' \in Nat
      <4>1. CASE \E e \in Endpoint \cup {Off} : ChangeRow(e)
        BY <4>1 DEF ChangeRow, CopiesOK
      <4>2. CASE ~ \E e \in Endpoint \cup {Off} : ChangeRow(e)
        BY <2>2, <4>2, RowUntouched DEF RowKept, OwnersOK, CopiesOK
      <4> QED
        BY <4>1, <4>2
    <3> QED
      BY <3>1, <3>2 DEF CopiesOK
  <2>3. CASE UNCHANGED vars
    BY <2>3 DEF vars, threads, CopiesOK
  <2> QED
    BY <2>1, <2>2, <2>3
<1> QED
  BY <1>1, <1>2, OwnersHold, PTL DEF Spec

\* Each step of a thread that pursues the row's settings brings them closer, and
\* no other thread, in order, undoes what is arranged.
LEMMA ManagerKeepsRefresh ==
  ASSUME SubsInv, OwnersOK, CopiesOK, RefreshOK, InOrder,
         NEW m \in Manager, ManagerStep(m)
  PROVE  RefreshOK'
<1>0. /\ ShapeOK
      /\ manager = [n \in Manager |-> manager[n]]
      /\ {"pc", "want", "victim"} \subseteq DOMAIN manager[m]
      /\ \A n \in Manager : n # m => manager'[n] = manager[n]
      /\ row' = row
  BY ThreadStep DEF SubsInv, ShapeOK
<1>1. \A n \in Manager : n # m /\ Pursues(n) => Pursues(n)'
  BY <1>0 DEF Pursues
<1>2. ASSUME refreshes' = refreshes, Arranged => Arranged' \/ Pursues(m)',
             Pursues(m) => Arranged' \/ Pursues(m)'
      PROVE  RefreshOK'
  BY <1>1, <1>2 DEF RefreshOK
<1>3. CASE LoadRow(m)
  <2>1. Pursues(m)'
    BY <1>0, <1>3 DEF LoadRow, Pursues
  <2> QED
    BY <2>1 DEF RefreshOK
<1>4. CASE BeginCommand(m)
  <2>1. ~Pursues(m) /\ UNCHANGED <<row, installed, config, refreshes>>
    BY <1>4 DEF BeginCommand, At, Pursues
  <2> QED
    BY <1>2, <2>1 DEF Arranged
<1>5. CASE Ensure(m)
  <2>1. /\ manager[m].pc = "ensure" /\ UNCHANGED <<row, installed, config, refreshes>>
        /\ manager'[m].pc = IF Keeps(m) THEN "idle" ELSE "drop"
        /\ manager'[m].want = manager[m].want
    BY <1>0, <1>5 DEF Ensure, At, Jump, rest
  <2>2. Pursues(m) /\ Keeps(m) => Arranged
    BY <2>1 DEF Pursues, Keeps, Arranged, CopiesOK
  <2>3. Pursues(m) /\ ~Keeps(m) => Pursues(m)'
    BY <2>1 DEF Pursues
  <2> QED
    BY <1>2, <2>1, <2>2, <2>3 DEF Arranged
<1>6. CASE EraseSession(m)
  <2>1. /\ manager[m].pc = "drop" /\ UNCHANGED <<row, config, refreshes>>
        /\ installed' = NoSession
        /\ manager'[m].pc = IF installed = NoSession THEN Return(m) ELSE "stop"
        /\ manager'[m].want = manager[m].want
    BY <1>0, <1>6 DEF EraseSession, At
  <2>2. Pursues(m) => Arranged' \/ Pursues(m)'
    BY <2>1 DEF Pursues, Arranged, Return
  <2>3. refreshes = 0 /\ installed # NoSession => Pursues(m)
    BY <1>6, <2>1 DEF InOrder, Pursues
  <2>4. installed = NoSession /\ Arranged => Arranged'
    BY <2>1 DEF Arranged
  <2> QED
    BY <1>1, <2>1, <2>2, <2>3, <2>4 DEF RefreshOK
<1>7. CASE StopSession(m) \/ JoinTransport(m)
  <2>1. /\ manager[m].pc \in {"stop", "join"}
        /\ UNCHANGED <<row, installed, config, refreshes>>
        /\ manager'[m].pc \in {"join", Return(m)}
        /\ manager'[m].want = manager[m].want
    BY <1>0, <1>7 DEF StopSession, JoinTransport, At, Jump, rest
  <2>2. Pursues(m) => Pursues(m)'
    BY <2>1 DEF Pursues, Return
  <2> QED
    BY <1>2, <2>1, <2>2 DEF Arranged
<1>8. CASE OpenSession(m)
  <2>1. PICK v \in Fresh :
          /\ config' = [config EXCEPT ![v] = manager[m].want]
          /\ manager' = [manager EXCEPT ![m].pc = "install", ![m].victim = v]
    BY <1>8 DEF OpenSession
  <2>2. /\ manager[m].pc = "open" /\ UNCHANGED <<row, installed, refreshes>>
        /\ manager'[m].pc = "install" /\ manager'[m].want = manager[m].want
    BY <1>0, <1>8, <2>1 DEF OpenSession, At
  <2>3. installed # NoSession => config'[installed] = config[installed]
    BY <2>1 DEF OwnersOK, Working, Live, Fresh, CopiesOK
  <2>4. Arranged => Arranged'
    BY <2>2, <2>3 DEF Arranged
  <2>5. Pursues(m) => Pursues(m)'
    BY <2>2 DEF Pursues
  <2> QED
    BY <1>2, <2>2, <2>4, <2>5
<1>9. CASE Install(m)
  <2>1. /\ manager[m].pc = "install" /\ installed' = manager[m].victim
        /\ UNCHANGED <<row, config, refreshes>>
    BY <1>9 DEF Install, At
  <2>2. refreshes = 0 => manager[m].want = row.endpoint
    BY <1>9, Zenon DEF InOrder
  <2>3. manager[m].want # Off /\ config[manager[m].victim] = manager[m].want
    BY <2>1 DEF CopiesOK
  <2>4. manager[m].victim # NoSession
    BY <2>1, ConnectionAssumption DEF OwnersOK, Working, Live
  <2> QED
    BY <2>1, <2>2, <2>3, <2>4 DEF RefreshOK, Arranged
<1> QED
  BY <1>3, <1>4, <1>5, <1>6, <1>7, <1>8, <1>9 DEF ManagerStep

\* If refreshes are in order then, however many threads run them, the last
\* change of the row takes effect: the session at work is the one that the row
\* describes, or there is none.
THEOREM LastRefreshWins == Spec /\ [][InOrder]_vars => []RefreshTakesEffect
<1>1. Init => RefreshOK
  BY DEF Init, RefreshOK
<1>2. SubsInv /\ OwnersOK /\ CopiesOK /\ RefreshOK /\ [Next]_vars /\ [InOrder]_vars
      => RefreshOK'
  <2> SUFFICES ASSUME SubsInv, OwnersOK, CopiesOK, RefreshOK, [Next]_vars,
                      [InOrder]_vars
               PROVE  RefreshOK'
    OBVIOUS
  <2>1. CASE UNCHANGED vars
    BY <2>1 DEF vars, threads, RefreshOK, Arranged, Pursues
  <2>2. CASE InOrder /\ \E m \in Manager : ManagerStep(m)
    BY <2>2, ManagerKeepsRefresh
  <2>3. CASE \E e \in Endpoint \cup {Off} : ChangeRow(e)
    <3>1. refreshes' = refreshes + 1 /\ refreshes \in Nat
      BY <2>3 DEF ChangeRow, CopiesOK
    <3> QED
      BY <3>1 DEF RefreshOK
  <2>4. CASE /\ Next /\ ~ \E m \in Manager : ManagerStep(m)
             /\ ~ \E e \in Endpoint \cup {Off} : ChangeRow(e)
    <3>1. /\ UNCHANGED <<manager, installed, config, refreshes>>
          /\ row'.endpoint = row.endpoint
      BY <2>4, RowUntouched DEF OwnersOK, RowKept
    <3> QED
      BY <3>1 DEF RefreshOK, Arranged, Pursues
  <2> QED
    BY <2>1, <2>2, <2>3, <2>4
<1>3. OwnersOK /\ RefreshOK /\ Orphans = {} => RefreshTakesEffect
  <2> SUFFICES ASSUME OwnersOK, RefreshOK, Orphans = {}, Settled, refreshes = 0
               PROVE  IF row.endpoint = Off THEN installed = NoSession /\ Live = {}
                      ELSE installed # NoSession /\ config[installed] = row.endpoint
                           /\ Live = {installed}
    BY DEF RefreshTakesEffect
  <2>1. \A m \in Manager : manager[m].pc = "idle"
    BY DEF Settled
  <2>2. Arranged
    BY <2>1 DEF RefreshOK, Pursues
  <2>3. /\ Live \subseteq {installed} /\ Live \subseteq Session
        /\ installed # NoSession => installed \in Live
    BY <2>1 DEF Orphans, Owned, Holds, Live, OwnersOK, Working
  <2> HIDE DEF Live
  <2> QED
    BY <2>2, <2>3, ConnectionAssumption DEF Arranged
<1>4. [InOrder]_vars => [NoOverwrite]_vars
  BY DEF InOrder
<1> QED
  BY <1>1, <1>2, <1>3, <1>4, OwnersHold, CopiesHold, NoneLost, PTL DEF Spec

-----------------------------------------------------------------------------
(* What the row says of the connection *)

\* The last event that waits on the strand is one of this kind, or none does.
LastIs(q, kind) ==
  \E i \in 1..Len(q) : /\ q[i].kind = kind
                       /\ \A j \in 1..Len(q) : i < j => q[j].kind = "subscribe"
NoEvent(q) == \A j \in 1..Len(q) : q[j].kind = "subscribe"

Says(r, kind) ==
  r.by = "lifecycle" /\ r.state = IF kind = "up" THEN "ONLINE" ELSE "DISCONNECTED"

\* The last that was said of the connection: by an event still to be handled,
\* or else by the row.
Said(q, r, kind) == LastIs(q, kind) \/ (NoEvent(q) /\ Says(r, kind))

LEMMA AppendSaid ==
  ASSUME NEW q \in Seq(Tasks), NEW k \in Tasks, NEW r, NEW kind
  PROVE  /\ k.kind = "subscribe" /\ Said(Append(q, k), r, kind) /\ kind # "subscribe"
              => Said(q, r, kind)
         /\ k.kind # "subscribe" /\ k.kind # kind => ~Said(Append(q, k), r, kind)
<1> DEFINE p == Append(q, k)  n == Len(q)
<1>1. /\ Len(p) = n + 1 /\ n \in Nat /\ p[n + 1] = k
      /\ \A i \in 1..n : p[i] = q[i] /\ i \in 1..Len(p) /\ i < n + 1
      /\ \A i \in 1..Len(p) : i = n + 1 \/ i \in 1..n
      /\ n + 1 \in 1..Len(p)
  OBVIOUS
<1> HIDE DEF p, n
<1>2. ASSUME k.kind = "subscribe", kind # "subscribe", LastIs(p, kind)
      PROVE  LastIs(q, kind)
  <2>1. PICK i \in 1..Len(p) :
          /\ p[i].kind = kind
          /\ \A j \in 1..Len(p) : i < j => p[j].kind = "subscribe"
    BY <1>2 DEF LastIs
  <2>2. i \in 1..n
    BY <1>1, <1>2, <2>1
  <2>3. q[i].kind = kind /\ \A j \in 1..n : i < j => q[j].kind = "subscribe"
    BY <1>1, <2>1, <2>2
  <2> QED
    BY <2>2, <2>3 DEF LastIs, n
<1>3. NoEvent(p) => NoEvent(q) /\ k.kind = "subscribe"
  BY <1>1 DEF NoEvent, n
<1>4. ASSUME LastIs(p, kind), k.kind # "subscribe" PROVE k.kind = kind
  BY <1>1, <1>4 DEF LastIs
<1> QED
  BY <1>2, <1>3, <1>4 DEF Said, p

LEMMA TailSaid ==
  ASSUME NEW q \in Seq(Tasks), q # << >>, NEW kind
  PROVE  /\ LastIs(Tail(q), kind) => LastIs(q, kind)
         /\ NoEvent(Tail(q)) => LastIs(q, Head(q).kind)
         /\ NoEvent(Tail(q)) /\ Head(q).kind = "subscribe" => NoEvent(q)
<1> DEFINE p == Tail(q)  n == Len(p)
<1>1. /\ Len(q) = n + 1 /\ n \in Nat /\ q[1] = Head(q) /\ 1 \in 1..Len(q)
      /\ \A i \in 1..n : p[i] = q[i + 1] /\ i + 1 \in 1..Len(q)
  OBVIOUS
<1> HIDE DEF p, n
<1>2. \A j \in 1..Len(q) : j # 1 => (j - 1 \in 1..n /\ p[j - 1] = q[j])
  <2> SUFFICES ASSUME NEW j \in 1..Len(q), j # 1
               PROVE  j - 1 \in 1..n /\ p[j - 1] = q[j]
    OBVIOUS
  <2>1. j - 1 \in 1..n /\ j = (j - 1) + 1
    BY <1>1
  <2> QED
    BY <1>1, <2>1
<1>3. ASSUME LastIs(p, kind) PROVE LastIs(q, kind)
  <2>1. PICK i \in 1..n :
          /\ p[i].kind = kind
          /\ \A j \in 1..n : i < j => p[j].kind = "subscribe"
    BY <1>3 DEF LastIs, n
  <2>2. \A j \in 1..Len(q) : i + 1 < j => q[j].kind = "subscribe"
    <3> SUFFICES ASSUME NEW j \in 1..Len(q), i + 1 < j
                 PROVE  q[j].kind = "subscribe"
      OBVIOUS
    <3>1. j # 1 /\ i < j - 1
      BY <1>1, <2>1
    <3> QED
      BY <1>2, <2>1, <3>1
  <2>3. i + 1 \in 1..Len(q) /\ q[i + 1].kind = kind
    BY <1>1, <2>1
  <2> QED
    BY <2>2, <2>3 DEF LastIs
<1>4. ASSUME NoEvent(p) PROVE LastIs(q, Head(q).kind)
  <2>1. \A j \in 1..Len(q) : 1 < j => q[j].kind = "subscribe"
    BY <1>1, <1>2, <1>4 DEF NoEvent, n
  <2> QED
    BY <1>1, <2>1 DEF LastIs
<1>5. ASSUME NoEvent(p), Head(q).kind = "subscribe" PROVE NoEvent(q)
  BY <1>1, <1>2, <1>5 DEF NoEvent, n
<1> QED
  BY <1>3, <1>4, <1>5 DEF p

\* While a connection is up the last event was not a loss, and if it was a
\* connection, that one has not been reported lost.
StatusOK ==
  /\ {"endpoint", "state", "by"} \subseteq DOMAIN row
  /\ row.by = "lifecycle" => row.state \in {"ONLINE", "DISCONNECTED"}
  /\ \A s \in Session : transport[s].pc = "read" => ~Said(strand, row, "down")
  /\ Said(strand, row, "up") =>
       \E s \in Session : transport[s].pc \in {"read", "ended"}

\* Steps that say nothing new, and neither set up nor end a connection.
LEMMA StatusKept ==
  ASSUME StatusOK,
         {"endpoint", "state", "by"} \subseteq DOMAIN row',
         row'.by = "lifecycle" => row'.state \in {"ONLINE", "DISCONNECTED"},
         \A kind \in {"up", "down"} :
           Said(strand', row', kind) => Said(strand, row, kind),
         \A s \in Session :
           /\ transport'[s].pc = "read" => transport[s].pc = "read"
           /\ transport[s].pc \in {"read", "ended"} =>
                transport'[s].pc \in {"read", "ended"}
  PROVE  StatusOK'
BY DEF StatusOK

\* A worker's step says what it does: it is the only one at work.
LEMMA MoveKeepsStatus ==
  ASSUME ShapeOK, StatusOK, \A a, b \in Live : a = b,
         NEW v \in Session, Move(v), UNCHANGED row
  PROVE  StatusOK'
<1>0. \A s \in Session : transport[s].pc \in {"read", "ended"} => s = v
  BY DEF Move, Live
<1>1. /\ Task("up", v) \in Tasks /\ Task("up", v).kind = "up"
      /\ Task("down", v) \in Tasks /\ Task("down", v).kind = "down"
  BY DEF Task, Tasks
<1>2. /\ {"endpoint", "state", "by"} \subseteq DOMAIN row'
      /\ row'.by = "lifecycle" => row'.state \in {"ONLINE", "DISCONNECTED"}
  BY DEF StatusOK
<1>3. CASE /\ transport[v].pc = "announce" /\ transport'[v].pc = "read"
           /\ strand' = Append(strand, Task("up", v))
  <2>1. ~Said(strand', row', "down")
    BY <1>1, <1>3, AppendSaid DEF ShapeOK
  <2> QED
    BY <1>2, <1>3, <2>1 DEF StatusOK
<1>4. CASE /\ transport[v].pc = "ended" /\ transport'[v].pc \in {"start", "exited"}
           /\ strand' = Append(strand, Task("down", v))
  <2>1. ~Said(strand', row', "up")
    BY <1>1, <1>4, AppendSaid DEF ShapeOK
  <2>2. \A s \in Session : transport'[s].pc # "read"
    BY <1>0, <1>4 DEF Move
  <2> QED
    BY <1>2, <2>1, <2>2 DEF StatusOK
<1>5. CASE /\ strand' = strand
           /\ transport'[v].pc = "read" => transport[v].pc = "read"
           /\ transport[v].pc = "read" => transport'[v].pc \in {"read", "ended"}
           /\ transport[v].pc # "ended"
  <2>1. \A s \in Session :
          /\ transport'[s].pc = "read" => transport[s].pc = "read"
          /\ transport[s].pc \in {"read", "ended"} =>
               transport'[s].pc \in {"read", "ended"}
    BY <1>5 DEF Move
  <2>2. \A kind \in {"up", "down"} :
          Said(strand', row', kind) => Said(strand, row, kind)
    BY <1>5
  <2> QED
    BY <1>2, <2>1, <2>2, StatusKept
<1> QED
  BY <1>3, <1>4, <1>5 DEF Move

\* The strand's tasks put into the row what they say.
LEMMA StrandKeepsSaid ==
  ASSUME ShapeOK, StatusOK, StrandStep
  PROVE  /\ {"endpoint", "state", "by"} \subseteq DOMAIN row'
         /\ row'.by = "lifecycle" => row'.state \in {"ONLINE", "DISCONNECTED"}
         /\ \A kind \in {"up", "down"} :
              Said(strand', row', kind) => Said(strand, row, kind)
<1>0. /\ strand \in Seq(Tasks) /\ {"endpoint", "state", "by"} \subseteq DOMAIN row
  BY DEF ShapeOK, StatusOK
<1>1. CASE HandleUp
  <2>1. /\ strand # << >> /\ strand' = Tail(strand) /\ Head(strand).kind = "up"
        /\ SetState("ONLINE", "lifecycle")
    BY <1>1 DEF HandleUp, Next1
  <2>2. /\ row'.by = "lifecycle" /\ row'.state = "ONLINE"
        /\ {"endpoint", "state", "by"} \subseteq DOMAIN row'
    BY <1>0, <2>1 DEF SetState
  <2>3. Says(row', "down") => FALSE
    BY <2>2 DEF Says
  <2> QED
    BY <1>0, <2>1, <2>2, <2>3, TailSaid DEF Said
<1>2. CASE HandleDown
  <2>1. /\ strand # << >> /\ strand' = Tail(strand) /\ Head(strand).kind = "down"
        /\ SetState("DISCONNECTED", "lifecycle")
    BY <1>2 DEF HandleDown, Next1
  <2>2. /\ row'.by = "lifecycle" /\ row'.state = "DISCONNECTED"
        /\ {"endpoint", "state", "by"} \subseteq DOMAIN row'
    BY <1>0, <2>1 DEF SetState
  <2>3. Says(row', "up") => FALSE
    BY <2>2 DEF Says
  <2> QED
    BY <1>0, <2>1, <2>2, <2>3, TailSaid DEF Said
<1>3. CASE HandleSubscribe
  <2>1. /\ strand # << >> /\ strand' = Tail(strand)
        /\ Head(strand).kind = "subscribe" /\ row' = row
    BY <1>3 DEF HandleSubscribe, Next1, rest
  <2> QED
    BY <1>0, <2>1, TailSaid DEF Said, StatusOK
<1> QED
  BY <1>1, <1>2, <1>3 DEF StrandStep

\* No other step says anything of the connection, but that a scan may put the
\* row out of the lifecycle's hands.
LEMMA OthersKeepSaid ==
  ASSUME ShapeOK, StatusOK, Next, ~StrandStep, ~ \E s \in Session : TransportStep(s)
  PROVE  /\ {"endpoint", "state", "by"} \subseteq DOMAIN row'
         /\ row'.by = "lifecycle" => row'.state \in {"ONLINE", "DISCONNECTED"}
         /\ \A kind \in {"up", "down"} :
              Said(strand', row', kind) => Said(strand, row, kind)
<1> DEFINE Good ==
      /\ {"endpoint", "state", "by"} \subseteq DOMAIN row'
      /\ row'.by = "lifecycle" => row'.state \in {"ONLINE", "DISCONNECTED"}
      /\ \A kind \in {"up", "down"} :
           Said(strand', row', kind) => Said(strand, row, kind)
<1>1. ASSUME UNCHANGED <<row, strand>> PROVE Good
  BY <1>1 DEF StatusOK
<1>2. ASSUME NEW e, ChangeRow(e) PROVE Good
  <2>1. row' = [row EXCEPT !.endpoint = e] /\ strand' = strand
    BY <1>2 DEF ChangeRow
  <2>2. /\ row'.by = row.by /\ row'.state = row.state
        /\ {"endpoint", "state", "by"} \subseteq DOMAIN row'
    BY <2>1 DEF StatusOK
  <2> QED
    BY <2>1, <2>2 DEF StatusOK, Said, Says
<1>3. ASSUME NEW m \in Manager, Install(m) PROVE Good
  <2>1. PICK k \in Tasks : strand' = Append(strand, k) /\ k.kind = "subscribe"
    BY <1>3 DEF Install, At, PostStrand, ShapeOK, Task, Tasks
  <2>2. row' = row
    BY <1>3 DEF Install
  <2> QED
    BY <2>1, <2>2, AppendSaid DEF ShapeOK, StatusOK
<1>4. ASSUME NEW d \in Scanner, MarkDisconnected(d) PROVE Good
  <2>1. row' = [row EXCEPT !.state = "DISCONNECTED", !.by = "scan"] /\ strand' = strand
    BY <1>4 DEF MarkDisconnected, SetState
  <2>2. row'.by = "scan" /\ {"endpoint", "state", "by"} \subseteq DOMAIN row'
    BY <2>1 DEF StatusOK
  <2> QED
    BY <2>1, <2>2 DEF Said, Says
<1> HIDE DEF Good
<1>5. ASSUME NEW m \in Manager, ManagerStep(m), ~Install(m) PROVE Good
  <2>1. UNCHANGED <<row, strand>>
    BY <1>5 DEF ManagerStep, LoadRow, BeginCommand, Ensure, EraseSession, StopSession,
       JoinTransport, OpenSession, rest
  <2> QED
    BY <1>1, <2>1
<1>6. ASSUME NEW d \in Scanner, ScannerStep(d), ~MarkDisconnected(d) PROVE Good
  <2>1. UNCHANGED <<row, strand>>
    <3>1. CASE BeginScan(d)
      BY <3>1 DEF BeginScan
    <3>2. ~BeginScan(d) => UNCHANGED <<strand, scanRest>>
      BY <1>6, Zenon DEF ScannerStep, CallService, Answered, GiveUp, Forget,
         RequestReconnect, AwaitReconnect
    <3> QED
      BY <3>1, <3>2 DEF scanRest
  <2> QED
    BY <1>1, <2>1
<1>7. ASSUME NEW s \in Session, EndSample(s) \/ PollBattery(s) PROVE Good
  <2>1. UNCHANGED <<row, strand>>
    BY <1>7 DEF EndSample, PollBattery, rest
  <2> QED
    BY <1>1, <2>1
<1>8. ASSUME NEW s \in Session, NEW c \in Call, Response(s, c) PROVE Good
  <2>1. UNCHANGED <<row, strand>>
    BY <1>8 DEF Response, rest
  <2> QED
    BY <1>1, <2>1
<1>9. Good
  BY <1>2, <1>3, <1>4, <1>5, <1>6, <1>7, <1>8 DEF Next
<1> QED
  BY <1>9 DEF Good

\* What OneConnection says of the transports themselves.
LEMMA OneIsAll ==
  ASSUME IsFiniteSet(Live), OneConnection
  PROVE  \A a, b \in Live : a = b
<1> SUFFICES ASSUME NEW a \in Live, NEW b \in Live, a # b PROVE FALSE
  OBVIOUS
<1> HIDE DEF Live
<1>1. Cardinality({a}) = 1 /\ IsFiniteSet({a})
  BY FS_Singleton
<1>2. Cardinality({a} \cup {b}) = 2
  BY <1>1, FS_AddElement
<1>3. Cardinality({a} \cup {b}) <= Cardinality(Live)
  BY FS_Subset
<1>4. Cardinality(Live) \in Nat
  BY FS_CardinalityType
<1> QED
  BY <1>2, <1>3, <1>4 DEF OneConnection

LEMMA StepKeepsStatus ==
  ASSUME SubsInv, \A a, b \in Live : a = b, StatusOK, [Next]_vars
  PROVE  StatusOK'
<1>0. ShapeOK
  BY DEF SubsInv
<1>1. ASSUME NEW v \in Session, TransportStep(v) PROVE StatusOK'
  <2>1. Move(v) /\ row' = row
    BY <1>0, <1>1, TransportMoves DEF SubsInv, Wired, TransportStep, rest
  <2> QED
    BY <1>0, <2>1, MoveKeepsStatus
<1>2. ASSUME Next, ~ \E s \in Session : TransportStep(s) PROVE StatusOK'
  <2>1. \A s \in Session :
          /\ transport'[s].pc = "read" => transport[s].pc = "read"
          /\ transport[s].pc \in {"read", "ended"} =>
               transport'[s].pc \in {"read", "ended"}
    <3>1. CASE ~ \E m \in Manager : OpenSession(m)
      BY <1>0, <1>2, <3>1, PcUntouched
    <3>2. CASE \E m \in Manager : OpenSession(m)
      <4>1. PICK v \in Fresh : transport' = Started(v)
        BY <3>2 DEF OpenSession
      <4>2. \A s \in Session :
              transport'[s] = IF s = v THEN [NewTransport EXCEPT !.pc = "start"]
                              ELSE transport[s]
        BY <1>0, <4>1 DEF Started, ShapeOK
      <4> QED
        BY <4>1, <4>2 DEF Fresh, NewTransport
    <3> QED
      BY <3>1, <3>2
  <2>2. /\ {"endpoint", "state", "by"} \subseteq DOMAIN row'
        /\ row'.by = "lifecycle" => row'.state \in {"ONLINE", "DISCONNECTED"}
        /\ \A kind \in {"up", "down"} :
             Said(strand', row', kind) => Said(strand, row, kind)
    <3>1. CASE StrandStep
      BY <1>0, <3>1, StrandKeepsSaid
    <3>2. CASE ~StrandStep
      BY <1>0, <1>2, <3>2, OthersKeepSaid
    <3> QED
      BY <3>1, <3>2
  <2> QED
    BY <2>1, <2>2, StatusKept
<1>3. CASE UNCHANGED vars
  BY <1>3 DEF vars, StatusOK
<1> QED
  BY <1>1, <1>2, <1>3

\* However many threads refresh and send commands, the row can only be wrong
\* where two transports have been at work at once: otherwise, once everything
\* is at rest, it says ONLINE exactly while a connection is up, unless a scan
\* wrote it last.
THEOREM RowTellsConnection == Spec /\ []OneConnection => []StatusSettles
<1>1. Init => StatusOK
  <2> SUFFICES ASSUME Init PROVE StatusOK
    OBVIOUS
  <2>1. \A s \in Session : transport[s].pc = "idle"
    BY DEF Init, NewTransport
  <2>2. /\ Len(strand) = 0 /\ row.by = "api"
        /\ {"endpoint", "state", "by"} \subseteq DOMAIN row
    BY DEF Init
  <2> QED
    BY <2>1, <2>2 DEF StatusOK, Said, Says, LastIs
<1>2. SubsInv /\ IsFiniteSet(Live) /\ OneConnection /\ StatusOK /\ [Next]_vars
      => StatusOK'
  BY StepKeepsStatus, OneIsAll
<1>3. StatusOK => StatusSettles
  <2> SUFFICES ASSUME StatusOK, Settled, row.by = "lifecycle"
               PROVE  row.state = "ONLINE" <=> Reading # {}
    BY DEF StatusSettles
  <2>1. NoEvent(strand) /\ \A s \in Live : transport[s].pc \in {"read", "start"}
    BY DEF Settled, NoEvent
  <2>2. row.state = "ONLINE" => \E s \in Session : transport[s].pc \in {"read", "ended"}
    BY <2>1 DEF StatusOK, Said, Says
  <2>3. row.state = "ONLINE" => Reading # {}
    BY <2>1, <2>2 DEF Reading, Live
  <2>4. Reading # {} => row.state # "DISCONNECTED"
    BY <2>1 DEF StatusOK, Said, Says, Reading, Live
  <2>5. row.state \in {"ONLINE", "DISCONNECTED"}
    BY DEF StatusOK
  <2> QED
    BY <2>3, <2>4, <2>5
<1> QED
  BY <1>1, <1>2, <1>3, SubsInvHolds, LiveFinite, PTL DEF Spec
=============================================================================
