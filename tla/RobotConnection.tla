--------------------------- MODULE RobotConnection ---------------------------
(***************************************************************************)
(* How RobotRuntime (ros/robot_runtime.cpp) keeps one robot connected:     *)
(* refreshConnections and ensureRobot replace its session when its row     *)
(* changes, lifecycle events on its strand keep the row's connection       *)
(* state, the battery is sampled by delayed tasks, and scans of its        *)
(* interfaces call services and may force a reconnect.  Refreshes run on a *)
(* pool of blocking threads, and every thread that sends a command calls   *)
(* ensureRobot too; nothing keeps these threads apart.                     *)
(***************************************************************************)
EXTENDS RosbridgeSession

CONSTANTS
  Endpoint,   \* connection settings a READY, enabled row may have
  Off,        \* a row that is not to be connected
  NoSession,
  Manager,    \* threads that run refreshConnections or ensureRobot
  Dispatcher, \* those among them that send commands to the robot
  Scanner,    \* blocking threads that run discoverInterfaces
  Changes,    \* bound: changes of the row, and commands
  Scans       \* bound: scans that connects ask for

ASSUME ConnectionAssumption ==
  /\ Dispatcher \subseteq Manager
  /\ Off \notin Endpoint
  /\ NoSession \notin Session
  /\ Changes \in Nat /\ Scans \in Nat

VARIABLES
  row,        \* the robot's row: its settings, and who wrote its state last
  changes, refreshes, scans,   \* changes and commands; refreshes and scans posted
  installed,  \* sessions_[robot]
  config,     \* session -> the settings it was opened with
  battery_stop,  \* session -> its delayed tasks are to end
  manager,    \* manager -> the locals of its refresh or dispatch
  scanner     \* scanner -> the locals of its scan

vars == <<transport, strand, session, row, changes, refreshes, scans,
          installed, config, battery_stop, manager, scanner>>
threads == <<manager, scanner>>
rest == <<row, changes, refreshes, scans, installed, config>>

SetState(s, by) == row' = [row EXCEPT !.state = s, !.by = by]

-----------------------------------------------------------------------------
(* The API: PUT /robots and the like, then scheduleRefreshConnections.     *)
ChangeRow(e) ==
  /\ changes < Changes /\ e # row.endpoint
  /\ row' = [row EXCEPT !.endpoint = e]
  /\ changes' = changes + 1
  /\ refreshes' = refreshes + 1
  /\ UNCHANGED <<transport, strand, session, scans, installed, config, battery_stop,
                 threads>>

-----------------------------------------------------------------------------
(* refreshConnections, ensureRobot and dropRobot, on any thread.           *)
At(m, pc) == manager[m].pc = pc
Jump(m, pc) == manager' = [manager EXCEPT ![m].pc = pc]

\* listRobots(): the rest of the refresh works on this copy.
LoadRow(m) ==
  /\ At(m, "idle") /\ refreshes > 0
  /\ refreshes' = refreshes - 1
  /\ manager' = [manager EXCEPT ![m] =
       [pc |-> IF row.endpoint = Off THEN "drop" ELSE "ensure",
        want |-> row.endpoint, victim |-> NoSession]]
  /\ UNCHANGED <<transport, strand, session, row, changes, scans, installed,
                 config, battery_stop, scanner>>

\* A command is sent with the copy of the row that the dispatching thread has
\* read.  It does not look whether the row is to be connected: a disabled row
\* may still have any settings.
BeginCommand(m) ==
  /\ m \in Dispatcher /\ At(m, "idle") /\ changes < Changes
  /\ changes' = changes + 1
  /\ \E e \in Endpoint :
       /\ row.endpoint \in {e, Off}
       /\ manager' = [manager EXCEPT ![m] =
            [pc |-> "ensure", want |-> e, victim |-> NoSession]]
  /\ UNCHANGED <<transport, strand, session, row, refreshes, scans, installed,
                 config, battery_stop, scanner>>

\* A session for the same endpoint is kept.
KeepsAny(m) == installed # NoSession
Keeps(m) == installed # NoSession /\ config[installed] = manager[m].want
Ensure(m) ==
  /\ At(m, "ensure")
  /\ Jump(m, IF Keeps(m) THEN "idle" ELSE "drop")
  /\ UNCHANGED <<transport, strand, session, rest, battery_stop, scanner>>

\* Where dropRobot returns to: ensureRobot, or the sweep of unwanted sessions.
Return(m) == IF manager[m].want = Off THEN "idle" ELSE "open"

EraseSession(m) ==
  /\ At(m, "drop")
  /\ installed' = NoSession
  /\ manager' = [manager EXCEPT
       ![m].pc = IF installed = NoSession THEN Return(m) ELSE "stop",
       ![m].victim = installed]
  /\ UNCHANGED <<transport, strand, session, row, changes, refreshes, scans,
                 config, battery_stop, scanner>>

\* The battery is unsubscribed under the session's mutex, then stop() begins.
StopSession(m) ==
  /\ At(m, "stop")
  /\ LET s == manager[m].victim IN
       /\ battery_stop' = [battery_stop EXCEPT ![s] = TRUE]
       /\ subs' = [subs EXCEPT ![s] = @ \ {"battery"}]
       /\ transport' = Stopped(s)
  /\ Jump(m, "join")
  /\ UNCHANGED <<strand, state, pending, arriving, rest, scanner>>

JoinedAtOnce(s) == TRUE
Joined(s) == transport[s].pc = "exited"
JoinTransport(m) ==
  /\ At(m, "join")
  /\ Joined(manager[m].victim)
  /\ Jump(m, Return(m))
  /\ UNCHANGED <<transport, strand, session, rest, battery_stop, scanner>>

Fresh == {s \in Session : transport[s].pc = "idle"}
OpenSession(m) ==
  /\ At(m, "open")
  /\ \E s \in Fresh :
       /\ transport' = Started(s)
       /\ config' = [config EXCEPT ![s] = manager[m].want]
       /\ manager' = [manager EXCEPT ![m].pc = "install", ![m].victim = s]
  /\ UNCHANGED <<strand, session, row, changes, refreshes, scans, installed,
                 battery_stop, scanner>>

Install(m) ==
  /\ At(m, "install")
  /\ PostStrand(Task("subscribe", manager[m].victim))
  /\ installed' = manager[m].victim
  /\ Jump(m, "idle")
  /\ UNCHANGED <<transport, session, row, changes, refreshes, scans, config,
                 battery_stop, scanner>>

ManagerStep(m) ==
  \/ LoadRow(m) \/ BeginCommand(m) \/ Ensure(m) \/ EraseSession(m)
  \/ StopSession(m) \/ JoinTransport(m) \/ OpenSession(m) \/ Install(m)

-----------------------------------------------------------------------------
(* The tasks of the robot's strand, each under its session's mutex.        *)
Next1(kind) == strand # << >> /\ Head(strand).kind = kind

HandleUp ==
  /\ Next1("up")
  /\ strand' = Tail(strand)
  /\ OnTransportConnected(Head(strand).session)
  /\ SetState("ONLINE", "lifecycle")
  /\ scans' = IF scans < Scans THEN scans + 1 ELSE scans
  /\ UNCHANGED <<subs, pending, arriving, changes, refreshes, installed,
                 config, battery_stop, threads>>

HandleDown ==
  /\ Next1("down")
  /\ strand' = Tail(strand)
  /\ OnTransportClosed(Head(strand).session)
  /\ SetState("DISCONNECTED", "lifecycle")
  /\ UNCHANGED <<transport, subs, pending, arriving, changes, refreshes, scans,
                 installed, config, battery_stop, threads>>

\* The first task of a session: pose topic, battery sample, battery poll.
HandleSubscribe ==
  /\ Next1("subscribe")
  /\ strand' = Tail(strand)
  /\ LET s == Head(strand).session IN
       Subscribe(s, IF battery_stop[s] THEN {"pose"} ELSE {"pose", "battery"})
  /\ UNCHANGED <<state, pending, arriving, rest, battery_stop, threads>>

\* A message of the battery, or the end of its window while online.
EndSample(s) ==
  /\ "battery" \in subs[s] /\ state[s] = "Online"
  /\ Unsubscribe(s, {"battery"})
  /\ UNCHANGED <<strand, state, pending, arriving, rest, battery_stop, threads>>

\* The delayed task of the poll samples and arms itself again, or ends.
PollAfterStop(s) == "pose" \in subs[s]
Polls(s) == "pose" \in subs[s] /\ ~battery_stop[s]
PollBattery(s) ==
  /\ Polls(s)
  /\ Subscribe(s, {"battery"})
  /\ UNCHANGED <<strand, state, pending, arriving, rest, battery_stop, threads>>

StrandStep == HandleUp \/ HandleDown \/ HandleSubscribe

-----------------------------------------------------------------------------
(* discoverInterfaces: two service calls, and once more after a reconnect. *)
NoScan == [pc |-> "idle", session |-> NoSession, call |-> "none", asked |-> 0,
           timeouts |-> 0, again |-> FALSE]

ScanAt(d, pc) == scanner[d].pc = pc
Scan(d, rec) == scanner' = [scanner EXCEPT ![d] = rec]
scanRest == <<row, changes, refreshes, scans, installed, config, battery_stop, manager>>

BeginScan(d) ==
  /\ ScanAt(d, "idle") /\ scans > 0
  /\ scans' = scans - 1
  /\ IF installed # NoSession /\ transport[installed].connected
       THEN Scan(d, [NoScan EXCEPT !.pc = "call", !.session = installed])
       ELSE UNCHANGED scanner
  /\ UNCHANGED <<transport, strand, session, row, changes, refreshes, installed,
                 config, battery_stop, manager>>

\* After a call: the next one, the reconnect if both got no answer, the end.
AfterCall(rec, timedOut) ==
  LET r == [rec EXCEPT !.asked = @ + 1, !.call = "none",
                       !.timeouts = IF timedOut THEN @ + 1 ELSE @]
  IN IF r.asked < 2 THEN [r EXCEPT !.pc = "call"]
     ELSE IF r.timeouts = 2 /\ ~r.again THEN [r EXCEPT !.pc = "mark"]
     ELSE NoScan

CallService(d) ==
  /\ ScanAt(d, "call")
  /\ LET s == scanner[d].session IN
       \/ \E c \in Call : /\ CallSent(s, c)
                          /\ Scan(d, [scanner[d] EXCEPT !.pc = "wait", !.call = c])
       \/ /\ CallNotSent(s)
          /\ Scan(d, AfterCall(scanner[d], TRUE))
          /\ UNCHANGED <<transport, session>>
  /\ UNCHANGED <<strand, scanRest>>

Answered(d) ==
  /\ ScanAt(d, "wait")
  /\ scanner[d].call \notin pending[scanner[d].session]
  /\ Scan(d, AfterCall(scanner[d], FALSE))
  /\ UNCHANGED <<transport, strand, session, scanRest>>

\* The wait ends without an answer; one may still come before the mutex is held.
GiveUp(d) ==
  /\ ScanAt(d, "wait")
  /\ Scan(d, [scanner[d] EXCEPT !.pc = "forget"])
  /\ UNCHANGED <<transport, strand, session, scanRest>>

Forget(d) ==
  /\ ScanAt(d, "forget")
  /\ ForgetServiceCall(scanner[d].session, scanner[d].call)
  /\ Scan(d, AfterCall(scanner[d], TRUE))
  /\ UNCHANGED <<transport, strand, scanRest>>

MarkDisconnected(d) ==
  /\ ScanAt(d, "mark")
  /\ SetState("DISCONNECTED", "scan")
  /\ Scan(d, [scanner[d] EXCEPT !.pc = "abort"])
  /\ UNCHANGED <<transport, strand, session, changes, refreshes, scans,
                 installed, config, battery_stop, manager>>

RequestReconnect(d) ==
  /\ ScanAt(d, "abort")
  /\ transport' = ReconnectRequested(scanner[d].session)
  /\ Scan(d, [scanner[d] EXCEPT !.pc = "await"])
  /\ UNCHANGED <<strand, session, scanRest>>

\* The session is online again and scanned once more, or the wait is over.
AwaitReconnect(d) ==
  /\ ScanAt(d, "await")
  /\ \/ /\ transport[scanner[d].session].connected
        /\ state[scanner[d].session] = "Online"
        /\ Scan(d, [NoScan EXCEPT !.pc = "call", !.again = TRUE,
                                  !.session = scanner[d].session])
     \/ Scan(d, NoScan)
  /\ UNCHANGED <<transport, strand, session, scanRest>>

ScannerStep(d) ==
  \/ BeginScan(d) \/ CallService(d) \/ Answered(d) \/ GiveUp(d) \/ Forget(d)
  \/ MarkDisconnected(d) \/ RequestReconnect(d) \/ AwaitReconnect(d)

-----------------------------------------------------------------------------
TransportStep(s) ==
  /\ Network(s) \/ Worker(s)
  /\ UNCHANGED <<session, rest, battery_stop, threads>>

Response(s, c) ==
  /\ HandleResponse(s, c)
  /\ UNCHANGED <<transport, strand, rest, battery_stop, threads>>

Init ==
  /\ transport = [s \in Session |-> NewTransport]
  /\ strand = << >>
  /\ state = [s \in Session |-> "Disconnected"]
  /\ subs = [s \in Session |-> {}]
  /\ pending = [s \in Session |-> {}]
  /\ arriving = {}
  /\ row = [endpoint |-> CHOOSE e \in Endpoint : TRUE, state |-> "DISCONNECTED",
             by |-> "api"]
  /\ changes = 0 /\ refreshes = 1 /\ scans = 0   \* POST /robots has just added it
  /\ installed = NoSession
  /\ config = [s \in Session |-> Off]
  /\ battery_stop = [s \in Session |-> FALSE]
  /\ manager = [m \in Manager |->
                  [pc |-> "idle", want |-> Off, victim |-> NoSession]]
  /\ scanner = [d \in Scanner |-> NoScan]

Next ==
  \/ \E e \in Endpoint \cup {Off} : ChangeRow(e)
  \/ \E m \in Manager : ManagerStep(m)
  \/ \E d \in Scanner : ScannerStep(d)
  \/ StrandStep
  \/ \E s \in Session : TransportStep(s) \/ EndSample(s) \/ PollBattery(s)
  \/ \E s \in Session, c \in Call : Response(s, c)

Spec == Init /\ [][Next]_vars

-----------------------------------------------------------------------------
Live == {s \in Session : transport[s].pc \notin {"idle", "exited"}}

\* At most one transport is at work for a robot, however its row changes.
OneConnection == Cardinality(Live) <= 1

\* The session that a thread is stopping, or has opened and not yet installed.
Holds(m, s) == manager[m].pc \in {"stop", "join", "install"} /\ manager[m].victim = s
Owned(s) == installed = s \/ \E m \in Manager : Holds(m, s)
Orphans == {s \in Live : ~Owned(s)}

\* Whatever threads overlap: a transport at work is let go, never to be stopped
\* again, only where a thread installs its session over one that is installed.
LostOnlyByInstall ==
  [][\A s \in Orphans' \ Orphans :
       \E m \in Manager : Install(m) /\ installed = s]_vars

\* No thread is ever shutting down the session that is installed, the one that
\* commands are sent by.
InstalledIsKept == installed # NoSession => ~transport[installed].stop

\* Nothing is under way that would still change what the backend knows.
Settled == /\ strand = << >>
           /\ \A m \in Manager : manager[m].pc = "idle"
           /\ \A d \in Scanner : scanner[d].pc = "idle"
           /\ \A s \in Live : /\ transport[s].pc \in {"read", "start"}
                            /\ ~transport[s].closing

Reading == {s \in Live : transport[s].pc = "read"}

\* A subscription survives any loss of the connection: while one is up, the
\* robot serves at least the topics the session counts on.
SubscriptionsRestored ==
  Settled => \A s \in Reading :
    transport[s].alive => subs[s] \subseteq transport[s].peer

\* Events of an old session and of its successor are applied in order: the row
\* says ONLINE exactly while a connection is up, unless a scan wrote it last.
StatusSettles ==
  Settled /\ row.by = "lifecycle" => (row.state = "ONLINE" <=> Reading # {})

\* A call that no thread waits for is not pending, or it would stay for ever.
PendingHasCaller ==
  \A s \in Session : \A c \in pending[s] :
    \E d \in Scanner : scanner[d].session = s /\ scanner[d].call = c

\* A delayed battery task does not bring a dropped session's sampling back.
DroppedIsQuiet ==
  \A s \in Session : battery_stop[s] => "battery" \notin subs[s]

\* The last change of a row takes effect: its session is the one it describes,
\* or there is none; nothing of its predecessors is left at work.
RefreshTakesEffect ==
  Settled /\ refreshes = 0 =>
    IF row.endpoint = Off
      THEN installed = NoSession /\ Live = {}
      ELSE installed # NoSession /\ config[installed] = row.endpoint
           /\ Live = {installed}
=============================================================================
