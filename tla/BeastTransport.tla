--------------------------- MODULE BeastTransport ---------------------------
(***************************************************************************)
(* The WebSocket transports of a robot (ros/beast_transport.cpp), one per  *)
(* session that was ever opened for it: a worker thread that connects,     *)
(* reads, reports the end and starts again until it is stopped.  The       *)
(* lifecycle callback posts to the robot's strand (robot_runtime.cpp:393). *)
(***************************************************************************)
EXTENDS Naturals, Sequences, FiniteSets

CONSTANTS
  Session,      \* sessions, and their transports
  StrandBound   \* bound: lifecycle events that wait on the strand

VARIABLES
  transport,  \* session -> the state of its transport
  strand      \* tasks posted to the robot's strand

NewTransport ==
  [pc |-> "idle", stop |-> FALSE, connected |-> FALSE, ws |-> FALSE,
   alive |-> FALSE,     \* the network still carries what is written
   closing |-> FALSE,   \* close(), posted to the io_context and not yet run
   leftover |-> FALSE,  \* a handler of an earlier cycle is still queued
   peer |-> {}]         \* the topics the robot serves on this connection

TransportPc == {"idle", "start", "resolve", "connect", "announce", "read", "ended",
                "exited"}

Task(kind, s) == [kind |-> kind, session |-> s]
PostStrand(task) == strand' = Append(strand, task)

Go(s, pc) == transport' = [transport EXCEPT ![s].pc = pc]

\* start(): the worker begins.
Started(s) == [transport EXCEPT ![s] = [NewTransport EXCEPT !.pc = "start"]]

\* stop(), up to the join of the worker.
Stopped(s) == [transport EXCEPT ![s].stop = TRUE, ![s].connected = FALSE]

\* requestReconnect() and close().
ReconnectRequested(s) ==
  [transport EXCEPT ![s].connected = FALSE, ![s].closing = TRUE]

\* The loop's head, at once or after the pause of two seconds that stop() cuts
\* short: ioc.restart() and the resolver, or the end of the thread.
BeginCycle(s) ==
  /\ transport[s].pc = "start"
  /\ Go(s, IF transport[s].stop THEN "exited" ELSE "resolve")
  /\ UNCHANGED strand

Cycle == {"resolve", "connect", "read"}
Busy(s, pc) == transport[s].pc = pc /\ ~transport[s].stop

\* What is already queued runs before the resolver's answer.
Resolved(s) ==
  /\ Busy(s, "resolve")
  /\ ~transport[s].leftover /\ ~transport[s].closing
  /\ transport' = [transport EXCEPT ![s].pc = "connect", ![s].ws = TRUE]
  /\ UNCHANGED strand

\* The connect, and then the handshake, has succeeded.
Handshaken(s) == Busy(s, "connect") /\ Go(s, "announce") /\ UNCHANGED strand

\* The handshake's handler goes on, whether or not stop() has come meanwhile.
Announce(s) ==
  /\ transport[s].pc = "announce"
  /\ transport' = [transport EXCEPT ![s].pc = "read", ![s].connected = TRUE,
                                    ![s].alive = TRUE, ![s].peer = {}]
  /\ PostStrand(Task("up", s))

\* A connection may go silent; the keep-alive pings then end it.
GoSilent(s) ==
  /\ Busy(s, "read") /\ transport[s].alive
  /\ transport' = [transport EXCEPT ![s].alive = FALSE]
  /\ UNCHANGED strand

\* An asynchronous operation fails: refused, reset, closed, no answer to pings.
Fail(s) ==
  /\ transport[s].pc \in Cycle
  /\ Go(s, "ended")
  /\ UNCHANGED strand

\* The connection timer stops the io_context and leaves the aborted handler of
\* the operation it interrupted in the queue of the next cycle.
TimeOutConnection(s) ==
  /\ transport[s].pc \in {"resolve", "connect"}
  /\ transport' = [transport EXCEPT ![s].pc = "ended", ![s].leftover = TRUE]
  /\ UNCHANGED strand

\* That handler refers to variables of a scope that was left: it may end the
\* cycle whose variables took their place, or none.
RunLeftover(s) ==
  /\ transport[s].pc = "resolve" /\ transport[s].leftover
  /\ \E pc \in {"resolve", "ended"} :
       transport' = [transport EXCEPT ![s].pc = pc, ![s].leftover = FALSE]
  /\ UNCHANGED strand

\* The posted close() runs between two handlers; its socket's operation fails.
RunClose(s) ==
  /\ transport[s].pc \in Cycle /\ transport[s].closing
  /\ transport' = [transport EXCEPT
       ![s].closing = FALSE, ![s].pc = IF transport[s].ws THEN "ended" ELSE @]
  /\ UNCHANGED strand

\* stop() stops the io_context; every handler looks at stop_requested_.
Interrupt(s) ==
  /\ transport[s].pc \in Cycle /\ transport[s].stop
  /\ Go(s, "ended")
  /\ UNCHANGED strand

Ended(tr) ==
  IF tr.stop THEN [NewTransport EXCEPT !.pc = "exited", !.stop = TRUE]
  ELSE [tr EXCEPT !.ws = FALSE, !.connected = FALSE, !.alive = FALSE,
                  !.peer = {}, !.pc = "start"]
\* The end of a cycle is reported whether or not it had been connected.
ReportEndIfConnected(s) ==
  IF transport[s].connected THEN PostStrand(Task("down", s)) ELSE UNCHANGED strand
ReportEnd(s) == PostStrand(Task("down", s))
EndCycle(s) ==
  /\ transport[s].pc = "ended"
  /\ Len(strand) < StrandBound \/ transport[s].stop
  /\ transport' = [transport EXCEPT ![s] = Ended(@)]
  /\ ReportEnd(s)

\* What the network does, and what the worker does of itself.
Network(s) == \/ Resolved(s) \/ Handshaken(s) \/ GoSilent(s) \/ Fail(s)
              \/ TimeOutConnection(s)
Worker(s) == \/ BeginCycle(s) \/ Announce(s) \/ RunLeftover(s) \/ RunClose(s)
             \/ Interrupt(s) \/ EndCycle(s)

\* sendText() succeeds on a socket that is open, or was a moment ago; what was
\* written reaches the robot only if the network carries it.
CanSend(s) == transport[s].connected /\ transport[s].ws
Reaches(s) == CanSend(s) /\ transport[s].pc = "read" /\ transport[s].alive
=============================================================================
