-------------------------- MODULE RosbridgeSession --------------------------
(***************************************************************************)
(* The rosbridge sessions (ros/rosbridge_session.cpp) over their           *)
(* transports: the connection state machine (domain/connection_state.cpp), *)
(* subscriptions, and service calls that wait for an answer.  Every        *)
(* operation runs under the session's mutex.  The reconnect timer of the   *)
(* session (tick, next_reconnect_at_) has no caller: the transport's       *)
(* worker reconnects by itself.                                            *)
(***************************************************************************)
EXTENDS BeastTransport

CONSTANTS
  Topic,
  Call     \* correlation ids of service calls

VARIABLES
  state,    \* session -> its connection state
  subs,     \* session -> the topics of subscriptions_
  pending,  \* session -> pending_services_
  arriving  \* answers that are on their way, and by which session

session == <<state, subs, pending, arriving>>

State == {"Disconnected", "Connecting", "Online", "Degraded", "Reconnecting",
          "Disabled"}

Transition ==
  [Disconnected |-> {"Connecting", "Disabled"},
   Connecting |-> {"Online", "Disconnected", "Reconnecting", "Disabled"},
   Online |-> {"Degraded", "Reconnecting", "Disconnected", "Disabled"},
   Degraded |-> {"Online", "Reconnecting", "Disconnected", "Disabled"},
   Reconnecting |-> {"Connecting", "Online", "Disconnected", "Disabled"},
   Disabled |-> {"Disconnected"}]

TransitionTo(from, to) == IF to \in Transition[from] THEN to ELSE from

\* A session that was never connected passes through Connecting.
Engaged(s) == IF state[s] = "Disconnected"
                THEN TransitionTo(state[s], "Connecting") ELSE state[s]

\* A subscription is sent again; restoring is a loop over all of them.
Served(s, topics) ==
  [transport EXCEPT ![s].peer = IF Reaches(s) THEN @ \cup topics ELSE @]
Unserved(s, topics) ==
  [transport EXCEPT ![s].peer = IF Reaches(s) THEN @ \ topics ELSE @]

OnTransportConnectedOnly(s) ==
  IF state[s] = "Disabled"
    THEN UNCHANGED <<state, transport>>
    ELSE /\ state' = [state EXCEPT ![s] = TransitionTo(Engaged(s), "Online")]
         /\ UNCHANGED transport
OnTransportConnected(s) ==
  IF state[s] = "Disabled"
    THEN UNCHANGED <<state, transport>>
    ELSE /\ state' = [state EXCEPT ![s] = TransitionTo(Engaged(s), "Online")]
         /\ transport' = Served(s, subs[s])

\* The policy's max_attempts is 0, no limit.
OnTransportClosed(s) ==
  state' = IF state[s] = "Disabled" THEN state
           ELSE [state EXCEPT ![s] = TransitionTo(Engaged(s), "Reconnecting")]

\* subscribe() and unsubscribe() of a set of topics.
Subscribe(s, topics) ==
  /\ subs' = [subs EXCEPT ![s] = @ \cup topics]
  /\ transport' = IF state[s] = "Online" THEN Served(s, topics) ELSE transport

Unsubscribe(s, topics) ==
  /\ subs' = [subs EXCEPT ![s] = @ \ topics]
  /\ transport' = IF state[s] = "Online" THEN Unserved(s, topics \cap subs[s])
                  ELSE transport

\* callService(): the call is pending once it is written, and not otherwise.  A
\* write to a broken connection may fail or not; the robot may answer what it
\* receives, and the answer is handled at any later time.
CallSent(s, c) ==
  /\ state[s] = "Online" /\ CanSend(s)
  /\ \A q \in Session : c \notin pending[q] /\ <<q, c>> \notin arriving
  /\ pending' = [pending EXCEPT ![s] = @ \cup {c}]
  /\ \/ arriving' = arriving
     \/ Reaches(s) /\ arriving' = arriving \cup {<<s, c>>}
  /\ UNCHANGED <<state, subs, transport>>

CallNotSent(s) == state[s] # "Online" \/ ~Reaches(s)

\* handleIncoming() of a service response: unknown ids are ignored.
HandleResponse(s, c) ==
  /\ <<s, c>> \in arriving
  /\ arriving' = arriving \ {<<s, c>>}
  /\ pending' = [pending EXCEPT ![s] = @ \ {c}]
  /\ UNCHANGED <<state, subs>>

ForgetServiceCallNever(s, c) == UNCHANGED session
ForgetServiceCall(s, c) ==
  /\ pending' = [pending EXCEPT ![s] = @ \ {c}]
  /\ UNCHANGED <<state, subs, arriving>>
=============================================================================
