--------------------------- MODULE WorkflowGraph ---------------------------
(***************************************************************************)
(* The workflow graphs a run executes, and the rule that decides when a    *)
(* node whose incoming edges converge may start (edge_join.hpp).           *)
(*                                                                         *)
(* A run is a slot of the constant Run, bound to the graph of the workflow *)
(* version it instantiates:                                                *)
(*   Graph[r].node[k]  the attributes of node key k, a record made by      *)
(*                     Node (below)                                        *)
(*   Graph[r].edges    the sequence of edges, in the order of the JSON     *)
(*                     array, records [src, dst, kind, event]; an edge is  *)
(*                     named by its position in it                         *)
(*   Graph[r].loop     run_policy.loop_count                               *)
(*   Graph[r].trigger  the event that starts the workflow, or NoEvent      *)
(***************************************************************************)
EXTENDS Naturals, Sequences

CONSTANTS
  Run,    \* the slots of dispatch.workflow_runs
  Graph   \* the graph of each slot, immutable once published

NoEvent == "none"

\* What executeNode does with a node depends on its type only.  CONTEXT is
\* ROBOT or STATION, INVALID any node whose configuration executeNode rejects,
\* UNRENDERED a capability node whose request template cannot be rendered,
\* ROBOT_CAPABILITY a SERVICE or ACTION capability (a STATION_ACTION too),
\* TOPIC and SSH the other two operation kinds of a capability (an SSH node
\* with retry 0 is also ROBOT_STARTUP / ROBOT_SSH), OTHER an unknown type.
CommandType == {"ROBOT_CAPABILITY", "TOPIC", "SSH", "NAVIGATION"}
NodeType == CommandType \cup
  {"START", "END", "OTHER", "INVALID", "UNRENDERED", "DELAY",
   "MANUAL_CONFIRM", "CONTEXT", "EVENT_WAIT", "SUBFLOW"}

Node(type) ==
  [type |-> type,
   retry |-> 0,            \* data.retry_count
   event |-> NoEvent,      \* the event an EVENT_WAIT waits for
   result |-> NoEvent,     \* event of the RESULT spec a success satisfies
   fault |-> NoEvent,      \* event of the RESULT spec a failure satisfies
   feedback |-> NoEvent,   \* event of the node's FEEDBACK event spec
   starts |-> FALSE,       \* the RESULT specs have start_workflows
   calls |-> {}]           \* the run slots a SUBFLOW node may create

Edge(src, dst, kind) ==
  [src |-> src, dst |-> dst, kind |-> kind, event |-> NoEvent]
EventEdge(src, dst, event) == [Edge(src, dst, "event") EXCEPT !.event = event]

Key(r) == DOMAIN Graph[r].node
TypeOf(r, k) == Graph[r].node[k].type
EdgeIds(r) == DOMAIN Graph[r].edges

EdgeKind == {"success", "failure", "event"}
NodeKey == UNION {Key(r) : r \in Run}
EventName ==
  {NoEvent} \cup UNION {
    {Graph[r].trigger} \cup UNION {
      {Graph[r].node[k].event, Graph[r].node[k].result, Graph[r].node[k].fault,
       Graph[r].node[k].feedback} : k \in Key(r)} : r \in Run}
NodeAttributes == [type : NodeType, retry : Nat, event : EventName,
                   result : EventName, fault : EventName, feedback : EventName,
                   starts : BOOLEAN, calls : SUBSET Run]

\* A graph is well formed: edges join nodes of it.  (A dangling edge leads
\* nowhere: findNode returns nothing.)
ASSUME GraphAssumption ==
  \A r \in Run :
    /\ \A k \in Key(r) : Graph[r].node[k] \in NodeAttributes
    /\ \A i \in EdgeIds(r) :
         /\ i \in Nat
         /\ Graph[r].edges[i] \in
              [src : Key(r), dst : Key(r), kind : EdgeKind, event : EventName]
    /\ Graph[r].loop \in Nat \ {0}

\* followEdges visits the edges of one source, of one kind, in graph order:
\* those that come after position i.  Only an event edge carries an event.
OutEdgesOfAnyKind(r, src, kind, event, i) ==
  {j \in EdgeIds(r) : /\ j > i
                      /\ Graph[r].edges[j].src = src
                      /\ Graph[r].edges[j].event = event}
OutEdges(r, src, kind, event, i) ==
  {j \in EdgeIds(r) : /\ j > i
                      /\ Graph[r].edges[j].src = src
                      /\ Graph[r].edges[j].kind = kind
                      /\ Graph[r].edges[j].event = event}

HasFailureEdge(r, src) == OutEdges(r, src, "failure", NoEvent, 0) # {}

\* Only success and event edges take part in a join.
JoinIncomingEdges(r, dst) ==
  {i \in EdgeIds(r) : /\ Graph[r].edges[i].dst = dst
                      /\ Graph[r].edges[i].kind \in {"success", "event"}}

\* A success edge is satisfied by the latest state of its source, an event
\* edge by a traversal recorded for the same cycle.
IncomingEdgeSatisfiedEarlier(r, i, cycle, latest, traversed) ==
  IF Graph[r].edges[i].kind = "success"
    THEN latest[Graph[r].edges[i].src].state = "SUCCEEDED"
    ELSE <<i, cycle - 1>> \in traversed
IncomingEdgeSatisfied(r, i, cycle, latest, traversed) ==
  IF Graph[r].edges[i].kind = "success"
    THEN latest[Graph[r].edges[i].src].state = "SUCCEEDED"
    ELSE <<i, cycle>> \in traversed

EvaluateJoinAny(r, dst, cycle, latest, traversed) ==
  \E i \in JoinIncomingEdges(r, dst) :
    IncomingEdgeSatisfied(r, i, cycle, latest, traversed)
EvaluateJoin(r, dst, cycle, latest, traversed) ==
  \A i \in JoinIncomingEdges(r, dst) :
    IncomingEdgeSatisfied(r, i, cycle, latest, traversed)
=============================================================================
