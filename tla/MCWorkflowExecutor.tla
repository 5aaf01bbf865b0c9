------------------------- MODULE MCWorkflowExecutor -------------------------
(***************************************************************************)
(* Workflow graphs and request budgets for model checking WorkflowExecutor *)
(***************************************************************************)
EXTENDS WorkflowExecutor

CONSTANTS Starts, Cancels, Decisions, Injections, Restarts

MCBudget == [start |-> Starts, cancel |-> Cancels, decide |-> Decisions,
             inject |-> Injections, restart |-> Restarts]

Capability(retry) == [Node("ROBOT_CAPABILITY") EXCEPT !.retry = retry]
Workflow(nodes, edges) ==
  [node |-> nodes, edges |-> edges, loop |-> 1, trigger |-> NoEvent]

\* START forks into a capability (retried once) and a navigation; the event of
\* the first and the success of the second converge on J.
JoinWorkflow ==
  Workflow(
    [S |-> Node("START"),
     A |-> [Capability(1) EXCEPT !.result = "done"],
     B |-> Node("NAVIGATION"), J |-> Node("OTHER"), E |-> Node("END")],
    <<Edge("S", "A", "success"), Edge("S", "B", "success"),
      EventEdge("A", "J", "done"), Edge("B", "J", "success"),
      Edge("J", "E", "success")>>)

\* Two cycles of a delay and a call whose success leads to two ENDs; when the
\* child fails a workflow without a published version is called, and the
\* failure edge of that leads to the second END.  One child is JoinWorkflow, the
\* other a single capability.
ChildWorkflow(A) ==
  Workflow([S |-> Node("START"), A |-> A, E |-> Node("END")],
           <<Edge("S", "A", "success"), Edge("A", "E", "success")>>)
CallGraph ==
  LET p == Workflow(
        [S |-> Node("START"), D |-> Node("DELAY"),
         U |-> [Node("SUBFLOW") EXCEPT !.calls = {"c", "d"}],
         V |-> Node("SUBFLOW"), E |-> Node("END"), F |-> Node("END")],
        <<Edge("S", "D", "success"), Edge("D", "U", "success"),
          Edge("U", "E", "success"), Edge("U", "F", "success"),
          Edge("U", "V", "failure"), Edge("V", "F", "failure")>>)
  IN [p |-> [p EXCEPT !.loop = 2], c |-> JoinWorkflow,
      d |-> ChildWorkflow(Capability(1))]

\* r1: two confirmations in sequence, with failure edges.  r2: a confirmation
\* without one beside a branch that waits for a signal.  r3: an SSH job whose
\* failure leads to a confirmation, and that back to it.  r4: a capability, retried
\* once, whose failure leads to a navigation and its success to a topic and a
\* delay; a failed navigation leads back to it.  Only r2 has branches.
DecisionGraph ==
  [r1 |-> Workflow(
     [S |-> Node("START"), M |-> Node("MANUAL_CONFIRM"),
      N |-> Node("MANUAL_CONFIRM"), X |-> Node("OTHER"),
      E |-> Node("END"), F |-> Node("END")],
     <<Edge("S", "M", "success"), Edge("M", "N", "success"),
       Edge("M", "X", "failure"), Edge("X", "F", "success"),
       Edge("N", "E", "success"), Edge("N", "F", "failure")>>),
   r2 |-> Workflow(
     [S |-> Node("START"), M |-> Node("MANUAL_CONFIRM"),
      W |-> [Node("EVENT_WAIT") EXCEPT !.event = "go"], E |-> Node("END")],
     <<Edge("S", "W", "success"), Edge("S", "M", "success"),
       Edge("M", "E", "success")>>),
   r3 |-> Workflow(
     [S |-> Node("START"), A |-> Node("SSH"),
      M |-> Node("MANUAL_CONFIRM"), E |-> Node("END"), F |-> Node("END")],
     <<Edge("S", "A", "success"), Edge("A", "E", "success"),
       Edge("A", "M", "failure"), Edge("M", "F", "success"),
       Edge("M", "A", "failure")>>),
   r4 |-> Workflow(
     [S |-> Node("START"), A |-> Capability(1), B |-> Node("NAVIGATION"),
      T |-> Node("TOPIC"), D |-> Node("DELAY"), E |-> Node("END")],
     <<Edge("S", "A", "success"), Edge("A", "T", "success"),
       Edge("A", "B", "failure"), Edge("T", "D", "success"),
       Edge("D", "B", "success"), Edge("B", "E", "success"),
       Edge("B", "A", "failure")>>)]

\* The same call with no failure edge, and a child that navigates.
CancelGraph ==
  [p |-> Workflow(
     [S |-> Node("START"), U |-> [Node("SUBFLOW") EXCEPT !.calls = {"c"}],
      E |-> Node("END")],
     <<Edge("S", "U", "success"), Edge("U", "E", "success")>>),
   c |-> ChildWorkflow(Node("NAVIGATION"))]

\* One of these is started.
OperatorGraph == DecisionGraph @@ CancelGraph

\* A signal wakes r1, whose capability reports progress and failure by events,
\* and starts r2, whose SSH result starts r3: a topic, a node that cannot be
\* configured and one whose request cannot be rendered.  r4 has no START.
EventGraph ==
  [r1 |-> Workflow(
     [S |-> Node("START"), W |-> [Node("EVENT_WAIT") EXCEPT !.event = "go"],
      A |-> [Capability(0) EXCEPT !.feedback = "half", !.fault = "bad"],
      D |-> Node("DELAY"), X |-> Node("OTHER"), E |-> Node("END")],
     <<Edge("S", "W", "success"), Edge("W", "A", "success"),
       EventEdge("A", "D", "half"), EventEdge("A", "X", "bad"),
       Edge("A", "E", "success")>>),
   r2 |-> [Workflow(
     [S |-> Node("START"),
      A |-> [Node("SSH") EXCEPT !.retry = 1, !.result = "ok", !.starts = TRUE],
      E |-> Node("END")],
     <<Edge("S", "A", "success"), Edge("A", "E", "success")>>)
     EXCEPT !.trigger = "go"],
   r3 |-> [Workflow(
     [S |-> Node("START"), T |-> [Node("TOPIC") EXCEPT !.result = "sent"],
      I |-> Node("INVALID"), U |-> [Node("UNRENDERED") EXCEPT !.retry = 1],
      C |-> Node("CONTEXT"), E |-> Node("END")],
     <<Edge("S", "T", "success"), EventEdge("T", "C", "sent"),
       Edge("T", "I", "success"), Edge("I", "U", "failure"),
       Edge("C", "E", "success")>>)
     EXCEPT !.trigger = "ok"],
   r4 |-> [Workflow([E |-> Node("END")], <<>>) EXCEPT !.trigger = "ok"]]

\* A branch that completes at once beside one that waits for its robot.
LostJoinGraph ==
  [r1 |-> Workflow(
     [S |-> Node("START"), A |-> Capability(0), B |-> Node("CONTEXT"),
      J |-> Node("OTHER"), E |-> Node("END")],
     <<Edge("S", "A", "success"), Edge("S", "B", "success"),
       Edge("A", "J", "success"), Edge("B", "J", "success"),
       Edge("J", "E", "success")>>)]

\* A navigation that may be retried once.
NavigationGraph ==
  [r1 |-> ChildWorkflow([Node("NAVIGATION") EXCEPT !.retry = 1])]
=============================================================================
