--------------------------- MODULE WorkflowPromise ---------------------------
(***************************************************************************)
(* What a workflow run promises to the people who draw workflows, without  *)
(* threads, copies, commands or timers: nodes of the newest cycle start    *)
(* when the edges that lead to them are satisfied, an edge is taken when   *)
(* its source is through, and a run ends for a reason.                     *)
(***************************************************************************)
EXTENDS WorkflowGraph

VARIABLES
  outcome,  \* the state of each run
  status,   \* status[r][cycle][key]: waiting, active or how the node ended
  taken     \* the edges taken in each run: <<edge, cycle>>

promise == <<outcome, status, taken>>

Init ==
  /\ outcome = [r \in Run |-> "NONE"]
  /\ status = [r \in Run |-> <<>>]
  /\ taken = [r \in Run |-> {}]

Now(r) == Len(status[r])
Reached(r, type, how) ==
  \E k \in Key(r) : TypeOf(r, k) \in type /\ status[r][Now(r)][k] = how
Fresh(r) == [k \in Key(r) |-> "waiting"]

Create(r) ==
  /\ outcome[r] = "NONE"
  /\ outcome' = [outcome EXCEPT ![r] = "RUNNING"]
  /\ status' = [status EXCEPT ![r] = <<Fresh(r)>>]
  /\ UNCHANGED taken

\* The next cycle follows an END of the one before, loop_count times in all;
\* other branches of a cycle may go on beside the next one.
Repeat(r) ==
  /\ outcome[r] = "RUNNING"
  /\ Now(r) < Graph[r].loop /\ Reached(r, {"END"}, "SUCCEEDED")
  /\ status' = [status EXCEPT ![r] = Append(@, Fresh(r))]
  /\ UNCHANGED <<outcome, taken>>

\* All success and event edges, or one failure edge, lead to k in cycle c.
Due(r, c, k) ==
  \/ /\ JoinIncomingEdges(r, k) # {}
     /\ \A i \in JoinIncomingEdges(r, k) :
          LET e == Graph[r].edges[i]
          IN IF e.kind = "success" THEN status[r][c][e.src] = "SUCCEEDED"
             ELSE <<i, c>> \in taken[r]
  \/ \E i \in EdgeIds(r) : /\ Graph[r].edges[i].dst = k
                           /\ Graph[r].edges[i].kind = "failure"
                           /\ <<i, c>> \in taken[r]

Begin(r, c, k) ==
  /\ status[r][c][k] = "waiting" /\ Due(r, c, k)
  /\ status' = [status EXCEPT ![r][c][k] = "active"]
  /\ UNCHANGED <<outcome, taken>>

\* START needs no start, any other node ends once after it started.
End(r, c, k, how) ==
  /\ \/ status[r][c][k] = "active"
     \/ status[r][c][k] = "waiting" /\ TypeOf(r, k) = "START"
  /\ status' = [status EXCEPT ![r][c][k] = how]
  /\ UNCHANGED <<outcome, taken>>

\* Success and failure edges wait for the end of their source, event edges
\* for its start.
Take(r, c, i) ==
  /\ LET e == Graph[r].edges[i]
         src == status[r][c][e.src]
     IN CASE e.kind = "success" -> src = "SUCCEEDED"
          [] e.kind = "failure" -> src = "FAILED"
          [] e.kind = "event" -> src # "waiting"
  /\ taken' = [taken EXCEPT ![r] = @ \cup {<<i, c>>}]
  /\ UNCHANGED <<outcome, status>>

\* A run succeeds in its last cycle when an END was reached; it fails when a
\* node of the newest cycle failed, or when its graph has no START.  Of two
\* branches that end the run at the same time the later one decides.
Conclude(r, how) ==
  /\ outcome[r] # "NONE"
  /\ \/ /\ how = "SUCCEEDED"
        /\ Now(r) = Graph[r].loop /\ Reached(r, {"END"}, "SUCCEEDED")
     \/ /\ how = "FAILED"
        /\ \/ Reached(r, NodeType, "FAILED")
           \/ \A k \in Key(r) : TypeOf(r, k) # "START"
  /\ outcome' = [outcome EXCEPT ![r] = how]
  /\ UNCHANGED <<status, taken>>

How == {"SUCCEEDED", "FAILED"}
Next ==
  \E r \in Run :
    \/ Create(r) \/ Repeat(r)
    \/ \E c \in DOMAIN status[r] :
         \/ \E k \in Key(r) : Begin(r, c, k) \/ \E how \in How : End(r, c, k, how)
         \/ \E i \in EdgeIds(r) : Take(r, c, i)
    \/ \E how \in How : Conclude(r, how)

Spec == Init /\ [][Next]_promise
=============================================================================
