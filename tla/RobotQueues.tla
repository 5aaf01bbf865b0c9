----------------------------- MODULE RobotQueues -----------------------------
(***************************************************************************)
(* What the execution runtime promises to the robots: the work of a robot  *)
(* is done one task at a time, in the order it became due, and the robots  *)
(* do not wait for each other.                                             *)
(***************************************************************************)
EXTENDS Sequences

CONSTANTS Robot, Task

VARIABLES
  waiting,  \* robot -> its tasks that are due, in order
  active    \* robot -> its tasks that run now

work == <<waiting, active>>

Init ==
  /\ waiting = [r \in Robot |-> << >>]
  /\ active = [r \in Robot |-> {}]

Enter(r, t) ==
  /\ waiting' = [waiting EXCEPT ![r] = Append(@, t)]
  /\ UNCHANGED active

Begin(r) ==
  /\ waiting[r] # << >>
  /\ active[r] = {}
  /\ active' = [active EXCEPT ![r] = {Head(waiting[r])}]
  /\ waiting' = [waiting EXCEPT ![r] = Tail(@)]

End(r) ==
  /\ active[r] # {}
  /\ active' = [active EXCEPT ![r] = {}]
  /\ UNCHANGED waiting

Next == \E r \in Robot : Begin(r) \/ End(r) \/ \E t \in Task : Enter(r, t)

Spec == Init /\ [][Next]_work
=============================================================================
