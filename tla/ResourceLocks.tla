---------------------------- MODULE ResourceLocks ----------------------------
(***************************************************************************)
(* What leases promise: every resource is a readers-writer lock, and a     *)
(* lease takes all the locks it asks for in one step or none of them.      *)
(***************************************************************************)
CONSTANTS Lease, Resource

VARIABLES
  readers,  \* resource -> the leases that share it
  writers   \* resource -> the leases that hold it exclusively

locks == <<readers, writers>>

Init ==
  /\ readers = [x \in Resource |-> {}]
  /\ writers = [x \in Resource |-> {}]

Holds(l) == \E x \in Resource : l \in readers[x] \cup writers[x]

\* Lease l takes the locks of S for reading and those of X for writing.
Take(l) ==
  LET S == {x \in Resource : l \in readers'[x]}
      X == {x \in Resource : l \in writers'[x]}
  IN /\ ~Holds(l)
     /\ S \cap X = {}
     /\ \A x \in S \cup X : writers[x] = {}
     /\ \A x \in X : readers[x] = {}
     /\ readers' = [x \in Resource |-> IF x \in S THEN readers[x] \cup {l}
                                                  ELSE readers[x]]
     /\ writers' = [x \in Resource |-> IF x \in X THEN writers[x] \cup {l}
                                                  ELSE writers[x]]

Drop(l) ==
  /\ readers' = [x \in Resource |-> readers[x] \ {l}]
  /\ writers' = [x \in Resource |-> writers[x] \ {l}]

Next == \E l \in Lease : Take(l) \/ Drop(l)

Spec == Init /\ [][Next]_locks
=============================================================================
