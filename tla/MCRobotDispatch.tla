--------------------------- MODULE MCRobotDispatch ---------------------------
(***************************************************************************)
(* Two robots.  The run publishes a topic and calls a service of one; that *)
(* leads to an action, and the action to another one on the same server    *)
(* and to a DELAY that ends in a navigation goal of the second robot and   *)
(* one more action.  CallbackDeadlock has them all on one robot.           *)
(***************************************************************************)
EXTENDS RobotDispatch

CONSTANTS a, b, s, p, n, q, arm, tool, horn, base, grip, r1, r2

Edge == [event_name |-> "near", source |-> "FEEDBACK", enabled |-> TRUE,
         field |-> "progress", op |-> "gte", value |-> 1,
         max_firings |-> 1, cooldown_ms |-> 100]

MCServer == {arm, tool, horn, base, grip}
MCRobotOf == (arm :> r1) @@ (tool :> r1) @@ (horn :> r1) @@ (base :> r2)
               @@ (grip :> r2)
OneRobotOf == [v \in MCServer |-> r1]
MCCommand == {a, b, s, p, n, q}
MCServerOf == (a :> arm) @@ (b :> arm) @@ (s :> tool) @@ (p :> horn) @@ (n :> base)
                @@ (q :> grip)
MCAdapter == (a :> "ACTIONLIB") @@ (b :> "ACTIONLIB") @@ (s :> "SERVICE")
               @@ (p :> "TOPIC") @@ (n :> "NAVIGATION") @@ (q :> "ACTION")
MCSpecs == [c \in MCCommand |->
              IF c = a THEN ResolveEventSpecs(<<Edge>>, << >>, "")
              ELSE IF c = p THEN ResolveEventSpecs(<< >>, << >>, "done")
              ELSE << >>]
MCInitial == <<p, s>>
MCStarts == [c \in MCCommand |-> IF c = s THEN <<a>> ELSE IF c = a THEN <<b>>
              ELSE IF c = n THEN <<q>> ELSE << >>]
MCDelayed == <<n>>
MCSays == [c \in MCCommand |-> IF c = a THEN 2 ELSE 0]
WorkerSymmetry == Permutations(Worker)
=============================================================================
