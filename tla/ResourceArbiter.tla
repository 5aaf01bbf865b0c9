--------------------------- MODULE ResourceArbiter ---------------------------
(***************************************************************************)
(* The resource arbiter (domain/resource_arbiter.cpp): leases of robots,   *)
(* their motion and shared equipment.  One mutex makes tryAcquire and      *)
(* release atomic; the lease table is all the state there is.              *)
(***************************************************************************)
EXTENDS Naturals, FiniteSets

CONSTANTS
  Lease,      \* lease ids, chosen by the callers
  Owner,      \* owner ids
  Robot,      \* robot ids
  Equipment,  \* names of further resources a request may claim
  Additional, \* the sets of additional claims callers use
  NoName      \* the empty string

\* "robot/<id>" and "robot/<id>/motion"
RobotResource(b) == <<"robot", b>>
MotionResource(b) == <<"motion", b>>
Resource == {RobotResource(b) : b \in Robot} \cup
            {MotionResource(b) : b \in Robot} \cup
            {<<"equipment", e>> : e \in Equipment}

Access == {"Shared", "Exclusive"}
BlockingType == {"Hard", "Soft", "None", "Navigation"}
Claim == [name : Resource \cup {NoName}, access : Access]

ASSUME ArbiterAssumption ==
  /\ Additional \subseteq SUBSET Claim
  /\ NoName \notin Lease \cup Owner \cup Robot \cup Resource

VARIABLE leases   \* lease id -> the active lease

ClaimOf(name, access) == [name |-> name, access |-> access]

DefaultClaimsSharedMotion(b, type) ==
  CASE type = "Hard" -> {ClaimOf(RobotResource(b), "Exclusive")}
    [] type = "Soft" -> {ClaimOf(RobotResource(b), "Shared"),
                         ClaimOf(MotionResource(b), "Shared")}
    [] type = "None" -> {ClaimOf(RobotResource(b), "Shared")}
    [] type = "Navigation" -> {ClaimOf(RobotResource(b), "Shared"),
                               ClaimOf(MotionResource(b), "Shared")}
DefaultClaims(b, type) ==
  CASE type = "Hard" -> {ClaimOf(RobotResource(b), "Exclusive")}
    [] type = "Soft" -> {ClaimOf(RobotResource(b), "Shared"),
                         ClaimOf(MotionResource(b), "Shared")}
    [] type = "None" -> {ClaimOf(RobotResource(b), "Shared")}
    [] type = "Navigation" -> {ClaimOf(RobotResource(b), "Shared"),
                               ClaimOf(MotionResource(b), "Exclusive")}

\* One claim per name, Exclusive if any is; claims without a name are dropped.
MergeClaimsUnnamed(claims) ==
  {c \in claims : c.access = "Shared"
                    => ClaimOf(c.name, "Exclusive") \notin claims}
MergeClaims(claims) ==
  {c \in claims : /\ c.name # NoName
                  /\ c.access = "Shared"
                       => ClaimOf(c.name, "Exclusive") \notin claims}

Conflicts(lhs, rhs) ==
  /\ lhs.name = rhs.name
  /\ lhs.access = "Exclusive" \/ rhs.access = "Exclusive"

Request == [lease : Lease \cup {NoName}, owner : Owner \cup {NoName},
            robot : Robot \cup {NoName}, type : BlockingType,
            additional : Additional]

Claims(q) == MergeClaims(DefaultClaims(q.robot, q.type) \cup q.additional)

ValidReusedId(q) == q.lease # NoName /\ q.owner # NoName /\ q.robot # NoName
Valid(q) == /\ q.lease # NoName /\ q.owner # NoName /\ q.robot # NoName
            /\ q.lease \notin DOMAIN leases

BlockedByAll(claims) ==
  \E l \in DOMAIN leases : \A c \in claims :
    \E active \in leases[l].claims : Conflicts(c, active)
Blocked(claims) ==
  \E l \in DOMAIN leases : \E c \in claims :
    \E active \in leases[l].claims : Conflicts(c, active)

\* tryAcquire: either the whole lease is entered or nothing changes.
Acquire(q) ==
  /\ Valid(q)
  /\ ~Blocked(Claims(q))
  /\ leases' = [l \in DOMAIN leases \cup {q.lease} |->
                  IF l = q.lease
                    THEN [owner |-> q.owner, robot |-> q.robot,
                          type |-> q.type, claims |-> Claims(q)]
                    ELSE leases[l]]

Refuse(q) ==
  /\ ~Valid(q) \/ Blocked(Claims(q))
  /\ UNCHANGED leases

\* release: anyone who knows the id, and no one is told apart.
Release(l) ==
  leases' = [m \in DOMAIN leases \ {l} |-> leases[m]]

Init == leases = [l \in {} |-> {}]

Next == \/ \E q \in Request : Acquire(q) \/ Refuse(q)
        \/ \E l \in Lease : Release(l)

Spec == Init /\ [][Next]_leases

-----------------------------------------------------------------------------
LeaseRecord == [owner : Owner, robot : Robot, type : BlockingType,
                claims : SUBSET [name : Resource, access : Access]]

\* Every active lease is complete and its claims are named resources.
TypeOK == /\ DOMAIN leases \subseteq Lease
          /\ \A l \in DOMAIN leases : leases[l] \in LeaseRecord

\* tryAcquire never lets two leases hold conflicting claims, whatever default
\* and additional claims were merged into them.
NoConflict ==
  \A l, m \in DOMAIN leases : l # m =>
    \A c \in leases[l].claims, d \in leases[m].claims : ~Conflicts(c, d)

\* Which blocking types may be active together on one robot.
Compatible(s, t) ==
  \/ s = "None" /\ t # "Hard"
  \/ t = "None" /\ s # "Hard"
  \/ s = "Soft" /\ t = "Soft"

\* The meaning of the blocking types: HARD tolerates nothing on its robot,
\* NAVIGATION neither SOFT nor another NAVIGATION, NONE anything but HARD.
BlockingTypesRespected ==
  \A l, m \in DOMAIN leases :
    l # m /\ leases[l].robot = leases[m].robot
      => Compatible(leases[l].type, leases[m].type)

Readers == [x \in Resource |-> {l \in DOMAIN leases :
                                  ClaimOf(x, "Shared") \in leases[l].claims}]
Writers == [x \in Resource |-> {l \in DOMAIN leases :
                                  ClaimOf(x, "Exclusive") \in leases[l].claims}]
Locks == INSTANCE ResourceLocks WITH readers <- Readers, writers <- Writers

\* The arbiter implements readers-writer locks taken all at once.
LocksSpec == Locks!Spec
=============================================================================
