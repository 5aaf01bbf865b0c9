----------------------- MODULE ResourceArbiter_proofs -----------------------
(***************************************************************************)
(* Proofs about the resource arbiter.  The inductive invariant is TypeOK,  *)
(* NoConflict, and the fact Grounded that every lease still has the claims *)
(* of its blocking type, at least as strong as its defaults.               *)
(***************************************************************************)
EXTENDS ResourceArbiter, TLAPS

\* A lease has the default claims of its type, an Exclusive claim standing in
\* for a Shared one of the same name; and no name is claimed twice.
Grounded ==
  \A l \in DOMAIN leases :
    /\ \A d \in DefaultClaims(leases[l].robot, leases[l].type) :
         \/ d \in leases[l].claims
         \/ ClaimOf(d.name, "Exclusive") \in leases[l].claims
    /\ \A x \in Resource :
         ~(/\ ClaimOf(x, "Shared") \in leases[l].claims
           /\ ClaimOf(x, "Exclusive") \in leases[l].claims)

IInv == TypeOK /\ NoConflict /\ Grounded

LEMMA DefaultClaimsType ==
  ASSUME NEW b \in Robot, NEW type \in BlockingType
  PROVE  DefaultClaims(b, type) \subseteq [name : Resource, access : Access]
<1>1. RobotResource(b) \in Resource /\ MotionResource(b) \in Resource
  BY DEF Resource
<1>2. ClaimOf(RobotResource(b), "Exclusive") \in [name : Resource, access : Access]
  BY <1>1 DEF ClaimOf, Access
<1>3. ClaimOf(RobotResource(b), "Shared") \in [name : Resource, access : Access]
  BY <1>1 DEF ClaimOf, Access
<1>4. ClaimOf(MotionResource(b), "Shared") \in [name : Resource, access : Access]
  BY <1>1 DEF ClaimOf, Access
<1>5. ClaimOf(MotionResource(b), "Exclusive") \in [name : Resource, access : Access]
  BY <1>1 DEF ClaimOf, Access
<1> QED
  BY <1>2, <1>3, <1>4, <1>5 DEF DefaultClaims, BlockingType

\* What mergeClaims returns: named claims, the strongest of each name.
LEMMA MergeClaimsFacts ==
  ASSUME NEW claims \in SUBSET Claim
  PROVE  /\ MergeClaims(claims) \subseteq [name : Resource, access : Access]
         /\ \A d \in claims : d.name # NoName =>
              \/ d \in MergeClaims(claims)
              \/ ClaimOf(d.name, "Exclusive") \in MergeClaims(claims)
         /\ \A x \in Resource :
              ~(/\ ClaimOf(x, "Shared") \in MergeClaims(claims)
                /\ ClaimOf(x, "Exclusive") \in MergeClaims(claims))
<1>1. MergeClaims(claims) \subseteq [name : Resource, access : Access]
  BY DEF MergeClaims, Claim
<1>2. ASSUME NEW d \in claims, d.name # NoName, d \notin MergeClaims(claims)
      PROVE  ClaimOf(d.name, "Exclusive") \in MergeClaims(claims)
  BY <1>2 DEF MergeClaims, ClaimOf
<1>3. ASSUME NEW x \in Resource,
             ClaimOf(x, "Shared") \in MergeClaims(claims),
             ClaimOf(x, "Exclusive") \in MergeClaims(claims)
      PROVE  FALSE
  BY <1>3 DEF MergeClaims, ClaimOf
<1> QED
  BY <1>1, <1>2, <1>3

\* The claims of a valid request are well-formed and grounded in its type.
LEMMA RequestClaims ==
  ASSUME NEW q \in Request, q.robot # NoName
  PROVE  /\ q.robot \in Robot /\ q.type \in BlockingType
         /\ Claims(q) \subseteq [name : Resource, access : Access]
         /\ \A d \in DefaultClaims(q.robot, q.type) :
              \/ d \in Claims(q)
              \/ ClaimOf(d.name, "Exclusive") \in Claims(q)
         /\ \A x \in Resource :
              ~(/\ ClaimOf(x, "Shared") \in Claims(q)
                /\ ClaimOf(x, "Exclusive") \in Claims(q))
<1> DEFINE all == DefaultClaims(q.robot, q.type) \cup q.additional
<1>1. q.robot \in Robot /\ q.type \in BlockingType
  BY DEF Request
<1>2. DefaultClaims(q.robot, q.type) \subseteq [name : Resource, access : Access]
  BY <1>1, DefaultClaimsType
<1>3. all \in SUBSET Claim
  <2>1. q.additional \subseteq Claim
    BY ArbiterAssumption DEF Request
  <2>2. [name : Resource, access : Access] \subseteq Claim
    BY DEF Claim
  <2> QED
    BY <1>2, <2>1, <2>2
<1>4. \A d \in DefaultClaims(q.robot, q.type) : d.name # NoName
  <2>1. NoName \notin Resource
    BY ArbiterAssumption
  <2> QED
    BY <1>2, <2>1
<1>5. Claims(q) = MergeClaims(all)
  BY DEF Claims
<1> HIDE DEF all
<1>6. DefaultClaims(q.robot, q.type) \subseteq all
  BY DEF all
<1> QED
  BY <1>1, <1>3, <1>4, <1>5, <1>6, MergeClaimsFacts

LEMMA InitIInv == Init => IInv
  BY DEF Init, IInv, TypeOK, NoConflict, Grounded

LEMMA AcquireIInv ==
  ASSUME IInv, NEW q \in Request, Acquire(q)
  PROVE  IInv'
<1> DEFINE new == [owner |-> q.owner, robot |-> q.robot,
                   type |-> q.type, claims |-> Claims(q)]
<1>1. /\ q.robot # NoName
      /\ q.lease \in Lease /\ q.owner \in Owner
      /\ q.lease \notin DOMAIN leases
      /\ ~Blocked(Claims(q))
  BY DEF Acquire, Valid, Request
<1>2. /\ DOMAIN leases' = DOMAIN leases \cup {q.lease}
      /\ leases'[q.lease] = new
      /\ \A l \in DOMAIN leases : leases'[l] = leases[l]
  BY <1>1 DEF Acquire
<1>3. /\ new \in LeaseRecord
      /\ new.robot = q.robot /\ new.type = q.type /\ new.claims = Claims(q)
  BY <1>1, RequestClaims DEF LeaseRecord
<1> HIDE DEF new
<1>4. TypeOK'
  BY <1>1, <1>2, <1>3 DEF IInv, TypeOK
<1>5. NoConflict'
  <2>1. \A m \in DOMAIN leases : \A c \in Claims(q), d \in leases[m].claims :
          ~Conflicts(c, d) /\ ~Conflicts(d, c)
    BY <1>1 DEF Blocked, Conflicts
  <2> QED
    BY <1>2, <1>3, <2>1 DEF IInv, NoConflict
<1>6. Grounded'
  <2>1. ASSUME NEW l \in DOMAIN leases'
        PROVE  /\ \A d \in DefaultClaims(leases'[l].robot, leases'[l].type) :
                    \/ d \in leases'[l].claims
                    \/ ClaimOf(d.name, "Exclusive") \in leases'[l].claims
               /\ \A x \in Resource :
                    ~(/\ ClaimOf(x, "Shared") \in leases'[l].claims
                      /\ ClaimOf(x, "Exclusive") \in leases'[l].claims)
    <3>1. CASE l = q.lease
      BY <1>1, <1>2, <1>3, <3>1, RequestClaims
    <3>2. CASE l \in DOMAIN leases
      BY <1>2, <3>2 DEF IInv, Grounded
    <3> QED
      BY <1>2, <2>1, <3>1, <3>2
  <2> QED
    BY <2>1 DEF Grounded
<1> QED
  BY <1>4, <1>5, <1>6 DEF IInv

LEMMA ReleaseIInv ==
  ASSUME IInv, NEW l \in Lease, Release(l)
  PROVE  IInv'
<1>1. /\ DOMAIN leases' = DOMAIN leases \ {l}
      /\ \A m \in DOMAIN leases' : leases'[m] = leases[m]
  BY DEF Release
<1>2. TypeOK'
  BY <1>1 DEF IInv, TypeOK
<1>3. NoConflict'
  BY <1>1 DEF IInv, NoConflict
<1>4. Grounded'
  BY <1>1 DEF IInv, Grounded
<1> QED
  BY <1>2, <1>3, <1>4 DEF IInv

LEMMA NextIInv == IInv /\ [Next]_leases => IInv'
<1> SUFFICES ASSUME IInv, [Next]_leases
             PROVE  IInv'
  OBVIOUS
<1>1. CASE UNCHANGED leases
  BY <1>1 DEF IInv, TypeOK, NoConflict, Grounded
<1>2. ASSUME NEW q \in Request, Acquire(q)
      PROVE  IInv'
  BY <1>2, AcquireIInv
<1>3. ASSUME NEW q \in Request, Refuse(q)
      PROVE  IInv'
  BY <1>1, <1>3 DEF Refuse
<1>4. ASSUME NEW l \in Lease, Release(l)
      PROVE  IInv'
  BY <1>4, ReleaseIInv
<1> QED
  BY <1>1, <1>2, <1>3, <1>4 DEF Next

LEMMA SpecIInv == Spec => []IInv
  BY InitIInv, NextIInv, PTL DEF Spec

\* Every active lease is complete and claims named resources only.
THEOREM Typing == Spec => []TypeOK
  BY SpecIInv, PTL DEF IInv

\* No two active leases ever hold conflicting claims.
THEOREM NoConflictHolds == Spec => []NoConflict
  BY SpecIInv, PTL DEF IInv

\* Two leases of one robot whose types are not compatible would conflict in
\* their default claims, which Grounded says they still hold.
LEMMA TypesRespected == IInv => BlockingTypesRespected
<1> SUFFICES ASSUME IInv,
                    NEW l \in DOMAIN leases, NEW m \in DOMAIN leases,
                    l # m, leases[l].robot = leases[m].robot,
                    ~Compatible(leases[l].type, leases[m].type)
             PROVE  FALSE
  BY DEF BlockingTypesRespected
<1> DEFINE b == leases[l].robot
           R(a) == ClaimOf(RobotResource(b), a)
           M(a) == ClaimOf(MotionResource(b), a)
<1>1. /\ leases[l].type \in BlockingType /\ leases[m].type \in BlockingType
      /\ b \in Robot
  BY DEF IInv, TypeOK, LeaseRecord
<1>2. \A n \in {l, m} :
        \A d \in DefaultClaims(b, leases[n].type) :
          \/ d \in leases[n].claims
          \/ ClaimOf(d.name, "Exclusive") \in leases[n].claims
  BY DEF IInv, Grounded
<1>3. /\ R("Shared").name = RobotResource(b) /\ R("Exclusive").name = RobotResource(b)
      /\ M("Shared").name = MotionResource(b) /\ M("Exclusive").name = MotionResource(b)
      /\ R("Exclusive").access = "Exclusive" /\ M("Exclusive").access = "Exclusive"
  BY DEF ClaimOf
<1>4. \A n \in {l, m} :
        R("Shared") \in leases[n].claims \/ R("Exclusive") \in leases[n].claims
  BY <1>1, <1>2, <1>3 DEF DefaultClaims, BlockingType
<1>5. \A n \in {l, m} :
        leases[n].type = "Hard" => R("Exclusive") \in leases[n].claims
  BY <1>2, <1>3 DEF DefaultClaims, ClaimOf
<1>6. \A n \in {l, m} : leases[n].type \in {"Soft", "Navigation"} =>
        M("Shared") \in leases[n].claims \/ M("Exclusive") \in leases[n].claims
  BY <1>2, <1>3 DEF DefaultClaims
<1>7. \A n \in {l, m} :
        leases[n].type = "Navigation" => M("Exclusive") \in leases[n].claims
  BY <1>2, <1>3 DEF DefaultClaims, ClaimOf
<1>8. \A c \in leases[l].claims, d \in leases[m].claims : ~Conflicts(c, d)
  BY DEF IInv, NoConflict
<1>9. /\ ~(R("Exclusive") \in leases[l].claims)
      /\ ~(R("Exclusive") \in leases[m].claims)
  BY <1>3, <1>4, <1>8 DEF Conflicts
<1>10. leases[l].type # "Hard" /\ leases[m].type # "Hard"
  BY <1>5, <1>9
<1>11. /\ leases[l].type \in {"Soft", "Navigation"}
       /\ leases[m].type \in {"Soft", "Navigation"}
       /\ leases[l].type = "Navigation" \/ leases[m].type = "Navigation"
  BY <1>1, <1>10 DEF Compatible, BlockingType
<1> QED
  BY <1>3, <1>6, <1>7, <1>8, <1>11 DEF Conflicts

\* HARD, NAVIGATION, SOFT and NONE exclude each other on a robot as they should.
THEOREM BlockingTypesHold == Spec => []BlockingTypesRespected
  BY SpecIInv, TypesRespected, PTL

-----------------------------------------------------------------------------
(* The arbiter implements readers-writer locks that a lease takes at once.   *)

LEMMA LocksInit == Init => Locks!Init
  BY DEF Init, Locks!Init, Readers, Writers

LEMMA LocksAcquire ==
  ASSUME IInv, IInv', NEW q \in Request, Acquire(q)
  PROVE  Locks!Take(q.lease)
<1> DEFINE id == q.lease
           S == {x \in Resource : id \in Readers'[x]}
           X == {x \in Resource : id \in Writers'[x]}
<1>1. /\ DOMAIN leases' = DOMAIN leases \cup {id}
      /\ id \notin DOMAIN leases
      /\ \A l \in DOMAIN leases : leases'[l] = leases[l]
  BY DEF Acquire, Valid
<1>2. \A x \in Resource :
        /\ Readers[x] = {l \in DOMAIN leases : ClaimOf(x, "Shared") \in leases[l].claims}
        /\ Writers[x] = {l \in DOMAIN leases : ClaimOf(x, "Exclusive") \in leases[l].claims}
        /\ Readers'[x] = {l \in DOMAIN leases' : ClaimOf(x, "Shared") \in leases'[l].claims}
        /\ Writers'[x] = {l \in DOMAIN leases' : ClaimOf(x, "Exclusive") \in leases'[l].claims}
  BY DEF Readers, Writers
<1>3. ~Locks!Holds(id)
  BY <1>1, <1>2 DEF Locks!Holds
<1>4. S \cap X = {}
  BY <1>1, <1>2 DEF IInv, Grounded
<1>5. \A l \in DOMAIN leases : \A c \in leases'[id].claims, d \in leases'[l].claims :
        ~Conflicts(c, d)
  BY <1>1 DEF IInv, NoConflict
<1>6. \A x \in Resource, a \in Access : /\ ClaimOf(x, a).name = x
                                        /\ ClaimOf(x, a).access = a
  BY DEF ClaimOf
<1>7. \A x \in S \cup X : Writers[x] = {}
  BY <1>1, <1>2, <1>5, <1>6 DEF Conflicts, Access
<1>8. \A x \in X : Readers[x] = {}
  BY <1>1, <1>2, <1>5, <1>6 DEF Conflicts, Access
<1>9. Readers' = [x \in Resource |-> IF x \in S THEN Readers[x] \cup {id}
                                               ELSE Readers[x]]
  <2>1. Readers' = [x \in Resource |-> Readers'[x]]
    BY DEF Readers
  <2>2. \A x \in Resource :
          Readers'[x] = IF x \in S THEN Readers[x] \cup {id} ELSE Readers[x]
    <3> SUFFICES ASSUME NEW x \in Resource
                 PROVE  Readers'[x] = IF id \in Readers'[x] THEN Readers[x] \cup {id}
                                                    ELSE Readers[x]
      OBVIOUS
    <3>1. \A l : l # id => (l \in Readers'[x] <=> l \in Readers[x])
      BY <1>1, <1>2
    <3>2. id \notin Readers[x]
      BY <1>1, <1>2
    <3> HIDE DEF id
    <3> QED
      BY <3>1, <3>2
  <2> QED
    BY <2>1, <2>2
<1>10. Writers' = [x \in Resource |-> IF x \in X THEN Writers[x] \cup {id}
                                                ELSE Writers[x]]
  <2>1. Writers' = [x \in Resource |-> Writers'[x]]
    BY DEF Writers
  <2>2. \A x \in Resource :
          Writers'[x] = IF x \in X THEN Writers[x] \cup {id} ELSE Writers[x]
    <3> SUFFICES ASSUME NEW x \in Resource
                 PROVE  Writers'[x] = IF id \in Writers'[x] THEN Writers[x] \cup {id}
                                                    ELSE Writers[x]
      OBVIOUS
    <3>1. \A l : l # id => (l \in Writers'[x] <=> l \in Writers[x])
      BY <1>1, <1>2
    <3>2. id \notin Writers[x]
      BY <1>1, <1>2
    <3> HIDE DEF id
    <3> QED
      BY <3>1, <3>2
  <2> QED
    BY <2>1, <2>2
<1> QED
  BY <1>3, <1>4, <1>7, <1>8, <1>9, <1>10 DEF Locks!Take

LEMMA LocksRelease ==
  ASSUME NEW l \in Lease, Release(l)
  PROVE  Locks!Drop(l)
  BY DEF Release, Locks!Drop, Readers, Writers

LEMMA LocksNext == IInv /\ IInv' /\ [Next]_leases => [Locks!Next]_(Locks!locks)
<1> SUFFICES ASSUME IInv, IInv', [Next]_leases
             PROVE  [Locks!Next]_(Locks!locks)
  OBVIOUS
<1>1. CASE UNCHANGED leases
  BY <1>1 DEF Locks!locks, Readers, Writers
<1>2. ASSUME NEW q \in Request, Acquire(q)
      PROVE  Locks!Next
  <2>1. q.lease \in Lease
    BY <1>2 DEF Acquire, Valid, Request
  <2> QED
    BY <1>2, <2>1, LocksAcquire DEF Locks!Next
<1>3. ASSUME NEW q \in Request, Refuse(q)
      PROVE  UNCHANGED leases
  BY <1>3 DEF Refuse
<1>4. ASSUME NEW l \in Lease, Release(l)
      PROVE  Locks!Next
  BY <1>4, LocksRelease DEF Locks!Next
<1> QED
  BY <1>1, <1>2, <1>3, <1>4 DEF Next

\* The arbiter is a set of readers-writer locks, and a lease takes all the
\* locks of its claims in one step or none.
THEOREM ImplementsLocks == Spec => LocksSpec
  BY SpecIInv, LocksInit, LocksNext, PTL DEF Spec, LocksSpec, Locks!Spec
=============================================================================
