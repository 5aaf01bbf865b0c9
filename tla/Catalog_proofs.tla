--------------------------- MODULE Catalog_proofs ---------------------------
(***************************************************************************)
(* Proofs about the catalog the HTTP threads edit, for any number of       *)
(* threads, requests, rows and versions: which robot is in which scene,    *)
(* what overlapping saves and publications do to a workflow, and that the  *)
(* tables of scenes, maps, robots and stations agree.  The first inductive *)
(* invariant says which row locks a thread in the middle of a save or a    *)
(* publication holds, and that its locals still name the draft; the second *)
(* says what the locals of the other requests still tell of the tables.    *)
(***************************************************************************)
EXTENDS Catalog, TLAPS, WellFoundedInduction

GraphRecord == [by : Number, uses : Capability \cup {None}]

\* Where a thread saves or publishes a workflow.
Editing == {"pickDraft", "saveDraft", "readDraft", "publishDraft", "publishDefinition"}

TablesOK ==
  /\ version \in [Workflow -> Seq(VersionRecord) \cup {Unused, Deleted}]
  /\ deflock \in [Workflow -> Http \cup {None}]
  /\ rowlock \in [Workflow -> Http \cup {None}]
  /\ saved \in [Workflow -> Number]
  /\ spent \in Number
  /\ thread = [t \in Http |-> thread[t]]

LocalsOK(t) ==
  /\ "pc" \in DOMAIN thread[t]
  /\ At(t, "pickDraft") =>
       thread[t] \in [pc : {"pickDraft"}, workflow : Workflow, graph : GraphRecord]
  /\ At(t, "saveDraft") =>
       thread[t] \in [pc : {"saveDraft"}, workflow : Workflow, graph : GraphRecord,
                      pick : Nat]
  /\ At(t, "readDraft") => thread[t] \in [pc : {"readDraft"}, workflow : Workflow]
  /\ At(t, "publishDraft") =>
       thread[t] \in [pc : {"publishDraft"}, workflow : Workflow, draft : Nat,
                      graph : GraphRecord]
  /\ At(t, "publishDefinition") =>
       thread[t] \in [pc : {"publishDefinition"}, workflow : Workflow, draft : Nat,
                      graph : GraphRecord]

\* A save holds the definition's row and a publication the draft's: nobody else
\* completes a publication or a deletion meanwhile, so the draft is the newest.
LocksHeld(t) ==
  LET w == thread[t].workflow IN
  /\ At(t, "pickDraft") \/ At(t, "saveDraft") =>
       w \in Rows(version) /\ deflock[w] = t
  /\ At(t, "saveDraft") => thread[t].pick = Len(version[w])
  /\ At(t, "publishDefinition") =>
       w \in Rows(version) /\ rowlock[w] = t /\ thread[t].draft = Len(version[w])

\* The newest version is a draft, those before it are published.
Sealed(v) ==
  /\ v # << >>
  /\ \A i \in 1 .. Len(v) : v[i].status = "DRAFT" <=> i = Len(v)

Kept(w) == \E i \in 1 .. Len(version[w]) : version[w][i].graph.by = saved[w]

IInv ==
  /\ TablesOK
  /\ \A t \in Http : LocalsOK(t) /\ LocksHeld(t)
  /\ \A w \in Rows(version) : Sealed(version[w]) /\ Kept(w)

CapabilityIds == DOMAIN capability = Capability

-----------------------------------------------------------------------------
(* Robots and scenes *)

\* Only a replacement adds rows to scene_robots.
LEMMA MembersFromReplacement ==
  ASSUME NEW t \in Http, Step(t)
  PROVE  member' \subseteq member \/ ReplaceSceneRobots(t)
<1>1. ASSUME SceneStep(t)
      PROVE  member' \subseteq member \/ ReplaceSceneRobots(t)
  BY <1>1 DEF SceneStep, CreateScene, DeleteScene, BeginImport, MaterializeMapFiles,
       InsertMapVersion, BeginActivate, SetActiveMap, BeginRemoveMap, ArchiveMap,
       DeleteMap, UnlinkMapFiles, CreateRobot, BeginDeleteRobot, CheckRobotUnused,
       DeleteRobot, BeginReplaceRobots, CloseMembership, BeginCreateStation,
       CreateStation, BeginRemoveStation, RemoveStation, places
<1>2. ASSUME ~SceneStep(t)
      PROVE  member' = member
  BY <1>2 DEF Step, CreateWorkflow, SaveDefinition, PickDraft, SaveDraft,
       BeginPublish, ReadDraft, PublishDraft, PublishDefinition, AbortVictim,
       DeleteWorkflow, CreateCapability, UpdateCapability, BeginDeleteCapability,
       SearchGraphs, DeleteCapability, BeginReplaceActions, ReplaceStationActions,
       places
<1> QED
  BY <1>1, <1>2

LEMMA ReplacementKeepsOne ==
  ASSUME OneScenePerRobot, NEW t \in Http, ReplaceSceneRobots(t)
  PROVE  OneScenePerRobot'
<1> DEFINE s == thread[t].scene  new == thread[t].robots  open == member \ thread[t].old
           row(r) == [robot |-> r, scene |-> s, by |-> thread[t].by]
<1>1. \/ member' = member
      \/ /\ \A r \in new : RobotFree(r, open)
         /\ member' = open \cup {row(r) : r \in new}
  BY DEF ReplaceSceneRobots
<1>2. CASE member' = member
  BY <1>2 DEF OneScenePerRobot
<1>3. CASE /\ \A r \in new : RobotFree(r, open)
           /\ member' = open \cup {row(r) : r \in new}
  <2>1. \A r \in new : \A x \in open : x.robot # r
    BY <1>3 DEF RobotFree
  <2>2. \A x, y \in open : x.robot = y.robot => x = y
    BY DEF OneScenePerRobot
  <2> HIDE DEF open, new, s
  <2>3. \A r \in new : row(r).robot = r
    OBVIOUS
  <2> HIDE DEF row
  <2> QED
    BY <1>3, <2>1, <2>2, <2>3 DEF OneScenePerRobot
<1> QED
  BY <1>1, <1>2, <1>3

\* A robot never has two open rows of scene_robots, whichever requests found it
\* free at the same time.
THEOREM RobotsInOneScene == Spec => []OneScenePerRobot
<1>1. Init => OneScenePerRobot
  BY DEF Init, SceneInit, OneScenePerRobot
<1>2. OneScenePerRobot /\ [Next]_vars => OneScenePerRobot'
  <2>1. ASSUME OneScenePerRobot, NEW t \in Http, Step(t)
        PROVE  OneScenePerRobot'
    BY <2>1, MembersFromReplacement, ReplacementKeepsOne DEF OneScenePerRobot
  <2>2. ASSUME OneScenePerRobot, UNCHANGED vars
        PROVE  OneScenePerRobot'
    BY <2>2 DEF vars, places, OneScenePerRobot
  <2> QED
    BY <2>1, <2>2 DEF Next
<1> QED
  BY <1>1, <1>2, PTL DEF Spec

-----------------------------------------------------------------------------
(* Threads *)

\* A thread goes on to a place where it does not save or publish.
Leaves(t) ==
  /\ spent' \in Number
  /\ \E rec : /\ "pc" \in DOMAIN rec /\ rec.pc \notin Editing
              /\ thread' = [thread EXCEPT ![t] = rec]

LEMMA BeginLeaves ==
  ASSUME TablesOK, NEW t \in Http, NEW rec, Begin(t, rec),
         "pc" \in DOMAIN rec, rec.pc \notin Editing
  PROVE  Leaves(t)
<1>1. spent' \in Number
  BY SceneAssumption DEF Begin, TablesOK, Number
<1> QED
  BY <1>1 DEF Begin, Leaves

LEMMA ContinueLeaves ==
  ASSUME TablesOK, NEW t \in Http, NEW rec, Continue(t, rec),
         "pc" \in DOMAIN rec, rec.pc \notin Editing
  PROVE  Leaves(t)
BY DEF Continue, Leaves, TablesOK

LEMMA IdleLeaves ==
  ASSUME TablesOK, NEW t \in Http, Begin(t, Idle) \/ Answer(t)
  PROVE  Leaves(t)
<1>1. "pc" \in DOMAIN Idle /\ Idle.pc \notin Editing
  BY DEF Idle, Editing
<1> QED
  BY <1>1, BeginLeaves, ContinueLeaves DEF Answer

\* The same record at another place.
LEMMA MovedRecord ==
  ASSUME NEW rec, "pc" \in DOMAIN rec, NEW pc
  PROVE  "pc" \in DOMAIN [rec EXCEPT !.pc = pc] /\ [rec EXCEPT !.pc = pc].pc = pc
OBVIOUS

LEMMA ScenesLeave ==
  ASSUME TablesOK, NEW t \in Http, LocalsOK(t), SceneStep(t)
  PROVE  Leaves(t)
<1>1. ASSUME CreateScene(t) \/ DeleteScene(t) \/ InsertMapVersion(t) \/ SetActiveMap(t)
             \/ ArchiveMap(t) \/ UnlinkMapFiles(t) \/ CreateRobot(t) \/ DeleteRobot(t)
             \/ ReplaceSceneRobots(t) \/ CreateStation(t) \/ RemoveStation(t)
      PROVE  Leaves(t)
  BY <1>1, IdleLeaves DEF CreateScene, DeleteScene, InsertMapVersion, SetActiveMap,
       ArchiveMap, UnlinkMapFiles, CreateRobot, DeleteRobot, ReplaceSceneRobots,
       CreateStation, RemoveStation
<1>2. ASSUME BeginImport(t)
      PROVE  Leaves(t)
  <2>1. PICK s \in Rows(scene) :
          Begin(t, [pc |-> "materialize", scene |-> s, version |-> NextMapVersion(s),
                    import |-> spent + 1])
    BY <1>2 DEF BeginImport
  <2> QED
    BY <2>1, BeginLeaves DEF Editing
<1>3. ASSUME BeginActivate(t)
      PROVE  Leaves(t)
  <2>1. PICK s \in Rows(scene) : \E m \in ReadyMaps(s) :
          Begin(t, [pc |-> "activate", scene |-> s, map |-> m])
    BY <1>3 DEF BeginActivate
  <2>2. PICK m \in ReadyMaps(s) : Begin(t, [pc |-> "activate", scene |-> s, map |-> m])
    BY <2>1
  <2> QED
    BY <2>2, BeginLeaves DEF Editing
<1>4. ASSUME BeginRemoveMap(t)
      PROVE  Leaves(t)
  <2>1. PICK m \in Rows(map) :
          Begin(t, [pc |-> "removeMap", map |-> m, active |-> ShownBy(m) # {},
                    robots |-> OnMap(m) # {}, stations |-> StationsOn({m}) # {}])
    BY <1>4 DEF BeginRemoveMap
  <2> QED
    BY <2>1, BeginLeaves DEF Editing
<1>5. ASSUME BeginDeleteRobot(t)
      PROVE  Leaves(t)
  <2>1. PICK r \in Rows(robot) : Begin(t, [pc |-> "lookAgain", robot |-> r])
    BY <1>5 DEF BeginDeleteRobot
  <2> QED
    BY <2>1, BeginLeaves DEF Editing
<1>6. ASSUME BeginReplaceRobots(t)
      PROVE  Leaves(t)
  <2>1. PICK s \in Rows(scene), new \in SUBSET Rows(robot) :
          Begin(t, [pc |-> "closeRows", scene |-> s, robots |-> new, by |-> spent + 1])
    BY <1>6 DEF BeginReplaceRobots
  <2> QED
    BY <2>1, BeginLeaves DEF Editing
<1>7. ASSUME BeginCreateStation(t)
      PROVE  Leaves(t)
  <2>1. PICK s \in Rows(scene) : \E m \in ReadyMaps(s) :
          Begin(t, [pc |-> "station", map |-> m])
    BY <1>7 DEF BeginCreateStation
  <2>2. PICK m \in ReadyMaps(s) : Begin(t, [pc |-> "station", map |-> m])
    BY <2>1
  <2> QED
    BY <2>2, BeginLeaves DEF Editing
<1>8. ASSUME BeginRemoveStation(t)
      PROVE  Leaves(t)
  <2>1. PICK p \in Rows(station) :
          Begin(t, [pc |-> "removeStation", station |-> p, referenced |-> TargetOf(p)])
    BY <1>8 DEF BeginRemoveStation
  <2> QED
    BY <2>1, BeginLeaves DEF Editing
<1>9. ASSUME MaterializeMapFiles(t)
      PROVE  Leaves(t)
  <2>1. Continue(t, [thread[t] EXCEPT !.pc = "insertMap"])
    BY <1>9 DEF MaterializeMapFiles
  <2> QED
    BY <2>1, MovedRecord, ContinueLeaves DEF LocalsOK, Editing
<1>10. ASSUME CheckRobotUnused(t)
       PROVE  Leaves(t)
  <2>1. Continue(t, [thread[t] EXCEPT !.pc = "deleteRobot"]) \/ Answer(t)
    BY <1>10 DEF CheckRobotUnused
  <2> QED
    BY <2>1, MovedRecord, ContinueLeaves, IdleLeaves DEF LocalsOK, Editing
<1>11. ASSUME CloseMembership(t)
       PROVE  Leaves(t)
  <2> DEFINE s == thread[t].scene
  <2>1. \/ Continue(t, [pc |-> "insertRows", scene |-> s, robots |-> thread[t].robots,
                        by |-> thread[t].by, map |-> scene[s],
                        old |-> {x \in member : x.scene = s}])
        \/ Answer(t)
    BY <1>11 DEF CloseMembership
  <2> QED
    BY <2>1, ContinueLeaves, IdleLeaves DEF Editing
<1>12. ASSUME DeleteMap(t)
       PROVE  Leaves(t)
  <2>1. \/ Continue(t, [pc |-> "unlink", scene |-> map[thread[t].map].scene,
                        version |-> map[thread[t].map].version])
        \/ Answer(t)
    BY <1>12 DEF DeleteMap
  <2> QED
    BY <2>1, ContinueLeaves, IdleLeaves DEF Editing
<1> QED
  BY <1>1, <1>2, <1>3, <1>4, <1>5, <1>6, <1>7, <1>8, <1>9, <1>10, <1>11, <1>12
     DEF SceneStep

\* So do the requests for capabilities and station actions.
LEMMA CapabilitiesLeave ==
  ASSUME TablesOK, NEW t \in Http, LocalsOK(t),
         \/ CreateCapability(t) \/ UpdateCapability(t)
         \/ BeginDeleteCapability(t) \/ SearchGraphs(t) \/ DeleteCapability(t)
         \/ BeginReplaceActions(t) \/ ReplaceStationActions(t)
  PROVE  Leaves(t)
<1>1. ASSUME CreateCapability(t) \/ UpdateCapability(t) \/ DeleteCapability(t)
             \/ ReplaceStationActions(t)
      PROVE  Leaves(t)
  BY <1>1, IdleLeaves DEF CreateCapability, UpdateCapability, DeleteCapability,
       ReplaceStationActions
<1>2. ASSUME BeginDeleteCapability(t)
      PROVE  Leaves(t)
  <2>1. PICK c \in Rows(capability) : Begin(t, [pc |-> "searchGraphs", capability |-> c])
    BY <1>2 DEF BeginDeleteCapability
  <2> QED
    BY <2>1, BeginLeaves DEF Editing
<1>3. ASSUME SearchGraphs(t)
      PROVE  Leaves(t)
  <2>1. Continue(t, [thread[t] EXCEPT !.pc = "deleteCapability"]) \/ Answer(t)
    BY <1>3 DEF SearchGraphs
  <2> QED
    BY <2>1, MovedRecord, ContinueLeaves, IdleLeaves DEF LocalsOK, Editing
<1>4. ASSUME BeginReplaceActions(t)
      PROVE  Leaves(t)
  <2>1. PICK p \in Rows(station), c \in Uses, q \in Rows(station) \cup {None} :
          Begin(t, [pc |-> "insertAction", station |-> p, uses |-> c, target |-> q,
                    old |-> station[p].by, by |-> spent + 1])
    BY <1>4 DEF BeginReplaceActions
  <2> QED
    BY <2>1, BeginLeaves DEF Editing
<1> QED
  BY <1>1, <1>2, <1>3, <1>4

-----------------------------------------------------------------------------
(* The inductive invariant *)

\* A thread keeps its locks and its locals while others leave its workflow.
LEMMA OthersKeep ==
  ASSUME TablesOK, NEW u \in Http, LocalsOK(u), LocksHeld(u),
         thread'[u] = thread[u],
         thread[u].pc \in {"pickDraft", "saveDraft", "publishDefinition"} =>
           LET w == thread[u].workflow IN
           /\ w \in Rows(version) => w \in Rows(version)'
           /\ deflock[w] = u => deflock'[w] = u
           /\ rowlock[w] = u => rowlock'[w] = u
           /\ Len(version'[w]) = Len(version[w])
  PROVE  LocalsOK(u)' /\ LocksHeld(u)'
<1>1. LocalsOK(u)'
  BY DEF LocalsOK, At
<1>2. LocksHeld(u)'
  BY DEF LocksHeld, At
<1> QED
  BY <1>1, <1>2

LEMMA RowsTyped ==
  ASSUME TablesOK
  PROVE  \A w : w \in Rows(version) <=>
                  w \in Workflow /\ version[w] \in Seq(VersionRecord)
BY CatalogAssumption DEF TablesOK, Rows

LEMMA NewestIsLast ==
  ASSUME TablesOK, NEW w \in Rows(version), Sealed(version[w])
  PROVE  /\ version[w] \in Seq(VersionRecord) /\ w \in Workflow
         /\ Len(version[w]) \in Nat /\ Len(version[w]) \in 1 .. Len(version[w])
         /\ Drafts(w) = {Len(version[w])}
         /\ NewestDraft(w) = Len(version[w])
<1>1. version[w] \in Seq(VersionRecord) /\ w \in Workflow
  BY RowsTyped
<1>2. Len(version[w]) \in Nat /\ Len(version[w]) \in 1 .. Len(version[w])
  BY <1>1 DEF Sealed
<1>3. Drafts(w) = {Len(version[w])}
  BY <1>1, <1>2 DEF Drafts, Sealed
<1>4. NewestDraft(w) = Len(version[w])
  BY <1>2, <1>3 DEF NewestDraft
<1> QED
  BY <1>1, <1>2, <1>3, <1>4

\* A step that changes no version and takes no other thread's lock.
LEMMA MoveKeeps ==
  ASSUME IInv, NEW t \in Http, NEW rec, thread' = [thread EXCEPT ![t] = rec],
         spent' \in Number, UNCHANGED <<version, saved>>,
         deflock' \in [Workflow -> Http \cup {None}],
         rowlock' \in [Workflow -> Http \cup {None}],
         \A u \in Http : u # t => \A w \in Workflow :
            /\ deflock[w] = u => deflock'[w] = u
            /\ rowlock[w] = u => rowlock'[w] = u,
         LocalsOK(t)', LocksHeld(t)'
  PROVE  IInv'
<1>1. /\ \A u \in Http : u # t => thread'[u] = thread[u]
      /\ thread' = [u \in Http |-> thread'[u]]
  BY DEF IInv, TablesOK
<1>2. TablesOK'
  BY <1>1 DEF IInv, TablesOK
<1>3. ASSUME NEW u \in Http, u # t
      PROVE  LocalsOK(u)' /\ LocksHeld(u)'
  <2>1. thread'[u] = thread[u] /\ Rows(version)' = Rows(version)
    BY <1>1, <1>3 DEF Rows
  <2>2. thread[u].pc \in {"pickDraft", "saveDraft", "publishDefinition"}
          => thread[u].workflow \in Workflow
    BY DEF IInv, LocalsOK, At
  <2> QED
    BY <1>3, <2>1, <2>2, OthersKeep DEF IInv
<1>4. \A w \in Rows(version)' : Sealed(version[w])' /\ Kept(w)'
  BY DEF IInv, Rows, Sealed, Kept
<1> QED
  BY <1>2, <1>3, <1>4 DEF IInv

\* A step that only moves its thread away from editing.
LEMMA LeavesKeeps ==
  ASSUME IInv, NEW t \in Http, Leaves(t), UNCHANGED workflows
  PROVE  IInv'
<1>1. PICK rec : /\ "pc" \in DOMAIN rec /\ rec.pc \notin Editing
                 /\ thread' = [thread EXCEPT ![t] = rec]
  BY DEF Leaves
<1>2. /\ UNCHANGED <<version, deflock, rowlock, saved>> /\ spent' \in Number
      /\ thread'[t] = rec
  BY <1>1 DEF workflows, locks, Leaves, IInv, TablesOK
<1>3. LocalsOK(t)' /\ LocksHeld(t)'
  BY <1>1, <1>2 DEF LocalsOK, LocksHeld, At, Editing
<1> QED
  BY <1>1, <1>2, <1>3, MoveKeeps DEF IInv, TablesOK

LEMMA SaveDefinitionKeeps ==
  ASSUME IInv, CapabilityIds, NEW t \in Http, SaveDefinition(t)
  PROVE  IInv'
<1>1. PICK w \in Rows(version), c \in Uses :
        /\ Free(deflock, w, t)
        /\ deflock' = [deflock EXCEPT ![w] = t]
        /\ Begin(t, [pc |-> "pickDraft", workflow |-> w,
                     graph |-> [by |-> spent + 1, uses |-> c]])
  BY DEF SaveDefinition
<1> DEFINE rec == [pc |-> "pickDraft", workflow |-> w,
                   graph |-> [by |-> spent + 1, uses |-> c]]
<1>2. /\ UNCHANGED <<version, rowlock, saved>> /\ w \in Workflow
      /\ thread' = [thread EXCEPT ![t] = rec] /\ spent' = spent + 1
      /\ spent + 1 \in Number /\ c \in Capability \cup {None}
  <2>1. UNCHANGED <<version, rowlock, saved>>
    BY DEF SaveDefinition
  <2>2. thread' = [thread EXCEPT ![t] = rec] /\ spent' = spent + 1 /\ spent < Requests
    BY <1>1 DEF Begin
  <2>3. spent + 1 \in Number
    BY <2>2, SceneAssumption DEF IInv, TablesOK, Number
  <2>4. w \in Workflow
    BY RowsTyped DEF IInv
  <2>5. c \in Capability \cup {None}
    BY DEF Uses, Rows, CapabilityIds
  <2> QED
    BY <2>1, <2>2, <2>3, <2>4, <2>5
<1>3. rec \in [pc : {"pickDraft"}, workflow : Workflow, graph : GraphRecord]
      /\ rec.pc = "pickDraft" /\ rec.workflow = w /\ "pc" \in DOMAIN rec
  BY <1>2 DEF GraphRecord
<1> HIDE DEF rec
<1>4. thread'[t] = rec /\ Rows(version)' = Rows(version) /\ deflock'[w] = t
      /\ deflock' \in [Workflow -> Http \cup {None}]
  BY <1>1, <1>2 DEF IInv, TablesOK, Rows
<1>5. LocalsOK(t)' /\ LocksHeld(t)'
  BY <1>3, <1>4 DEF LocalsOK, LocksHeld, At
<1>6. \A u \in Http : u # t => \A x \in Workflow :
        /\ deflock[x] = u => deflock'[x] = u
        /\ rowlock[x] = u => rowlock'[x] = u
  BY <1>1, <1>2, CatalogAssumption DEF Free, IInv, TablesOK
<1>7. spent' \in Number /\ rowlock' \in [Workflow -> Http \cup {None}]
  BY <1>2 DEF IInv, TablesOK
<1> QED
  BY <1>2, <1>4, <1>5, <1>6, <1>7, MoveKeeps

LEMMA PickDraftKeeps ==
  ASSUME IInv, NEW t \in Http, PickDraft(t)
  PROVE  IInv'
<1> DEFINE w == thread[t].workflow
           rec == [pc |-> "saveDraft", workflow |-> w, graph |-> thread[t].graph,
                   pick |-> NewestDraft(w)]
<1>1. /\ At(t, "pickDraft") /\ thread' = [thread EXCEPT ![t] = rec]
      /\ UNCHANGED <<spent, version, deflock, rowlock, saved>>
  BY DEF PickDraft, Continue, workflows, locks
<1>2. /\ w \in Rows(version) /\ deflock[w] = t
      /\ w \in Workflow /\ thread[t].graph \in GraphRecord
  BY <1>1 DEF IInv, LocksHeld, LocalsOK
<1>3. NewestDraft(w) = Len(version[w]) /\ Len(version[w]) \in Nat
  BY <1>2, NewestIsLast DEF IInv
<1>4. /\ rec \in [pc : {"saveDraft"}, workflow : Workflow, graph : GraphRecord, pick : Nat]
      /\ rec.pc = "saveDraft" /\ rec.workflow = w /\ "pc" \in DOMAIN rec
      /\ rec.pick = Len(version[w])
  BY <1>2, <1>3
<1> HIDE DEF rec
<1>5. thread'[t] = rec /\ Rows(version)' = Rows(version)
  BY <1>1 DEF IInv, TablesOK, Rows
<1>6. LocalsOK(t)'
  BY <1>4, <1>5 DEF LocalsOK, At
<1>7. LocksHeld(t)'
  BY <1>1, <1>2, <1>4, <1>5 DEF LocksHeld, At
<1> QED
  BY <1>1, <1>6, <1>7, MoveKeeps DEF IInv, TablesOK

LEMMA BeginPublishKeeps ==
  ASSUME IInv, NEW t \in Http, BeginPublish(t)
  PROVE  IInv'
<1>1. PICK w \in Rows(version) : Begin(t, [pc |-> "readDraft", workflow |-> w])
  BY DEF BeginPublish
<1> DEFINE rec == [pc |-> "readDraft", workflow |-> w]
<1>2. /\ UNCHANGED <<version, deflock, rowlock, saved>> /\ w \in Workflow
      /\ thread' = [thread EXCEPT ![t] = rec] /\ spent' \in Number
  <2>1. UNCHANGED <<version, deflock, rowlock, saved>>
    BY DEF BeginPublish, workflows, locks
  <2>2. thread' = [thread EXCEPT ![t] = rec] /\ spent' = spent + 1 /\ spent < Requests
    BY <1>1 DEF Begin
  <2>3. spent' \in Number
    BY <2>2, SceneAssumption DEF IInv, TablesOK, Number
  <2>4. w \in Workflow
    BY RowsTyped DEF IInv
  <2> QED
    BY <2>1, <2>2, <2>3, <2>4
<1>3. /\ rec \in [pc : {"readDraft"}, workflow : Workflow]
      /\ rec.pc = "readDraft" /\ "pc" \in DOMAIN rec
  BY <1>2
<1> HIDE DEF rec
<1>4. thread'[t] = rec
  BY <1>2 DEF IInv, TablesOK
<1>5. LocalsOK(t)' /\ LocksHeld(t)'
  BY <1>3, <1>4 DEF LocalsOK, LocksHeld, At
<1> QED
  BY <1>2, <1>5, MoveKeeps DEF IInv, TablesOK

LEMMA ReadDraftKeeps ==
  ASSUME IInv, NEW t \in Http, ReadDraft(t)
  PROVE  IInv'
<1> DEFINE w == thread[t].workflow
           rec == [pc |-> "publishDraft", workflow |-> w, draft |-> NewestDraft(w),
                   graph |-> version[w][NewestDraft(w)].graph]
<1>1. /\ At(t, "readDraft") /\ UNCHANGED <<spent, version, deflock, rowlock, saved>>
      /\ \/ w \in Rows(version) /\ thread' = [thread EXCEPT ![t] = rec]
         \/ Answer(t)
  BY DEF ReadDraft, Continue, Answer, workflows, locks
<1>2. CASE Answer(t)
  BY <1>1, <1>2, IdleLeaves, LeavesKeeps DEF IInv, workflows, locks
<1>3. CASE w \in Rows(version) /\ thread' = [thread EXCEPT ![t] = rec]
  <2>1. NewestDraft(w) \in Nat /\ version[w][NewestDraft(w)] \in VersionRecord
        /\ w \in Workflow
    BY <1>3, NewestIsLast DEF IInv
  <2>2. /\ rec \in [pc : {"publishDraft"}, workflow : Workflow, draft : Nat,
                    graph : GraphRecord]
        /\ rec.pc = "publishDraft" /\ "pc" \in DOMAIN rec
    BY <2>1 DEF VersionRecord, GraphRecord
  <2> HIDE DEF rec
  <2>3. thread'[t] = rec
    BY <1>3 DEF IInv, TablesOK
  <2>4. LocalsOK(t)' /\ LocksHeld(t)'
    BY <2>2, <2>3 DEF LocalsOK, LocksHeld, At
  <2> QED
    BY <1>1, <1>3, <2>4, MoveKeeps DEF IInv, TablesOK
<1> QED
  BY <1>1, <1>2, <1>3

LEMMA PublishDraftKeeps ==
  ASSUME IInv, NEW t \in Http, PublishDraft(t)
  PROVE  IInv'
<1> DEFINE w == thread[t].workflow
           rec == [thread[t] EXCEPT !.pc = "publishDefinition"]
<1>1. /\ At(t, "publishDraft") /\ UNCHANGED <<spent, version, deflock, saved>>
      /\ \/ /\ w \in Rows(version) /\ Len(version[w]) = thread[t].draft
            /\ Free(rowlock, w, t) /\ rowlock' = [rowlock EXCEPT ![w] = t]
            /\ thread' = [thread EXCEPT ![t] = rec]
         \/ Answer(t) /\ UNCHANGED rowlock
  BY DEF PublishDraft, NextVersionFree, Continue, Answer
<1>2. CASE Answer(t) /\ UNCHANGED rowlock
  BY <1>1, <1>2, IdleLeaves, LeavesKeeps DEF IInv, workflows, locks
<1>3. CASE /\ w \in Rows(version) /\ Len(version[w]) = thread[t].draft
           /\ Free(rowlock, w, t) /\ rowlock' = [rowlock EXCEPT ![w] = t]
           /\ thread' = [thread EXCEPT ![t] = rec]
  <2>1. thread[t] \in [pc : {"publishDraft"}, workflow : Workflow, draft : Nat,
                       graph : GraphRecord]
    BY <1>1 DEF IInv, LocalsOK
  <2>2. /\ rec \in [pc : {"publishDefinition"}, workflow : Workflow, draft : Nat,
                    graph : GraphRecord]
        /\ rec.pc = "publishDefinition" /\ "pc" \in DOMAIN rec
        /\ rec.workflow = w /\ rec.draft = thread[t].draft /\ w \in Workflow
    BY <2>1
  <2> HIDE DEF rec
  <2>3. /\ thread'[t] = rec /\ Rows(version)' = Rows(version) /\ rowlock'[w] = t
        /\ rowlock' \in [Workflow -> Http \cup {None}]
    BY <1>1, <1>3, <2>2 DEF IInv, TablesOK, Rows
  <2>4. LocalsOK(t)'
    BY <2>2, <2>3 DEF LocalsOK, At
  <2>5. LocksHeld(t)'
    BY <1>1, <1>3, <2>2, <2>3 DEF LocksHeld, At
  <2>6. \A u \in Http : u # t => \A x \in Workflow :
          /\ deflock[x] = u => deflock'[x] = u
          /\ rowlock[x] = u => rowlock'[x] = u
    BY <1>1, <1>3, CatalogAssumption DEF Free, IInv, TablesOK
  <2> QED
    BY <1>1, <1>3, <2>3, <2>4, <2>5, <2>6, MoveKeeps DEF IInv, TablesOK
<1> QED
  BY <1>1, <1>2, <1>3

\* Releasing a lock of its own takes none from another thread.
LEMMA ReleaseFacts ==
  ASSUME NEW t \in Http, NEW w \in Workflow,
         NEW lock \in [Workflow -> Http \cup {None}]
  PROVE  /\ Release(lock, w, t) \in [Workflow -> Http \cup {None}]
         /\ \A u \in Http : u # t => \A x \in Workflow :
              lock[x] = u => Release(lock, w, t)[x] = u
BY DEF Release

LEMMA AbortVictimKeeps ==
  ASSUME IInv, NEW t \in Http, AbortVictim(t)
  PROVE  IInv'
<1>1. PICK w \in Rows(version) : /\ deflock' = Release(deflock, w, t)
                                 /\ rowlock' = Release(rowlock, w, t)
  BY DEF AbortVictim
<1>2. /\ w \in Workflow /\ UNCHANGED <<version, saved, spent>>
      /\ thread' = [thread EXCEPT ![t] = Idle]
  BY <1>1, RowsTyped DEF AbortVictim, Answer, Continue, IInv
<1>3. thread'[t] = Idle /\ Idle.pc = "idle" /\ "pc" \in DOMAIN Idle
  BY <1>2 DEF IInv, TablesOK, Idle
<1>4. LocalsOK(t)' /\ LocksHeld(t)'
  BY <1>3 DEF LocalsOK, LocksHeld, At
<1>5. /\ deflock' \in [Workflow -> Http \cup {None}]
      /\ rowlock' \in [Workflow -> Http \cup {None}]
      /\ \A u \in Http : u # t => \A x \in Workflow :
           /\ deflock[x] = u => deflock'[x] = u
           /\ rowlock[x] = u => rowlock'[x] = u
  BY <1>1, <1>2, ReleaseFacts DEF IInv, TablesOK
<1> QED
  BY <1>2, <1>4, <1>5, MoveKeeps DEF IInv, TablesOK

-----------------------------------------------------------------------------
(* The steps that change versions *)

\* A step of t that gives one workflow w new versions and no thread a lock: the
\* others are not in the middle of a save or a publication of w, or keep its
\* length.
LEMMA VersionsKeep ==
  ASSUME IInv, NEW t \in Http, thread' = [thread EXCEPT ![t] = Idle],
         spent' \in Number, NEW w \in Workflow, NEW v, NEW by \in Number,
         v \in Seq(VersionRecord) \cup {Unused, Deleted},
         version' = [version EXCEPT ![w] = v],
         saved' = [saved EXCEPT ![w] = by],
         deflock' \in [Workflow -> Http \cup {None}],
         rowlock' \in [Workflow -> Http \cup {None}],
         \A u \in Http : u # t => \A x \in Workflow :
            /\ deflock[x] = u => deflock'[x] = u
            /\ rowlock[x] = u => rowlock'[x] = u,
         \/ /\ w \in Rows(version) /\ v \in Seq(VersionRecord)
            /\ Len(v) = Len(version[w])
         \/ \A u \in Http : u # t => deflock[w] # u /\ rowlock[w] # u
         \/ w \notin Rows(version),
         v \in Seq(VersionRecord) =>
           Sealed(v) /\ \E i \in 1 .. Len(v) : v[i].graph.by = by
  PROVE  IInv'
<1>1. /\ thread'[t] = Idle /\ \A u \in Http : u # t => thread'[u] = thread[u]
      /\ thread' = [u \in Http |-> thread'[u]]
  BY DEF IInv, TablesOK
<1>2. /\ version' \in [Workflow -> Seq(VersionRecord) \cup {Unused, Deleted}]
      /\ version'[w] = v
      /\ \A x \in Workflow : x # w => version'[x] = version[x]
      /\ saved' \in [Workflow -> Number] /\ saved'[w] = by
      /\ \A x \in Workflow : x # w => saved'[x] = saved[x]
  BY DEF IInv, TablesOK
<1>3. TablesOK'
  BY <1>1, <1>2 DEF IInv, TablesOK
<1>4. \A x \in Workflow : x # w => (x \in Rows(version)' <=> x \in Rows(version))
  BY <1>2, <1>3, RowsTyped DEF IInv, TablesOK, Rows
<1>5. LocalsOK(t)' /\ LocksHeld(t)'
  <2>1. Idle.pc = "idle" /\ "pc" \in DOMAIN Idle
    BY DEF Idle
  <2> QED
    BY <1>1, <2>1 DEF LocalsOK, LocksHeld, At
<1>6. ASSUME NEW u \in Http, u # t
      PROVE  LocalsOK(u)' /\ LocksHeld(u)'
  <2>1. LocalsOK(u) /\ LocksHeld(u) /\ thread'[u] = thread[u]
    BY <1>1, <1>6 DEF IInv
  <2>2. ASSUME thread[u].pc \in {"pickDraft", "saveDraft", "publishDefinition"}
        PROVE  LET x == thread[u].workflow IN
               /\ x \in Workflow /\ x \in Rows(version)
               /\ deflock[x] = u \/ rowlock[x] = u
    BY <2>1, <2>2 DEF LocalsOK, LocksHeld, At
  <2>3. ASSUME thread[u].pc \in {"pickDraft", "saveDraft", "publishDefinition"}
        PROVE  LET x == thread[u].workflow IN
               /\ x \in Rows(version) => x \in Rows(version)'
               /\ deflock[x] = u => deflock'[x] = u
               /\ rowlock[x] = u => rowlock'[x] = u
               /\ Len(version'[x]) = Len(version[x])
    <3> DEFINE x == thread[u].workflow
    <3>1. CASE x # w
      BY <1>2, <1>4, <1>6, <2>2, <2>3, <3>1
    <3>2. CASE x = w
      <4>1. v \in Seq(VersionRecord) /\ Len(v) = Len(version[w])
        BY <1>6, <2>2, <2>3, <3>2
      <4>2. w \in Rows(version)'
        BY <1>2, <4>1, CatalogAssumption DEF Rows
      <4> QED
        BY <1>2, <1>6, <2>2, <2>3, <3>2, <4>1, <4>2
    <3> QED
      BY <3>1, <3>2
  <2> QED
    BY <2>1, <2>3, OthersKeep DEF IInv
<1>7. ASSUME NEW x \in Rows(version)'
      PROVE  Sealed(version[x])' /\ Kept(x)'
  <2>1. x \in Workflow /\ version'[x] \in Seq(VersionRecord)
    BY <1>2, <1>7 DEF Rows
  <2>2. CASE x = w
    BY <1>2, <2>1, <2>2 DEF Sealed, Kept
  <2>3. CASE x # w
    <3>1. Sealed(version[x]) /\ Kept(x)
      BY <1>4, <1>7, <2>1, <2>3 DEF IInv
    <3> QED
      BY <1>2, <2>1, <2>3, <3>1 DEF Sealed, Kept
  <2> QED
    BY <2>2, <2>3
<1> QED
  BY <1>3, <1>5, <1>6, <1>7 DEF IInv

LEMMA CreateWorkflowKeeps ==
  ASSUME IInv, CapabilityIds, NEW t \in Http, CreateWorkflow(t)
  PROVE  IInv'
<1>1. PICK w \in Fresh(version), c \in Uses :
        /\ version' = [version EXCEPT ![w] = <<Draft([by |-> spent + 1, uses |-> c])>>]
        /\ saved' = [saved EXCEPT ![w] = spent + 1]
  BY DEF CreateWorkflow
<1> DEFINE v == <<Draft([by |-> spent + 1, uses |-> c])>>
<1>2. /\ thread' = [thread EXCEPT ![t] = Idle] /\ spent' = spent + 1 /\ spent < Requests
      /\ UNCHANGED <<deflock, rowlock>>
  BY DEF CreateWorkflow, Begin, locks
<1>3. spent + 1 \in Number
  BY <1>2, SceneAssumption DEF IInv, TablesOK, Number
<1>4. w \in Workflow /\ w \notin Rows(version)
  BY DEF Fresh, Rows, IInv, TablesOK
<1>5. Draft([by |-> spent + 1, uses |-> c]) \in VersionRecord
  BY <1>3 DEF Draft, VersionRecord, Uses, Rows, CapabilityIds
<1>6. /\ v \in Seq(VersionRecord) /\ Len(v) = 1
      /\ v[1].status = "DRAFT" /\ v[1].graph.by = spent + 1
  BY <1>5 DEF Draft
<1> HIDE DEF v
<1>7. Sealed(v) /\ \E i \in 1 .. Len(v) : v[i].graph.by = spent + 1
  <2>1. v # << >> /\ 1 \in 1 .. Len(v)
    <3>1. v \in Seq(VersionRecord) /\ Len(v) = 1
      BY <1>6
    <3> QED
      BY <3>1
  <2> QED
    BY <1>6, <2>1 DEF Sealed
<1> QED
  BY <1>1, <1>2, <1>3, <1>4, <1>6, <1>7, VersionsKeep DEF v, IInv, TablesOK

LEMMA DeleteWorkflowKeeps ==
  ASSUME IInv, NEW t \in Http, DeleteWorkflow(t)
  PROVE  IInv'
<1>1. PICK w \in Rows(version) : /\ Free(deflock, w, t) /\ Free(rowlock, w, t)
                                 /\ version' = [version EXCEPT ![w] = Deleted]
  BY DEF DeleteWorkflow
<1>2. /\ thread' = [thread EXCEPT ![t] = Idle] /\ spent' = spent + 1 /\ spent < Requests
      /\ UNCHANGED <<deflock, rowlock, saved>>
  BY DEF DeleteWorkflow, Begin, locks
<1>3. spent' \in Number
  BY <1>2, SceneAssumption DEF IInv, TablesOK, Number
<1>4. w \in Workflow /\ saved[w] \in Number /\ saved' = [saved EXCEPT ![w] = saved[w]]
  BY <1>2, RowsTyped DEF IInv, TablesOK
<1>5. \A u \in Http : u # t => deflock[w] # u /\ rowlock[w] # u
  BY <1>1, CatalogAssumption DEF Free
<1>6. Deleted \notin Seq(VersionRecord)
  BY CatalogAssumption
<1> QED
  BY <1>1, <1>2, <1>3, <1>4, <1>5, <1>6, VersionsKeep DEF IInv, TablesOK

\* The versions after a save, and after a publication.
Saved(v, i, g) == [v EXCEPT ![i].graph = g]
Sealing(v, n, g) ==
  Append([v EXCEPT ![n] = [v[n] EXCEPT !.status = "PUBLISHED"]], Draft(g))

\* What a save writes, and where.
LEMMA SaveDraftFacts ==
  ASSUME IInv, NEW t \in Http, SaveDraft(t)
  PROVE  LET w == thread[t].workflow
             i == Len(version[w])
             g == thread[t].graph
             v == Saved(version[w], i, g) IN
         /\ w \in Workflow /\ w \in Rows(version) /\ deflock[w] = t
         /\ version[w] \in Seq(VersionRecord) /\ Sealed(version[w])
         /\ i \in 1 .. i
         /\ version' = [version EXCEPT ![w] = v]
         /\ saved' = [saved EXCEPT ![w] = g.by] /\ g \in GraphRecord
<1> DEFINE w == thread[t].workflow
<1>1. At(t, "saveDraft")
  BY DEF SaveDraft
<1>2. /\ w \in Rows(version) /\ deflock[w] = t /\ w \in Workflow
      /\ thread[t].pick = Len(version[w]) /\ thread[t].graph \in GraphRecord
  BY <1>1 DEF IInv, LocksHeld, LocalsOK
<1>3. /\ version[w] \in Seq(VersionRecord) /\ Sealed(version[w])
      /\ Len(version[w]) \in 1 .. Len(version[w])
  BY <1>2, NewestIsLast DEF IInv
<1>4. /\ version' = WithGraph(w, Len(version[w]), thread[t].graph)
      /\ saved' = [saved EXCEPT ![w] = thread[t].graph.by]
  BY <1>2 DEF SaveDraft
<1>5. version' = [version EXCEPT ![w] = [version[w] EXCEPT ![Len(version[w])].graph
                                                              = thread[t].graph]]
  BY <1>4 DEF WithGraph
<1> QED
  BY <1>2, <1>3, <1>4, <1>5 DEF Saved

LEMMA WithGraphFacts ==
  ASSUME NEW v \in Seq(VersionRecord), NEW i \in 1 .. Len(v), NEW g \in GraphRecord
  PROVE  /\ Saved(v, i, g) \in Seq(VersionRecord) /\ Len(Saved(v, i, g)) = Len(v)
         /\ Saved(v, i, g)[i].graph = g
         /\ \A k \in 1 .. Len(v) : /\ Saved(v, i, g)[k].status = v[k].status
                                   /\ k # i => Saved(v, i, g)[k] = v[k]
<1> DEFINE x == [v EXCEPT ![i] = [v[i] EXCEPT !.graph = g]]
<1>1. v[i] \in VersionRecord
  OBVIOUS
<1>2. /\ [v[i] EXCEPT !.graph = g] \in VersionRecord
      /\ [v[i] EXCEPT !.graph = g].graph = g
      /\ [v[i] EXCEPT !.graph = g].status = v[i].status
  BY <1>1 DEF VersionRecord, GraphRecord
<1>3. x \in Seq(VersionRecord) /\ Len(x) = Len(v)
  BY <1>2
<1>4. \A k \in 1 .. Len(v) : x[k] = IF k = i THEN [v[i] EXCEPT !.graph = g] ELSE v[k]
  OBVIOUS
<1>5. Saved(v, i, g) = x
  BY DEF Saved
<1> HIDE DEF x
<1> QED
  BY <1>2, <1>3, <1>4, <1>5

LEMMA SaveDraftKeeps ==
  ASSUME IInv, NEW t \in Http, SaveDraft(t)
  PROVE  IInv'
<1> DEFINE w == thread[t].workflow  i == Len(version[w])  g == thread[t].graph
           v == Saved(version[w], i, g)
<1>1. /\ w \in Workflow /\ w \in Rows(version) /\ deflock[w] = t
      /\ version[w] \in Seq(VersionRecord) /\ Sealed(version[w])
      /\ i \in 1 .. i
      /\ version' = [version EXCEPT ![w] = v]
      /\ saved' = [saved EXCEPT ![w] = g.by] /\ g \in GraphRecord
  BY SaveDraftFacts
<1>2. /\ v \in Seq(VersionRecord) /\ Len(v) = i /\ v[i].graph = g
      /\ \A k \in 1 .. i : v[k].status = version[w][k].status
  <2> HIDE DEF w, g
  <2>1. i \in 1 .. Len(version[w])
    BY <1>1
  <2> QED
    BY <1>1, <2>1, WithGraphFacts
<1>3. /\ thread' = [thread EXCEPT ![t] = Idle] /\ spent' = spent
      /\ deflock' = Release(deflock, w, t) /\ rowlock' = rowlock
  BY DEF SaveDraft, Answer, Continue
<1> HIDE DEF v, w, i, g
<1>4. v # << >> /\ g.by \in Number
  BY <1>1, <1>2 DEF GraphRecord
<1>5. Sealed(v) /\ \E k \in 1 .. Len(v) : v[k].graph.by = g.by
  <2>1. Sealed(v)
    BY <1>1, <1>2, <1>4 DEF Sealed, i
  <2> QED
    BY <1>1, <1>2, <2>1
<1>6. /\ deflock' \in [Workflow -> Http \cup {None}]
      /\ \A u \in Http : u # t => \A x \in Workflow : deflock[x] = u => deflock'[x] = u
  BY <1>1, <1>3, ReleaseFacts DEF IInv, TablesOK
<1>7. v \in Seq(VersionRecord) /\ Len(v) = Len(version[w])
  BY <1>2 DEF i
<1>8. /\ spent' \in Number /\ rowlock' \in [Workflow -> Http \cup {None}]
      /\ \A u \in Http : u # t => \A x \in Workflow : rowlock[x] = u => rowlock'[x] = u
  BY <1>3 DEF IInv, TablesOK
<1>9. /\ w \in Workflow /\ w \in Rows(version) /\ version' = [version EXCEPT ![w] = v]
      /\ saved' = [saved EXCEPT ![w] = g.by]
  BY <1>1
<1>10. thread' = [thread EXCEPT ![t] = Idle]
  BY <1>3
<1> QED
  BY <1>4, <1>5, <1>6, <1>7, <1>8, <1>9, <1>10, VersionsKeep

\* What a publication writes: the newest version, with its graph as it is now,
\* is published, and the graph that was read is the next draft.
LEMMA PublishFacts ==
  ASSUME IInv, NEW t \in Http, PublishDefinition(t)
  PROVE  LET w == thread[t].workflow
             i == Len(version[w])
             g == thread[t].graph
             v == Sealing(version[w], i, g) IN
         /\ w \in Workflow /\ w \in Rows(version)
         /\ version[w] \in Seq(VersionRecord) /\ Sealed(version[w])
         /\ i \in 1 .. i /\ g \in GraphRecord
         /\ version' = [version EXCEPT ![w] = v]
         /\ rowlock[w] = t /\ Free(deflock, w, t)
<1> DEFINE w == thread[t].workflow
<1>1. At(t, "publishDefinition")
  BY DEF PublishDefinition
<1>2. /\ w \in Rows(version) /\ rowlock[w] = t /\ w \in Workflow
      /\ thread[t].draft = Len(version[w]) /\ thread[t].graph \in GraphRecord
  BY <1>1 DEF IInv, LocksHeld, LocalsOK
<1>3. /\ version[w] \in Seq(VersionRecord) /\ Sealed(version[w])
      /\ Len(version[w]) \in 1 .. Len(version[w])
  BY <1>2, NewestIsLast DEF IInv
<1>4. Free(deflock, w, t)
  BY DEF PublishDefinition, Touches
<1> QED
  BY <1>2, <1>3, <1>4 DEF PublishDefinition, Published, Sealing

LEMMA SealingFacts ==
  ASSUME NEW v \in Seq(VersionRecord), NEW g \in GraphRecord, Sealed(v),
         NEW n, n = Len(v), n \in 1 .. n
  PROVE  /\ Sealing(v, n, g) \in Seq(VersionRecord) /\ Len(Sealing(v, n, g)) = n + 1
         /\ Sealed(Sealing(v, n, g))
         /\ \A k \in 1 .. n : Sealing(v, n, g)[k].graph = v[k].graph
         /\ \A k \in 1 .. n : k # n => Sealing(v, n, g)[k] = v[k]
<1> DEFINE e == [v[n] EXCEPT !.status = "PUBLISHED"]
           y == [v EXCEPT ![n] = e]
           x == Append(y, Draft(g))
<1>8. Sealing(v, n, g) = x
  BY DEF Sealing
<1>1. n \in Nat /\ \A k \in 1 .. n : v[k] \in VersionRecord
  OBVIOUS
<1>2. e \in VersionRecord /\ e.graph = v[n].graph /\ e.status = "PUBLISHED"
  BY <1>1 DEF VersionRecord
<1>3. Draft(g) \in VersionRecord /\ Draft(g).status = "DRAFT"
  BY DEF Draft, VersionRecord, GraphRecord
<1> HIDE DEF e
<1>4. /\ y \in Seq(VersionRecord) /\ Len(y) = n
      /\ \A k \in 1 .. n : y[k] = IF k = n THEN e ELSE v[k]
  BY <1>2
<1> HIDE DEF y
<1>5. /\ x \in Seq(VersionRecord) /\ Len(x) = n + 1
      /\ \A k \in 1 .. n : x[k] = y[k]
      /\ x[n + 1] = Draft(g)
  BY <1>3, <1>4
<1> HIDE DEF x
<1>6. \A k \in 1 .. n : x[k].graph = v[k].graph /\ (k # n => x[k] = v[k])
  BY <1>2, <1>4, <1>5
<1>7. Sealed(x)
  <2>1. x # << >>
    BY <1>1, <1>5
  <2>2. ASSUME NEW k \in 1 .. n + 1
        PROVE  x[k].status = "DRAFT" <=> k = n + 1
    <3>1. CASE k = n + 1
      BY <1>3, <1>5, <3>1
    <3>2. CASE k \in 1 .. n
      <4>1. x[k].status = IF k = n THEN "PUBLISHED" ELSE v[k].status
        BY <1>2, <1>4, <1>5, <3>2
      <4>2. k # n => v[k].status # "DRAFT"
        BY <3>2 DEF Sealed
      <4> QED
        BY <1>1, <3>2, <4>1, <4>2
    <3> QED
      BY <1>1, <3>1, <3>2
  <2> QED
    BY <1>5, <2>1, <2>2 DEF Sealed
<1> QED
  BY <1>5, <1>6, <1>7, <1>8

LEMMA PublishDefinitionKeeps ==
  ASSUME IInv, NEW t \in Http, PublishDefinition(t)
  PROVE  IInv'
<1> DEFINE w == thread[t].workflow  n == Len(version[w])  g == thread[t].graph
           v == Sealing(version[w], n, g)
<1>1. /\ w \in Workflow /\ w \in Rows(version)
      /\ version[w] \in Seq(VersionRecord) /\ Sealed(version[w])
      /\ n \in 1 .. n /\ g \in GraphRecord
      /\ version' = [version EXCEPT ![w] = v]
      /\ rowlock[w] = t /\ Free(deflock, w, t)
  BY PublishFacts
<1>2. /\ v \in Seq(VersionRecord) /\ Len(v) = n + 1 /\ Sealed(v)
      /\ \A k \in 1 .. n : v[k].graph = version[w][k].graph
  <2> HIDE DEF w, g
  <2>1. n = Len(version[w])
    OBVIOUS
  <2> HIDE DEF n
  <2> QED
    BY <1>1, <2>1, SealingFacts
<1>3. /\ thread' = [thread EXCEPT ![t] = Idle] /\ spent' = spent
      /\ rowlock' = Release(rowlock, w, t) /\ UNCHANGED <<deflock, saved>>
  BY DEF PublishDefinition, Answer, Continue
<1> HIDE DEF v
<1>4. PICK k \in 1 .. n : version[w][k].graph.by = saved[w]
  BY <1>1 DEF IInv, Kept
<1>5. \E m \in 1 .. Len(v) : v[m].graph.by = saved[w]
  <2>1. n \in Nat /\ k \in 1 .. n + 1
    BY <1>1
  <2> QED
    BY <1>2, <1>4, <2>1
<1>6. \A u \in Http : u # t => deflock[w] # u /\ rowlock[w] # u
  BY <1>1, CatalogAssumption DEF Free
<1>7. /\ rowlock' \in [Workflow -> Http \cup {None}]
      /\ \A u \in Http : u # t => \A x \in Workflow : rowlock[x] = u => rowlock'[x] = u
  BY <1>1, <1>3, ReleaseFacts DEF IInv, TablesOK
<1>8. saved[w] \in Number /\ saved' = [saved EXCEPT ![w] = saved[w]]
  BY <1>1, <1>3 DEF IInv, TablesOK
<1>9. /\ spent' \in Number /\ deflock' \in [Workflow -> Http \cup {None}]
      /\ \A u \in Http : u # t => \A x \in Workflow : deflock[x] = u => deflock'[x] = u
  BY <1>3 DEF IInv, TablesOK
<1>10. /\ w \in Workflow /\ version' = [version EXCEPT ![w] = v]
       /\ v \in Seq(VersionRecord) /\ Sealed(v)
  BY <1>1, <1>2
<1>11. thread' = [thread EXCEPT ![t] = Idle]
  BY <1>3
<1> DEFINE b == saved[w]
<1>12. /\ b \in Number /\ saved' = [saved EXCEPT ![w] = b]
       /\ v \in Seq(VersionRecord) =>
            Sealed(v) /\ \E m \in 1 .. Len(v) : v[m].graph.by = b
  BY <1>5, <1>8, <1>10
<1>13. /\ v \in Seq(VersionRecord) \cup {Unused, Deleted}
       /\ \A u \in Http : u # t => deflock[w] # u /\ rowlock[w] # u
       /\ \A u \in Http : u # t => \A x \in Workflow :
            /\ deflock[x] = u => deflock'[x] = u
            /\ rowlock[x] = u => rowlock'[x] = u
  BY <1>6, <1>7, <1>9, <1>10
<1>14. /\ w \in Workflow /\ version' = [version EXCEPT ![w] = v]
       /\ spent' \in Number /\ deflock' \in [Workflow -> Http \cup {None}]
       /\ rowlock' \in [Workflow -> Http \cup {None}]
  BY <1>7, <1>9, <1>10
<1> HIDE DEF w, n, g, b
<1> QED
  BY <1>11, <1>12, <1>13, <1>14, VersionsKeep

-----------------------------------------------------------------------------
(* The invariant *)

LEMMA CapabilityIdsStay ==
  ASSUME CapabilityIds, NEW t \in Http, Step(t)
  PROVE  CapabilityIds'
<1>1. DOMAIN capability' = DOMAIN capability
  BY DEF Step, CreateWorkflow, SaveDefinition, PickDraft, SaveDraft, BeginPublish,
       ReadDraft, PublishDraft, PublishDefinition, AbortVictim, DeleteWorkflow,
       CreateCapability, UpdateCapability, BeginDeleteCapability, SearchGraphs,
       DeleteCapability, BeginReplaceActions, ReplaceStationActions
<1> QED
  BY <1>1 DEF CapabilityIds

\* Requests that have nothing to do with workflows leave them alone.
LEMMA ElsewhereUnchanged ==
  ASSUME NEW t \in Http,
         \/ SceneStep(t) /\ UNCHANGED <<workflows, capability>>
         \/ CreateCapability(t) \/ UpdateCapability(t)
         \/ BeginDeleteCapability(t) \/ SearchGraphs(t) \/ DeleteCapability(t)
         \/ BeginReplaceActions(t) \/ ReplaceStationActions(t)
  PROVE  UNCHANGED workflows
BY DEF CreateCapability, UpdateCapability, BeginDeleteCapability, SearchGraphs,
     DeleteCapability, BeginReplaceActions, ReplaceStationActions

LEMMA ElsewhereKeeps ==
  ASSUME IInv, NEW t \in Http,
         \/ SceneStep(t) /\ UNCHANGED <<workflows, capability>>
         \/ CreateCapability(t) \/ UpdateCapability(t)
         \/ BeginDeleteCapability(t) \/ SearchGraphs(t) \/ DeleteCapability(t)
         \/ BeginReplaceActions(t) \/ ReplaceStationActions(t)
  PROVE  IInv'
<1>1. UNCHANGED workflows
  BY ElsewhereUnchanged
<1>2. TablesOK /\ LocalsOK(t)
  BY DEF IInv
<1>3. Leaves(t)
  BY <1>2, ScenesLeave, CapabilitiesLeave
<1> QED
  BY <1>1, <1>3, LeavesKeeps

LEMMA InitIInv == Init => IInv /\ CapabilityIds
<1> SUFFICES ASSUME Init PROVE IInv /\ CapabilityIds
  OBVIOUS
<1> DEFINE first == <<Draft([by |-> 0, uses |-> None])>>
<1>1. 0 \in Number
  BY SceneAssumption DEF Number
<1>2. /\ Draft([by |-> 0, uses |-> None]) \in VersionRecord
      /\ Draft([by |-> 0, uses |-> None]).status = "DRAFT"
      /\ Draft([by |-> 0, uses |-> None]).graph.by = 0
  BY <1>1 DEF Draft, VersionRecord
<1>3. /\ first \in Seq(VersionRecord) /\ Len(first) = 1
      /\ first[1].status = "DRAFT" /\ first[1].graph.by = 0
  BY <1>2
<1> HIDE DEF first
<1>4. first # << >> /\ 1 \in 1 .. Len(first)
  BY <1>3
<1>5. Sealed(first) /\ \E i \in 1 .. Len(first) : first[i].graph.by = 0
  BY <1>3, <1>4 DEF Sealed
<1>6. /\ version = [w \in Workflow |-> IF w = Flow THEN first ELSE Unused]
      /\ saved = [w \in Workflow |-> 0]
      /\ deflock = [w \in Workflow |-> None] /\ rowlock = [w \in Workflow |-> None]
      /\ thread = [t \in Http |-> Idle] /\ spent = 0 /\ CapabilityIds
  BY DEF Init, SceneInit, CapabilityIds, first
<1>7. TablesOK
  BY <1>1, <1>3, <1>6 DEF TablesOK
<1>8. ASSUME NEW t \in Http
      PROVE  LocalsOK(t) /\ LocksHeld(t)
  <2>1. thread[t].pc = "idle" /\ "pc" \in DOMAIN thread[t]
    BY <1>6 DEF Idle
  <2> QED
    BY <2>1 DEF LocalsOK, LocksHeld, At
<1>9. ASSUME NEW w \in Rows(version)
      PROVE  Sealed(version[w]) /\ Kept(w)
  <2>1. w \in Workflow /\ version[w] = first /\ saved[w] = 0
    BY <1>6 DEF Rows
  <2> QED
    BY <1>5, <2>1 DEF Kept
<1> QED
  BY <1>6, <1>7, <1>8, <1>9 DEF IInv

LEMMA NextIInv ==
  ASSUME IInv, CapabilityIds, [Next]_vars
  PROVE  IInv' /\ CapabilityIds'
<1>1. ASSUME NEW t \in Http, Step(t)
      PROVE  IInv' /\ CapabilityIds'
  <2>1. CapabilityIds'
    BY <1>1, CapabilityIdsStay
  <2>2. IInv'
    BY <1>1, ElsewhereKeeps, CreateWorkflowKeeps, SaveDefinitionKeeps, PickDraftKeeps,
       SaveDraftKeeps, BeginPublishKeeps, ReadDraftKeeps, PublishDraftKeeps,
       PublishDefinitionKeeps, AbortVictimKeeps, DeleteWorkflowKeeps DEF Step
  <2> QED
    BY <2>1, <2>2
<1>2. ASSUME UNCHANGED vars
      PROVE  IInv' /\ CapabilityIds'
  <2>1. UNCHANGED <<version, deflock, rowlock, saved, thread, spent, capability>>
    BY <1>2 DEF vars, requests, workflows, locks
  <2>2. TablesOK' /\ Rows(version)' = Rows(version)
    BY <2>1 DEF IInv, TablesOK, Rows
  <2>3. \A t \in Http : LocalsOK(t)' /\ LocksHeld(t)'
    <3> SUFFICES ASSUME NEW t \in Http PROVE LocalsOK(t)' /\ LocksHeld(t)'
      OBVIOUS
    <3> QED
      BY <2>1, <2>2, OthersKeep DEF IInv
  <2>4. \A w \in Rows(version)' : Sealed(version[w])' /\ Kept(w)'
    BY <2>1, <2>2 DEF IInv, Sealed, Kept
  <2> QED
    BY <2>1, <2>2, <2>3, <2>4 DEF IInv, CapabilityIds
<1> QED
  BY <1>1, <1>2 DEF Next

LEMMA Invariant == Spec => [](IInv /\ CapabilityIds)
<1>1. IInv /\ CapabilityIds /\ [Next]_vars => (IInv /\ CapabilityIds)'
  BY NextIInv
<1> QED
  BY <1>1, InitIInv, PTL DEF Spec

-----------------------------------------------------------------------------
(* Saves and publications *)

\* However saves and publications overlap, the newest version of a workflow is
\* its one draft.
THEOREM NewestDrafted == Spec => []NewestIsOnlyDraft
<1>1. IInv => NewestIsOnlyDraft
  BY NewestIsLast DEF IInv, NewestIsOnlyDraft
<1> QED
  BY <1>1, Invariant, PTL

\* The graph of the last save is in some version, whatever was published
\* meanwhile.
THEOREM NoSaveLost == Spec => []SaveKept
<1>1. IInv => SaveKept
  <2> SUFFICES ASSUME IInv, NEW w \in Rows(version)
               PROVE  \E i \in DOMAIN version[w] : version[w][i].graph.by = saved[w]
    BY DEF SaveKept
  <2>1. DOMAIN version[w] = 1 .. Len(version[w])
    BY RowsTyped DEF IInv
  <2> QED
    BY <2>1 DEF IInv, Kept
<1> QED
  BY <1>1, Invariant, PTL

\* What a step may not do to a published version.
Frozen ==
  \A w \in Rows(version) : \A i \in DOMAIN version[w] :
    version[w][i].status = "PUBLISHED" /\ version'[w] # Deleted
      => version'[w][i] = version[w][i]

LEMMA SaveDraftFreezes ==
  ASSUME IInv, NEW t \in Http, SaveDraft(t)
  PROVE  Frozen
<1> DEFINE w == thread[t].workflow  n == Len(version[w])  g == thread[t].graph
           v == Saved(version[w], n, g)
<1>1. /\ w \in Workflow /\ w \in Rows(version)
      /\ version[w] \in Seq(VersionRecord) /\ Sealed(version[w])
      /\ n \in 1 .. n /\ version' = [version EXCEPT ![w] = v] /\ g \in GraphRecord
  BY SaveDraftFacts
<1>2. n = Len(version[w])
  OBVIOUS
<1> HIDE DEF w, n, g
<1>3. \A k \in 1 .. n : k # n => v[k] = version[w][k]
  BY <1>1, <1>2, WithGraphFacts
<1> HIDE DEF v
<1>4. version[w][n].status # "PUBLISHED" /\ DOMAIN version[w] = 1 .. n
  BY <1>1, <1>2 DEF Sealed
<1> SUFFICES ASSUME NEW x \in Rows(version), NEW i \in DOMAIN version[x],
                    version[x][i].status = "PUBLISHED"
             PROVE  version'[x][i] = version[x][i]
  BY DEF Frozen
<1>5. x \in Workflow /\ \A y \in Workflow :
        version'[y] = IF y = w THEN v ELSE version[y]
  BY <1>1, RowsTyped DEF IInv, TablesOK
<1> QED
  BY <1>3, <1>4, <1>5

LEMMA PublishFreezes ==
  ASSUME IInv, NEW t \in Http, PublishDefinition(t)
  PROVE  Frozen
<1> DEFINE w == thread[t].workflow  n == Len(version[w])  g == thread[t].graph
           v == Sealing(version[w], n, g)
<1>1. /\ w \in Workflow /\ w \in Rows(version)
      /\ version[w] \in Seq(VersionRecord) /\ Sealed(version[w])
      /\ n \in 1 .. n /\ version' = [version EXCEPT ![w] = v] /\ g \in GraphRecord
  BY PublishFacts
<1>2. n = Len(version[w])
  OBVIOUS
<1> HIDE DEF w, n, g
<1>3. \A k \in 1 .. n : k # n => v[k] = version[w][k]
  BY <1>1, <1>2, SealingFacts
<1> HIDE DEF v
<1>4. version[w][n].status # "PUBLISHED" /\ DOMAIN version[w] = 1 .. n
  BY <1>1, <1>2 DEF Sealed
<1> SUFFICES ASSUME NEW x \in Rows(version), NEW i \in DOMAIN version[x],
                    version[x][i].status = "PUBLISHED"
             PROVE  version'[x][i] = version[x][i]
  BY DEF Frozen
<1>5. x \in Workflow /\ \A y \in Workflow :
        version'[y] = IF y = w THEN v ELSE version[y]
  BY <1>1, RowsTyped DEF IInv, TablesOK
<1> QED
  BY <1>3, <1>4, <1>5

\* The other steps change no row, or a row that is new or goes.
LEMMA OthersFreeze ==
  ASSUME IInv, NEW t \in Http, Step(t), ~SaveDraft(t), ~PublishDefinition(t)
  PROVE  Frozen
<1>1. CASE CreateWorkflow(t)
  <2>1. PICK w \in Fresh(version), c \in Uses :
          version' = [version EXCEPT ![w] = <<Draft([by |-> spent + 1, uses |-> c])>>]
    BY <1>1 DEF CreateWorkflow
  <2>2. w \notin Rows(version)
    BY DEF Fresh, Rows
  <2>3. \A x \in Rows(version) : version'[x] = version[x]
    BY <2>1, <2>2
  <2> QED
    BY <2>3 DEF Frozen
<1>2. CASE DeleteWorkflow(t)
  <2>1. PICK w \in Rows(version) : version' = [version EXCEPT ![w] = Deleted]
    BY <1>2 DEF DeleteWorkflow
  <2>2. \A x \in Rows(version) : version'[x] = version[x] \/ version'[x] = Deleted
    BY <2>1, RowsTyped DEF IInv, TablesOK
  <2> QED
    BY <2>2 DEF Frozen
<1>3. CASE ~CreateWorkflow(t) /\ ~DeleteWorkflow(t)
  <2>1. \/ SaveDefinition(t) \/ PickDraft(t) \/ BeginPublish(t) \/ ReadDraft(t)
        \/ PublishDraft(t) \/ AbortVictim(t) \/ UNCHANGED workflows
    BY <1>3, ElsewhereUnchanged DEF Step
  <2>2. version' = version
    BY <2>1 DEF SaveDefinition, PickDraft, BeginPublish, ReadDraft, PublishDraft,
         AbortVictim, workflows
  <2> QED
    BY <2>2 DEF Frozen
<1> QED
  BY <1>1, <1>2, <1>3

\* No step changes a version that has been published: a save writes the draft it
\* picked, which its lock keeps from being published.
THEOREM PublishedStays == Spec => PublishedFrozen
<1>1. ASSUME IInv, [Next]_vars
      PROVE  [Frozen]_vars
  <2>1. CASE UNCHANGED vars
    BY <2>1
  <2>2. ASSUME NEW t \in Http, Step(t)
        PROVE  Frozen
    BY <1>1, <2>2, SaveDraftFreezes, PublishFreezes, OthersFreeze
  <2> QED
    BY <1>1, <2>1, <2>2 DEF Next
<1>2. [Frozen]_vars => [\A w \in Rows(version) : \A i \in DOMAIN version[w] :
        version[w][i].status = "PUBLISHED" /\ version'[w] # Deleted
          => version'[w][i] = version[w][i]]_vars
  BY DEF Frozen
<1> QED
  BY <1>1, <1>2, Invariant, PTL DEF Spec, PublishedFrozen

-----------------------------------------------------------------------------
(* Scenes, maps, robots and stations *)

\* Each table holds rows of its columns, and only robots that exist have an open
\* row of scene_robots.
RecordsOK ==
  /\ scene \in [Scene -> Number \cup {None, Unused, Deleted}]
  /\ map \in [Number -> MapRecord \cup {Unused, Deleted}]
  /\ robot \in [Robot -> PlaceRecord \cup {Unused, Deleted}]
  /\ station \in [Station -> StationRecord \cup {Unused, Deleted}]
  /\ \A x \in member : x.robot \in Rows(robot)

\* The parts of PlacesAgree.
ScenesShowTheirs == \A s \in Rows(scene) : scene[s] # None => scene[s] \in MapsOf(s)
MapsHaveScene == \A m \in Rows(map) : map[m].scene \in Rows(scene)
InScene(r, s) == \E x \in member : x.robot = r /\ x.scene = s
RobotsPlaced ==
  \A r \in Rows(robot) :
    /\ \A s \in Scene : robot[r].scene = s <=> InScene(r, s)
    /\ robot[r].map # None => robot[r].map \in MapsOf(robot[r].scene)
StationsHang ==
  \A p \in Rows(station) :
    /\ station[p].map \in Rows(map)
    /\ station[p].target # None => /\ station[p].target \in Rows(station)
                                   /\ SceneOf(station[p].target) = SceneOf(p)

TablesAgree ==
  RecordsOK /\ ScenesShowTheirs /\ MapsHaveScene /\ RobotsPlaced /\ StationsHang

\* A map keeps its scene and a station its map until the row is gone, and no row
\* comes back.
MapStays(m) ==
  /\ map'[m] # Unused
  /\ map'[m] # Deleted => map[m] # Deleted /\ map'[m].scene = map[m].scene
StationStays(p) ==
  /\ station'[p] # Unused
  /\ station'[p] # Deleted => station[p] # Deleted /\ station'[p].map = station[p].map
Grows ==
  /\ \A m \in Number : map[m] # Unused => MapStays(m)
  /\ \A p \in Station : station[p] # Unused => StationStays(p)

LEMMA RowFacts ==
  ASSUME RecordsOK
  PROVE  /\ \A s : s \in Rows(scene) <=> s \in Scene /\ scene[s] \in Number \cup {None}
         /\ \A m : m \in Rows(map) <=> m \in Number /\ map[m] \in MapRecord
         /\ \A r : r \in Rows(robot) <=> r \in Robot /\ robot[r] \in PlaceRecord
         /\ \A p : p \in Rows(station) <=> p \in Station /\ station[p] \in StationRecord
<1>1. /\ DOMAIN scene = Scene /\ DOMAIN map = Number
      /\ DOMAIN robot = Robot /\ DOMAIN station = Station
  BY DEF RecordsOK
<1>2. \A s : s \in Rows(scene) <=> s \in Scene /\ scene[s] \in Number \cup {None}
  BY <1>1, SceneAssumption DEF RecordsOK, Rows
<1>3. \A m : m \in Rows(map) <=> m \in Number /\ map[m] \in MapRecord
  BY <1>1, SceneAssumption DEF RecordsOK, Rows
<1>4. \A r : r \in Rows(robot) <=> r \in Robot /\ robot[r] \in PlaceRecord
  BY <1>1, SceneAssumption DEF RecordsOK, Rows
<1>5. \A p : p \in Rows(station) <=> p \in Station /\ station[p] \in StationRecord
  BY <1>1, CatalogAssumption DEF RecordsOK, Rows
<1> QED
  BY <1>2, <1>3, <1>4, <1>5

LEMMA RowFactsPrime ==
  ASSUME RecordsOK'
  PROVE  /\ \A s : s \in Rows(scene)' <=> s \in Scene /\ scene'[s] \in Number \cup {None}
         /\ \A m : m \in Rows(map)' <=> m \in Number /\ map'[m] \in MapRecord
         /\ \A r : r \in Rows(robot)' <=> r \in Robot /\ robot'[r] \in PlaceRecord
         /\ \A p : p \in Rows(station)' <=> p \in Station /\ station'[p] \in StationRecord
<1>1. /\ DOMAIN scene' = Scene /\ DOMAIN map' = Number
      /\ DOMAIN robot' = Robot /\ DOMAIN station' = Station
  BY DEF RecordsOK
<1>2. \A s : s \in Rows(scene)' <=> s \in Scene /\ scene'[s] \in Number \cup {None}
  BY <1>1, SceneAssumption DEF RecordsOK, Rows
<1>3. \A m : m \in Rows(map)' <=> m \in Number /\ map'[m] \in MapRecord
  BY <1>1, SceneAssumption DEF RecordsOK, Rows
<1>4. \A r : r \in Rows(robot)' <=> r \in Robot /\ robot'[r] \in PlaceRecord
  BY <1>1, SceneAssumption DEF RecordsOK, Rows
<1>5. \A p : p \in Rows(station)' <=> p \in Station /\ station'[p] \in StationRecord
  BY <1>1, CatalogAssumption DEF RecordsOK, Rows
<1> QED
  BY <1>2, <1>3, <1>4, <1>5

LEMMA AgreeParts ==
  ASSUME ScenesShowTheirs, MapsHaveScene, RobotsPlaced, StationsHang
  PROVE  PlacesAgree
BY DEF PlacesAgree, ScenesShowTheirs, MapsHaveScene, RobotsPlaced, StationsHang, InScene

\* Steps that leave a table and what it refers to alone.
LEMMA MapsUnchanged ==
  ASSUME RecordsOK, UNCHANGED map
  PROVE  \A m \in Number : map[m] # Unused => MapStays(m)
BY DEF MapStays

LEMMA StationsUnchanged ==
  ASSUME RecordsOK, UNCHANGED station
  PROVE  \A p \in Station : station[p] # Unused => StationStays(p)
BY DEF StationStays

LEMMA RobotsUnchanged ==
  ASSUME TablesAgree, RecordsOK', UNCHANGED <<robot, member>>,
         \A m \in Rows(map) : m \in Rows(map)' /\ map'[m].scene = map[m].scene
  PROVE  RobotsPlaced'
<1>1. Rows(robot)' = Rows(robot)
  BY DEF Rows
<1>2. \A s, m : m \in MapsOf(s) => m \in MapsOf(s)'
  BY DEF MapsOf
<1> QED
  BY <1>1, <1>2 DEF TablesAgree, RobotsPlaced, InScene

LEMMA HangUnchanged ==
  ASSUME TablesAgree, RecordsOK', UNCHANGED station,
         \A m \in Rows(map) : m \in Rows(map)' /\ map'[m].scene = map[m].scene
  PROVE  StationsHang'
<1>1. Rows(station)' = Rows(station)
  BY DEF Rows
<1>2. \A p \in Rows(station) : SceneOf(p)' = SceneOf(p)
  BY DEF TablesAgree, StationsHang, SceneOf
<1> QED
  BY <1>1, <1>2 DEF TablesAgree, StationsHang

LEMMA NothingChanges ==
  ASSUME TablesAgree, UNCHANGED <<scene, map, robot, member, station>>
  PROVE  TablesAgree' /\ Grows
<1>1. RecordsOK'
  BY DEF TablesAgree, RecordsOK, Rows
<1>2. /\ Rows(map)' = Rows(map) /\ Rows(scene)' = Rows(scene)
      /\ \A x : MapsOf(x)' = MapsOf(x)
  BY DEF Rows, MapsOf
<1>3. ScenesShowTheirs' /\ MapsHaveScene'
  BY <1>2 DEF TablesAgree, ScenesShowTheirs, MapsHaveScene
<1>4. RobotsPlaced' /\ StationsHang'
  BY <1>1, <1>2, RobotsUnchanged, HangUnchanged
<1> QED
  BY <1>1, <1>3, <1>4, MapsUnchanged, StationsUnchanged DEF TablesAgree, Grows

-----------------------------------------------------------------------------
(* Scenes *)

LEMMA CreateSceneAgrees ==
  ASSUME TablesAgree, NEW t \in Http, CreateScene(t)
  PROVE  TablesAgree' /\ Grows
<1>1. PICK s \in Fresh(scene) : scene' = [scene EXCEPT ![s] = None]
  BY DEF CreateScene
<1>2. UNCHANGED <<map, robot, member, station>>
  BY DEF CreateScene
<1>3. s \in Scene /\ s \notin Rows(scene) /\ \A x \in Scene :
        scene'[x] = IF x = s THEN None ELSE scene[x]
  BY <1>1 DEF Fresh, Rows, TablesAgree, RecordsOK
<1>4. RecordsOK'
  BY <1>1, <1>2 DEF TablesAgree, RecordsOK, Rows
<1>5. /\ \A x \in Rows(scene) : x \in Rows(scene)' /\ x # s
      /\ \A x \in Rows(scene)' : x = s \/ x \in Rows(scene)
  BY <1>3, <1>4, RowFacts, RowFactsPrime DEF TablesAgree
<1>6. ScenesShowTheirs' /\ MapsHaveScene'
  <2>1. Rows(map)' = Rows(map) /\ \A x : MapsOf(x)' = MapsOf(x)
    BY <1>2 DEF Rows, MapsOf
  <2> QED
    BY <1>2, <1>3, <1>5, <2>1, RowFacts DEF TablesAgree, ScenesShowTheirs, MapsHaveScene
<1>7. RobotsPlaced' /\ StationsHang'
  <2>1. \A m \in Rows(map) : m \in Rows(map)' /\ map'[m].scene = map[m].scene
    BY <1>2 DEF Rows
  <2> QED
    BY <1>2, <1>4, <2>1, RobotsUnchanged, HangUnchanged
<1> QED
  BY <1>2, <1>4, <1>6, <1>7, MapsUnchanged, StationsUnchanged DEF TablesAgree, Grows

\* What the foreign keys do to stations: those that go, go; the others keep
\* their map, and a target that stays.
LEMMA DropFacts ==
  ASSUME TablesAgree, NEW gone \in SUBSET Rows(station),
         station' = DropStations(gone)
  PROVE  /\ station' \in [Station -> StationRecord \cup {Unused, Deleted}]
         /\ \A p \in Rows(station) \ gone :
              /\ station'[p] \in StationRecord /\ station'[p].map = station[p].map
              /\ station'[p].target =
                   IF station[p].target \in gone THEN None ELSE station[p].target
         /\ \A p \in Station : p \notin Rows(station) => station'[p] = station[p]
         /\ \A p \in gone : station'[p] = Deleted
<1>1. \A p \in Station :
        station'[p] = IF p \in gone THEN Deleted
                      ELSE IF p \in Rows(station) /\ station[p].target \in gone
                        THEN [station[p] EXCEPT !.target = None]
                      ELSE station[p]
  BY DEF DropStations
<1>2. \A p \in Rows(station) : p \in Station /\ station[p] \in StationRecord
  BY RowFacts DEF TablesAgree
<1>3. \A p \in Station : station[p] \in StationRecord \cup {Unused, Deleted}
  BY DEF TablesAgree, RecordsOK
<1>4. ASSUME NEW p \in Rows(station) \ gone
      PROVE  /\ station'[p] \in StationRecord /\ station'[p].map = station[p].map
             /\ station'[p].target =
                  IF station[p].target \in gone THEN None ELSE station[p].target
  <2>1. CASE station[p].target \in gone
    <3>1. station'[p] = [station[p] EXCEPT !.target = None]
      BY <1>1, <1>2, <2>1
    <3> QED
      BY <1>2, <2>1, <3>1 DEF StationRecord
  <2>2. CASE station[p].target \notin gone
    BY <1>1, <1>2, <2>2
  <2> QED
    BY <2>1, <2>2
<1>5. station' \in [Station -> StationRecord \cup {Unused, Deleted}]
  <2>1. ASSUME NEW p \in Station
        PROVE  station'[p] \in StationRecord \cup {Unused, Deleted}
    BY <1>1, <1>3, <1>4
  <2>2. station' = [p \in Station |-> station'[p]]
    BY DEF DropStations
  <2> QED
    BY <2>1, <2>2
<1>6. /\ \A p \in Station : p \notin Rows(station) => station'[p] = station[p]
      /\ \A p \in gone : station'[p] = Deleted
  BY <1>1, <1>2
<1> QED
  BY <1>4, <1>5, <1>6

\* Stations that hang on maps that stay, hang there still.
LEMMA DropHangs ==
  ASSUME TablesAgree, NEW gone \in SUBSET Rows(station),
         station' = DropStations(gone), RecordsOK',
         \A p \in Rows(station) \ gone :
           /\ station[p].map \in Rows(map)'
           /\ map'[station[p].map].scene = map[station[p].map].scene
  PROVE  /\ StationsHang'
         /\ \A p \in Station : station[p] # Unused => StationStays(p)
<1>1. Rows(station)' = Rows(station) \ gone
  <2>1. Deleted \notin StationRecord
    BY CatalogAssumption
  <2> QED
    BY <2>1, DropFacts, RowFacts, RowFactsPrime DEF TablesAgree
<1>2. \A p \in Rows(station)' :
        /\ station'[p].map = station[p].map
        /\ station'[p].target =
             IF station[p].target \in gone THEN None ELSE station[p].target
        /\ SceneOf(p)' = SceneOf(p)
  BY <1>1, DropFacts DEF SceneOf
<1>3. StationsHang'
  BY <1>1, <1>2 DEF TablesAgree, StationsHang
<1>4. ASSUME NEW p \in Station, station[p] # Unused
      PROVE  StationStays(p)
  <2>1. Unused \notin StationRecord /\ Unused # Deleted
    BY SceneAssumption, CatalogAssumption
  <2>2. CASE p \in gone
    BY <2>1, <2>2, DropFacts DEF StationStays
  <2>3. CASE p \in Rows(station) \ gone
    BY <2>1, <2>3, DropFacts DEF StationStays, Rows
  <2>4. CASE p \notin Rows(station)
    BY <1>4, <2>4, DropFacts DEF StationStays
  <2> QED
    BY <2>2, <2>3, <2>4
<1> QED
  BY <1>3, <1>4

\* The thread's locals that lead to rows: what they say of a map stays true.
Tells(m, s) ==
  /\ m \in Number /\ map[m] # Unused
  /\ map[m] # Deleted => map[m].scene = s

LEMMA DeleteSceneAgrees ==
  ASSUME TablesAgree, NEW t \in Http, DeleteScene(t)
  PROVE  TablesAgree' /\ Grows
<1>1. PICK s \in Rows(scene) :
        /\ scene' = [scene EXCEPT ![s] = Deleted]
        /\ map' = [m \in Number |-> IF m \in MapsOf(s) THEN Deleted ELSE map[m]]
        /\ robot' = [r \in Robot |->
                       IF r \in Rows(robot)
                            /\ (robot[r].scene = s \/ robot[r].map \in MapsOf(s))
                         THEN NoPlace ELSE robot[r]]
        /\ member' = {x \in member : x.scene # s}
        /\ station' = DropStations(StationsOn(MapsOf(s)))
  BY DEF DeleteScene
<1> DEFINE gone == StationsOn(MapsOf(s))
<1>2. gone \subseteq Rows(station)
  BY DEF StationsOn
<1>3. NoPlace \in PlaceRecord /\ NoPlace.scene = None /\ NoPlace.map = None
  BY DEF NoPlace, PlaceRecord
<1>4. s \in Scene
  BY RowFacts DEF TablesAgree
<1>5. \A x \in member' : x.robot \in Rows(robot)'
  <2>1. Rows(robot)' = Rows(robot)
    BY <1>1, <1>3, RowFacts, SceneAssumption DEF TablesAgree, RecordsOK, Rows
  <2> QED
    BY <1>1, <2>1 DEF TablesAgree, RecordsOK
<1>6. RecordsOK'
  <2>1. scene' \in [Scene -> Number \cup {None, Unused, Deleted}]
    BY <1>1 DEF TablesAgree, RecordsOK
  <2>2. map' \in [Number -> MapRecord \cup {Unused, Deleted}]
    BY <1>1 DEF TablesAgree, RecordsOK
  <2>3. robot' \in [Robot -> PlaceRecord \cup {Unused, Deleted}]
    BY <1>1, <1>3 DEF TablesAgree, RecordsOK
  <2>4. station' \in [Station -> StationRecord \cup {Unused, Deleted}]
    BY <1>1, <1>2, DropFacts
  <2> QED
    BY <1>5, <2>1, <2>2, <2>3, <2>4 DEF RecordsOK
<1>7. /\ \A m \in Number : map'[m] = IF m \in MapsOf(s) THEN Deleted ELSE map[m]
      /\ \A x \in Scene : scene'[x] = IF x = s THEN Deleted ELSE scene[x]
  BY <1>1 DEF TablesAgree, RecordsOK
<1>8. /\ Rows(map)' = Rows(map) \ MapsOf(s)
      /\ Rows(scene)' = Rows(scene) \ {s}
  BY <1>6, <1>7, RowFacts, RowFactsPrime, SceneAssumption DEF TablesAgree
<1>9. \A m \in Rows(map)' : map'[m] = map[m] /\ map[m].scene # s
  BY <1>7, <1>8, RowFacts DEF TablesAgree, MapsOf
<1>10. \A x \in Scene : x # s => MapsOf(x)' = MapsOf(x)
  BY <1>7, <1>8, <1>9 DEF MapsOf
<1>11. ScenesShowTheirs' /\ MapsHaveScene'
  BY <1>7, <1>8, <1>9, <1>10, RowFacts DEF TablesAgree, ScenesShowTheirs, MapsHaveScene
<1>12. RobotsPlaced'
  <2> SUFFICES ASSUME NEW r \in Rows(robot)'
               PROVE  (/\ \A x \in Scene : robot[r].scene = x <=> InScene(r, x)
                       /\ robot[r].map # None => robot[r].map \in MapsOf(robot[r].scene))'
    BY DEF RobotsPlaced
  <2>1. r \in Rows(robot) /\ r \in Robot
    BY <1>1, <1>3, <1>6, RowFacts, RowFactsPrime, SceneAssumption DEF TablesAgree
  <2>2. /\ robot[r].scene \in Scene \cup {None} /\ robot[r].map \in Number \cup {None}
        /\ \A x \in Scene : robot[r].scene = x <=> InScene(r, x)
        /\ robot[r].map # None => robot[r].map \in MapsOf(robot[r].scene)
    BY <2>1, RowFacts DEF TablesAgree, RobotsPlaced, PlaceRecord
  <2>3. \A x \in Scene : InScene(r, x)' <=> InScene(r, x) /\ x # s
    BY <1>1 DEF InScene
  <2>4. None \notin MapsOf(s)
    BY SceneAssumption, RowFacts DEF TablesAgree, MapsOf
  <2>5. CASE robot[r].scene = s
    <3>1. robot'[r] = NoPlace
      BY <1>1, <2>1, <2>5
    <3> QED
      BY <1>3, <1>4, <2>2, <2>3, <2>5, <3>1, SceneAssumption
  <2>6. CASE robot[r].scene # s
    <3>1. robot[r].map \notin MapsOf(s)
      BY <2>2, <2>4, <2>6 DEF MapsOf
    <3>2. robot'[r] = robot[r]
      BY <1>1, <2>1, <2>6, <3>1
    <3>3. robot[r].map # None => robot[r].scene \in Scene
      BY <2>2, RowFacts DEF TablesAgree, MapsOf, MapRecord
    <3>4. PICK z : z = robot[r].scene
      OBVIOUS
    <3>5. robot[r].map # None => MapsOf(z)' = MapsOf(robot[r].scene)
      BY <1>10, <2>6, <3>3, <3>4
    <3>6. z = robot'[r].scene
      BY <3>2, <3>4
    <3>7. (robot[r].map # None => robot[r].map \in MapsOf(robot[r].scene))'
      BY <2>2, <3>2, <3>5, <3>6
    <3> QED
      BY <2>2, <2>3, <2>6, <3>2, <3>7
  <2> QED
    BY <2>5, <2>6
<1>13. StationsHang' /\ \A p \in Station : station[p] # Unused => StationStays(p)
  <2>1. \A p \in Rows(station) \ gone :
           /\ station[p].map \in Rows(map)'
           /\ map'[station[p].map].scene = map[station[p].map].scene
    BY <1>8, <1>9 DEF TablesAgree, StationsHang, StationsOn
  <2> QED
    BY <1>1, <1>2, <1>6, <2>1, DropHangs
<1>14. \A m \in Number : map[m] # Unused => MapStays(m)
  BY <1>7, SceneAssumption DEF MapStays
<1> QED
  BY <1>6, <1>11, <1>12, <1>13, <1>14 DEF TablesAgree, Grows

-----------------------------------------------------------------------------
(* Map versions *)

\* The largest number of a set that has an upper bound.
LEMMA LargestExists ==
  ASSUME NEW n \in Nat, NEW S, S \subseteq 0 .. n, S # {}
  PROVE  \E v \in S : \A w \in S : w <= v
<1> DEFINE T == {n - v : v \in S}
<1>1. T \subseteq Nat /\ T # {}
  <2>1. \A v \in S : n - v \in Nat
    OBVIOUS
  <2> QED
    BY <2>1
<1>2. \E x \in T : \A y \in T : ~ (<<y, x>> \in OpToRel(<, Nat))
  <2> HIDE DEF T
  <2> QED
    BY <1>1, WFMin, NatLessThanWellFounded, Zenon
<1>3. PICK x \in T : \A y \in T : ~ (<<y, x>> \in OpToRel(<, Nat))
  BY <1>2
<1>4. \A y \in T : ~ (y < x)
  BY <1>1, <1>3 DEF OpToRel
<1>5. PICK v \in S : x = n - v
  OBVIOUS
<1>6. \A w \in S : n - w \in T
  OBVIOUS
<1> HIDE DEF T
<1>7. \A w \in S : w <= v
  <2> SUFFICES ASSUME NEW w \in S PROVE w <= v
    OBVIOUS
  <2>1. ~ (n - w < n - v) /\ w \in Nat /\ v \in Nat
    BY <1>4, <1>5, <1>6
  <2> QED
    BY <2>1
<1> QED
  BY <1>7

\* The version of an import is one that the scene has not, and one request more
\* makes it at most one larger.
LEMMA NextVersionFacts ==
  ASSUME RecordsOK, NEW n \in Nat, NEW s,
         \A m \in Rows(map) : map[m].version <= n
  PROVE  NextMapVersion(s) \in 1 .. n + 1
<1> DEFINE taken == {map[m].version : m \in MapsOf(s)}
<1>1. taken \subseteq 0 .. n /\ \A v \in taken : v \in Nat
  BY RowFacts DEF MapsOf, MapRecord
<1>2. NextMapVersion(s) = 1 + (IF taken = {} THEN 0
                               ELSE CHOOSE v \in taken : \A w \in taken : w <= v)
  BY DEF NextMapVersion
<1> HIDE DEF taken
<1>3. taken # {} => \E v \in taken : \A w \in taken : w <= v
  BY <1>1, LargestExists
<1>4. taken # {} => (CHOOSE v \in taken : \A w \in taken : w <= v) \in taken
  BY <1>3
<1>5. CASE taken = {}
  BY <1>2, <1>5
<1>6. CASE taken # {}
  <2> DEFINE top == CHOOSE v \in taken : \A w \in taken : w <= v
  <2>1. top \in 0 .. n /\ NextMapVersion(s) = 1 + top
    BY <1>1, <1>2, <1>4, <1>6
  <2> HIDE DEF top
  <2> QED
    BY <2>1
<1> QED
  BY <1>5, <1>6

Importing == {"materialize", "insertMap"}
ImportRecord ==
  [pc : Importing, scene : Scene, version : 1 .. Requests + 1, import : Number]

LEMMA InsertMapAgrees ==
  ASSUME TablesAgree, NEW t \in Http, InsertMapVersion(t),
         thread[t] \in ImportRecord, map[thread[t].import] = Unused
  PROVE  TablesAgree' /\ Grows
<1>0. PICK s, v, m :
        s = thread[t].scene /\ v = thread[t].version /\ m = thread[t].import
  OBVIOUS
<1> DEFINE row == [scene |-> s, version |-> v, status |-> "READY"]
<1>1. /\ \/ /\ s \in Rows(scene)
            /\ map' = [map EXCEPT ![m] = row] /\ scene' = [scene EXCEPT ![s] = m]
         \/ UNCHANGED <<map, scene>>
      /\ UNCHANGED <<robot, member, station>>
  BY <1>0 DEF InsertMapVersion
<1>2. row \in MapRecord /\ row.scene = s /\ m \in Number /\ s \in Scene
  BY <1>0 DEF ImportRecord, MapRecord
<1>3. map[m] = Unused /\ m \notin Rows(map)
  BY <1>0 DEF Rows
<1>4. CASE UNCHANGED <<map, scene>>
  BY <1>1, <1>4, NothingChanges
<1>5. CASE /\ s \in Rows(scene)
           /\ map' = [map EXCEPT ![m] = row] /\ scene' = [scene EXCEPT ![s] = m]
  <2> HIDE DEF row
  <2>1. /\ \A x \in Number : map'[x] = IF x = m THEN row ELSE map[x]
        /\ \A x \in Scene : scene'[x] = IF x = s THEN m ELSE scene[x]
    BY <1>5 DEF TablesAgree, RecordsOK
  <2>2. RecordsOK'
    BY <1>1, <1>2, <1>5 DEF TablesAgree, RecordsOK, Rows
  <2>3. Rows(map)' = Rows(map) \cup {m} /\ Rows(scene)' = Rows(scene)
    <3>1. Rows(map)' = Rows(map) \cup {m}
      BY <1>2, <2>1, <2>2, RowFacts, RowFactsPrime DEF TablesAgree
    <3>2. \A x \in Scene : x \in Rows(scene)' <=> x \in Rows(scene)
      <4>1. m \in Number \cup {None} /\ scene[s] \in Number \cup {None}
        BY <1>2, <1>5, RowFacts DEF TablesAgree
      <4> QED
        BY <2>1, <2>2, <4>1, RowFacts, RowFactsPrime DEF TablesAgree
    <3>3. Rows(scene)' \subseteq Scene /\ Rows(scene) \subseteq Scene
      BY <2>2, RowFacts, RowFactsPrime DEF TablesAgree
    <3> QED
      BY <3>1, <3>2, <3>3
  <2>4. \A x \in Rows(map) : map'[x] = map[x]
    BY <1>3, <2>1, RowFacts DEF TablesAgree
  <2>5. /\ m \in MapsOf(s)'
        /\ \A x \in Scene : MapsOf(x) \subseteq MapsOf(x)'
    BY <1>2, <2>1, <2>3, <2>4 DEF MapsOf
  <2>6. ScenesShowTheirs'
    BY <2>1, <2>3, <2>5, RowFacts DEF TablesAgree, ScenesShowTheirs
  <2>7. MapsHaveScene'
    BY <1>2, <1>5, <2>1, <2>3, <2>4 DEF TablesAgree, MapsHaveScene
  <2>8. RobotsPlaced' /\ StationsHang'
    BY <1>1, <2>2, <2>3, <2>4, RobotsUnchanged, HangUnchanged
  <2>9. \A x \in Number : map[x] # Unused => MapStays(x)
    BY <1>3, <2>1 DEF MapStays
  <2> QED
    BY <1>1, <2>2, <2>6, <2>7, <2>8, <2>9, StationsUnchanged DEF TablesAgree, Grows
<1> QED
  BY <1>1, <1>4, <1>5

LEMMA SetActiveAgrees ==
  ASSUME TablesAgree, NEW t \in Http, SetActiveMap(t), Tells(thread[t].map, thread[t].scene)
  PROVE  TablesAgree' /\ Grows
<1>0. PICK s, m : s = thread[t].scene /\ m = thread[t].map
  OBVIOUS
<1>1. /\ UNCHANGED <<map, robot, member, station>>
      /\ scene' = IF s \in Rows(scene) /\ m \in Rows(map)
                    THEN [scene EXCEPT ![s] = m] ELSE scene
  BY <1>0 DEF SetActiveMap
<1>2. m \in Rows(map) => m \in MapsOf(s)
  BY <1>0 DEF Tells, MapsOf, Rows
<1>3. m \in Number
  BY <1>0 DEF Tells
<1>4. RecordsOK'
  BY <1>1, <1>3 DEF TablesAgree, RecordsOK, Rows
<1>5. \A x \in Scene : scene'[x] = scene[x] \/ (x = s /\ scene'[x] = m /\ m \in Rows(map)
                                                /\ s \in Rows(scene))
  BY <1>1 DEF TablesAgree, RecordsOK
<1>6. Rows(scene)' = Rows(scene)
  BY <1>3, <1>4, <1>5, RowFacts, RowFactsPrime DEF TablesAgree
<1>7. Rows(map)' = Rows(map) /\ \A x : MapsOf(x)' = MapsOf(x)
  BY <1>1 DEF Rows, MapsOf
<1>8. ScenesShowTheirs'
  BY <1>2, <1>5, <1>6, <1>7, RowFacts DEF TablesAgree, ScenesShowTheirs
<1>9. MapsHaveScene'
  BY <1>1, <1>6, <1>7 DEF TablesAgree, MapsHaveScene
<1>10. RobotsPlaced' /\ StationsHang'
  BY <1>1, <1>4, <1>7, RobotsUnchanged, HangUnchanged
<1> QED
  BY <1>1, <1>4, <1>8, <1>9, <1>10, MapsUnchanged, StationsUnchanged
     DEF TablesAgree, Grows

\* A removed map disappears from the scenes that show it.
LEMMA HideFacts ==
  ASSUME RecordsOK, NEW m \in Number, scene' = HideMap(m)
  PROVE  /\ scene' \in [Scene -> Number \cup {None, Unused, Deleted}]
         /\ \A s \in Scene : scene'[s] = IF scene[s] = m THEN None ELSE scene[s]
<1>1. \A s \in Scene : s \in ShownBy(m) <=> scene[s] = m
  BY SceneAssumption, RowFacts DEF ShownBy
<1>2. \A s \in Scene : scene'[s] = IF scene[s] = m THEN None ELSE scene[s]
  BY <1>1 DEF HideMap
<1>3. scene' = [s \in Scene |-> scene'[s]]
  BY DEF HideMap
<1> QED
  BY <1>2, <1>3 DEF RecordsOK

LEMMA ArchiveMapAgrees ==
  ASSUME TablesAgree, NEW t \in Http, ArchiveMap(t)
  PROVE  TablesAgree' /\ Grows
<1>0. PICK m : m = thread[t].map
  OBVIOUS
<1>1. UNCHANGED <<member, station>>
  BY DEF ArchiveMap
<1>2. \/ UNCHANGED <<map, scene, robot>>
      \/ /\ m \in Rows(map)
         /\ map' = [map EXCEPT ![m].status = "ARCHIVED"]
         /\ scene' = HideMap(m) \/ UNCHANGED scene
         /\ \/ robot' = [r \in Robot |-> IF r \in OnMap(m)
                                           THEN [robot[r] EXCEPT !.map = None] ELSE robot[r]]
            \/ UNCHANGED robot
  BY <1>0 DEF ArchiveMap
<1>3. CASE UNCHANGED <<map, scene, robot>>
  BY <1>1, <1>3, NothingChanges
<1>4. CASE /\ m \in Rows(map)
           /\ map' = [map EXCEPT ![m].status = "ARCHIVED"]
           /\ scene' = HideMap(m) \/ UNCHANGED scene
           /\ \/ robot' = [r \in Robot |-> IF r \in OnMap(m)
                                             THEN [robot[r] EXCEPT !.map = None]
                                             ELSE robot[r]]
              \/ UNCHANGED robot
  <2>1. m \in Number /\ map[m] \in MapRecord
    BY <1>4, RowFacts DEF TablesAgree
  <2>2. PICK row : row = [map[m] EXCEPT !.status = "ARCHIVED"]
    OBVIOUS
  <2>3. row \in MapRecord /\ row.scene = map[m].scene
    BY <2>1, <2>2 DEF MapRecord
  <2>4. map' = [map EXCEPT ![m] = row]
    BY <1>4, <2>2
  <2>5. /\ map' \in [Number -> MapRecord \cup {Unused, Deleted}]
        /\ \A x \in Number : map'[x] = IF x = m THEN row ELSE map[x]
    BY <2>3, <2>4 DEF TablesAgree, RecordsOK
  <2>6. /\ scene' \in [Scene -> Number \cup {None, Unused, Deleted}]
        /\ \A s \in Scene : \/ scene'[s] = scene[s]
                            \/ scene'[s] = None /\ scene[s] \in Number
    <3>1. CASE scene' = HideMap(m)
      BY <2>1, <3>1, HideFacts DEF TablesAgree
    <3>2. CASE UNCHANGED scene
      BY <3>2 DEF TablesAgree, RecordsOK
    <3> QED
      BY <1>4, <3>1, <3>2
  <2>7. /\ robot' \in [Robot -> PlaceRecord \cup {Unused, Deleted}]
        /\ \A r \in Robot : r \in Rows(robot) =>
             /\ robot'[r] \in PlaceRecord /\ robot'[r].scene = robot[r].scene
             /\ robot'[r].map \in {None, robot[r].map}
        /\ \A r \in Robot : r \notin Rows(robot) => robot'[r] = robot[r]
    <3>1. \A r \in Rows(robot) :
            LET lost == [robot[r] EXCEPT !.map = None]
            IN lost \in PlaceRecord /\ lost.scene = robot[r].scene /\ lost.map = None
      BY RowFacts DEF TablesAgree, PlaceRecord
    <3>2. OnMap(m) \subseteq Rows(robot)
      BY DEF OnMap
    <3>3. CASE robot' = [r \in Robot |-> IF r \in OnMap(m)
                                           THEN [robot[r] EXCEPT !.map = None]
                                           ELSE robot[r]]
      <4>1. ASSUME NEW r \in Rows(robot)
            PROVE  /\ r \in Robot
                   /\ robot'[r] \in PlaceRecord /\ robot'[r].scene = robot[r].scene
                   /\ robot'[r].map \in {None, robot[r].map}
        <5>1. r \in Robot /\ robot[r] \in PlaceRecord
          BY RowFacts DEF TablesAgree
        <5>2. CASE r \in OnMap(m)
          <6>1. robot'[r] = [robot[r] EXCEPT !.map = None]
            BY <3>3, <5>1, <5>2
          <6> QED
            BY <3>1, <5>1, <6>1
        <5>3. CASE r \notin OnMap(m)
          BY <3>3, <5>1, <5>3
        <5> QED
          BY <5>2, <5>3
      <4>2. \A r \in Robot : r \notin Rows(robot) => robot'[r] = robot[r]
        BY <3>2, <3>3
      <4>3. \A r \in Robot : robot'[r] \in PlaceRecord \cup {Unused, Deleted}
        BY <4>1, <4>2 DEF TablesAgree, RecordsOK
      <4>4. robot' = [r \in Robot |-> robot'[r]]
        BY <3>3
      <4> QED
        BY <4>1, <4>2, <4>3, <4>4
    <3>4. CASE UNCHANGED robot
      BY <3>4, RowFacts DEF TablesAgree, RecordsOK
    <3> QED
      BY <1>4, <3>3, <3>4
  <2>8. Rows(robot)' = Rows(robot)
    <3>1. \A r : r \in Rows(robot)' <=> r \in Robot /\ robot'[r] \notin {Unused, Deleted}
      BY <2>7 DEF Rows
    <3>2. \A r : r \in Rows(robot) <=> r \in Robot /\ robot[r] \notin {Unused, Deleted}
      BY DEF Rows, TablesAgree, RecordsOK
    <3> QED
      BY <2>7, <3>1, <3>2, SceneAssumption
  <2>9. RecordsOK'
    <3>1. \A x \in member' : x.robot \in Rows(robot)'
      BY <1>1, <2>8 DEF TablesAgree, RecordsOK
    <3>2. station' \in [Station -> StationRecord \cup {Unused, Deleted}]
      BY <1>1 DEF TablesAgree, RecordsOK
    <3> QED
      BY <2>5, <2>6, <2>7, <3>1, <3>2 DEF RecordsOK
  <2>10. Rows(map)' = Rows(map) /\ \A x \in Rows(map) : map'[x].scene = map[x].scene
    BY <1>4, <2>3, <2>5, <2>9, RowFacts, RowFactsPrime DEF TablesAgree
  <2>11. \A s : MapsOf(s)' = MapsOf(s)
    BY <2>10 DEF MapsOf
  <2>12. Rows(scene)' = Rows(scene)
    <3>1. \A s \in Scene : s \in Rows(scene)' <=> s \in Rows(scene)
      BY <2>6, <2>9, RowFacts, RowFactsPrime DEF TablesAgree
    <3>2. Rows(scene)' \subseteq Scene /\ Rows(scene) \subseteq Scene
      BY <2>9, RowFacts, RowFactsPrime DEF TablesAgree
    <3> QED
      BY <3>1, <3>2
  <2>13. ScenesShowTheirs' /\ MapsHaveScene'
    BY <2>6, <2>10, <2>11, <2>12, RowFacts DEF TablesAgree, ScenesShowTheirs, MapsHaveScene
  <2>14. RobotsPlaced'
    <3>1. \A r, s : InScene(r, s)' <=> InScene(r, s)
      BY <1>1 DEF InScene
    <3>2. \A r \in Rows(robot) : /\ robot'[r].scene = robot[r].scene
                                 /\ robot'[r].map \in {None, robot[r].map}
      BY <2>7, RowFacts DEF TablesAgree
    <3> QED
      BY <2>8, <2>11, <3>1, <3>2 DEF TablesAgree, RobotsPlaced
  <2>15. StationsHang'
    BY <1>1, <2>9, <2>10, HangUnchanged
  <2>16. \A x \in Number : map[x] # Unused => MapStays(x)
    <3>1. map[m] # Deleted /\ row # Unused
      BY <2>1, <2>3, SceneAssumption
    <3> QED
      BY <2>3, <2>5, <3>1 DEF MapStays
  <2> QED
    BY <1>1, <2>9, <2>13, <2>14, <2>15, <2>16, StationsUnchanged DEF TablesAgree, Grows
<1> QED
  BY <1>2, <1>3, <1>4

LEMMA DeleteMapAgrees ==
  ASSUME TablesAgree, NEW t \in Http, DeleteMap(t)
  PROVE  TablesAgree' /\ Grows
<1>0. PICK m : m = thread[t].map
  OBVIOUS
<1>1. /\ UNCHANGED <<robot, member>>
      /\ \/ UNCHANGED <<map, scene, station>>
         \/ /\ m \in Rows(map) /\ OnMap(m) = {}
            /\ map' = [map EXCEPT ![m] = Deleted]
            /\ scene' = HideMap(m)
            /\ station' = DropStations(StationsOn({m}))
  BY <1>0 DEF DeleteMap
<1>2. CASE UNCHANGED <<map, scene, station>>
  BY <1>1, <1>2, NothingChanges
<1>3. CASE /\ m \in Rows(map) /\ OnMap(m) = {}
           /\ map' = [map EXCEPT ![m] = Deleted]
           /\ scene' = HideMap(m)
           /\ station' = DropStations(StationsOn({m}))
  <2>1. PICK gone : gone = StationsOn({m})
    OBVIOUS
  <2>2. gone \subseteq Rows(station) /\ m \in Number
    BY <1>3, <2>1, RowFacts DEF TablesAgree, StationsOn
  <2>3. /\ map' \in [Number -> MapRecord \cup {Unused, Deleted}]
        /\ \A x \in Number : map'[x] = IF x = m THEN Deleted ELSE map[x]
    BY <1>3 DEF TablesAgree, RecordsOK
  <2>4. /\ scene' \in [Scene -> Number \cup {None, Unused, Deleted}]
        /\ \A s \in Scene : scene'[s] = IF scene[s] = m THEN None ELSE scene[s]
    BY <1>3, <2>2, HideFacts DEF TablesAgree
  <2>5. RecordsOK'
    <3>1. station' \in [Station -> StationRecord \cup {Unused, Deleted}]
      BY <1>3, <2>1, <2>2, DropFacts
    <3>2. Rows(robot)' = Rows(robot)
      BY <1>1 DEF Rows
    <3> QED
      BY <1>1, <2>3, <2>4, <3>1, <3>2 DEF TablesAgree, RecordsOK
  <2>6. Rows(map)' = Rows(map) \ {m} /\ \A x \in Rows(map)' : map'[x] = map[x]
    BY <2>3, <2>5, RowFacts, RowFactsPrime, SceneAssumption DEF TablesAgree
  <2>7. \A s : MapsOf(s)' = MapsOf(s) \ {m}
    BY <2>6 DEF MapsOf
  <2>8. Rows(scene)' = Rows(scene)
    <3>1. \A s \in Scene : s \in Rows(scene)' <=> s \in Rows(scene)
      BY <2>2, <2>4, <2>5, RowFacts, RowFactsPrime DEF TablesAgree
    <3>2. Rows(scene)' \subseteq Scene /\ Rows(scene) \subseteq Scene
      BY <2>5, RowFacts, RowFactsPrime DEF TablesAgree
    <3> QED
      BY <3>1, <3>2
  <2>9. ScenesShowTheirs' /\ MapsHaveScene'
    BY <2>4, <2>6, <2>7, <2>8, RowFacts DEF TablesAgree, ScenesShowTheirs, MapsHaveScene
  <2>10. RobotsPlaced'
    <3>1. \A r, s : InScene(r, s)' <=> InScene(r, s)
      BY <1>1 DEF InScene
    <3>2. Rows(robot)' = Rows(robot)
      BY <1>1 DEF Rows
    <3>3. \A r \in Rows(robot) : robot[r].map # m
      BY <1>3 DEF OnMap
    <3> QED
      BY <1>1, <2>7, <3>1, <3>2, <3>3 DEF TablesAgree, RobotsPlaced
  <2>11. StationsHang' /\ \A p \in Station : station[p] # Unused => StationStays(p)
    <3>1. \A p \in Rows(station) \ gone :
            /\ station[p].map \in Rows(map)'
            /\ map'[station[p].map].scene = map[station[p].map].scene
      BY <2>1, <2>6 DEF TablesAgree, StationsHang, StationsOn
    <3> QED
      BY <1>3, <2>1, <2>2, <2>5, <3>1, DropHangs
  <2>12. \A x \in Number : map[x] # Unused => MapStays(x)
    BY <2>3, SceneAssumption DEF MapStays
  <2> QED
    BY <2>5, <2>9, <2>10, <2>11, <2>12 DEF TablesAgree, Grows
<1> QED
  BY <1>1, <1>2, <1>3

-----------------------------------------------------------------------------
(* Robots *)

\* Steps that only move robots leave scenes, maps and stations as they were.
LEMMA RobotsOnly ==
  ASSUME TablesAgree, RecordsOK', RobotsPlaced', UNCHANGED <<scene, map, station>>
  PROVE  TablesAgree' /\ Grows
<1>1. /\ Rows(map)' = Rows(map) /\ Rows(scene)' = Rows(scene)
      /\ \A x : MapsOf(x)' = MapsOf(x)
  BY DEF Rows, MapsOf
<1>2. ScenesShowTheirs' /\ MapsHaveScene'
  BY <1>1 DEF TablesAgree, ScenesShowTheirs, MapsHaveScene
<1>3. StationsHang'
  BY <1>1, HangUnchanged
<1> QED
  BY <1>2, <1>3, MapsUnchanged, StationsUnchanged DEF TablesAgree, Grows

LEMMA CreateRobotAgrees ==
  ASSUME TablesAgree, NEW t \in Http, CreateRobot(t)
  PROVE  TablesAgree' /\ Grows
<1>1. PICK new \in Fresh(robot) : robot' = [robot EXCEPT ![new] = NoPlace]
  BY DEF CreateRobot
<1>2. UNCHANGED <<scene, map, member, station>>
  BY DEF CreateRobot
<1>3. NoPlace \in PlaceRecord /\ NoPlace.scene = None /\ NoPlace.map = None
  BY DEF NoPlace, PlaceRecord
<1>4. new \in Robot /\ new \notin Rows(robot)
  BY <1>1 DEF Fresh, Rows, TablesAgree, RecordsOK
<1>5. /\ robot' \in [Robot -> PlaceRecord \cup {Unused, Deleted}]
      /\ \A r \in Robot : robot'[r] = IF r = new THEN NoPlace ELSE robot[r]
  BY <1>1, <1>3 DEF TablesAgree, RecordsOK
<1>6. Rows(robot)' = Rows(robot) \cup {new}
  <2>1. \A r : r \in Rows(robot)' <=> r \in Robot /\ robot'[r] \notin {Unused, Deleted}
    BY <1>5 DEF Rows
  <2>2. \A r : r \in Rows(robot) <=> r \in Robot /\ robot[r] \notin {Unused, Deleted}
    BY DEF Rows, TablesAgree, RecordsOK
  <2> QED
    BY <1>3, <1>4, <1>5, <2>1, <2>2, SceneAssumption
<1>7. RecordsOK'
  BY <1>2, <1>5, <1>6 DEF TablesAgree, RecordsOK
<1>8. RobotsPlaced'
  <2>1. \A r, s : InScene(r, s)' <=> InScene(r, s)
    BY <1>2 DEF InScene
  <2>2. \A s : MapsOf(s)' = MapsOf(s)
    BY <1>2 DEF MapsOf, Rows
  <2>3. \A s \in Scene : s # None /\ ~InScene(new, s)
    BY <1>4, SceneAssumption DEF InScene, TablesAgree, RecordsOK
  <2>4. \A r \in Rows(robot) : robot'[r] = robot[r]
    BY <1>4, <1>5, RowFacts DEF TablesAgree
  <2> QED
    BY <1>3, <1>4, <1>5, <1>6, <2>1, <2>2, <2>3, <2>4 DEF TablesAgree, RobotsPlaced
<1> QED
  BY <1>2, <1>7, <1>8, RobotsOnly

LEMMA DeleteRobotAgrees ==
  ASSUME TablesAgree, NEW t \in Http, DeleteRobot(t)
  PROVE  TablesAgree' /\ Grows
<1>0. PICK old : old = thread[t].robot
  OBVIOUS
<1>1. /\ robot' = [robot EXCEPT ![old] = Deleted]
      /\ member' = {x \in member : x.robot # old}
      /\ UNCHANGED <<scene, map, station>>
  BY <1>0 DEF DeleteRobot
<1>2. /\ robot' \in [Robot -> PlaceRecord \cup {Unused, Deleted}]
      /\ \A r \in Robot : robot'[r] = IF r = old THEN Deleted ELSE robot[r]
  BY <1>1 DEF TablesAgree, RecordsOK
<1>3. Rows(robot)' = Rows(robot) \ {old}
  <2>1. \A r : r \in Rows(robot)' <=> r \in Robot /\ robot'[r] \notin {Unused, Deleted}
    BY <1>2 DEF Rows
  <2>2. \A r : r \in Rows(robot) <=> r \in Robot /\ robot[r] \notin {Unused, Deleted}
    BY DEF Rows, TablesAgree, RecordsOK
  <2> QED
    BY <1>2, <2>1, <2>2
<1>4. RecordsOK'
  <2>1. \A x \in member' : x.robot \in Rows(robot)'
    BY <1>1, <1>3 DEF TablesAgree, RecordsOK
  <2> QED
    BY <1>1, <1>2, <2>1 DEF TablesAgree, RecordsOK
<1>5. RobotsPlaced'
  <2>1. \A r, s : r # old => (InScene(r, s)' <=> InScene(r, s))
    BY <1>1 DEF InScene
  <2>2. \A s : MapsOf(s)' = MapsOf(s)
    BY <1>1 DEF MapsOf, Rows
  <2>3. \A r \in Rows(robot)' : r \in Rows(robot) /\ r # old /\ robot'[r] = robot[r]
    BY <1>2, <1>3, RowFacts DEF TablesAgree
  <2> QED
    BY <2>1, <2>2, <2>3 DEF TablesAgree, RobotsPlaced
<1> QED
  BY <1>1, <1>4, <1>5, RobotsOnly

\* A replacement: the robots it names have its row and no other, those whose row
\* it closed have none, and the rest keep theirs.
LEMMA ReplaceRobotsAgrees ==
  ASSUME TablesAgree, NEW t \in Http, ReplaceSceneRobots(t),
         thread[t].map # None => Tells(thread[t].map, thread[t].scene),
         \A x \in thread[t].old : x.scene = thread[t].scene
  PROVE  TablesAgree' /\ Grows
<1>0. PICK s, new, m, old, by :
        /\ s = thread[t].scene /\ new = thread[t].robots /\ m = thread[t].map
        /\ old = thread[t].old /\ by = thread[t].by
  OBVIOUS
<1>1. PICK open : open = member \ old
  OBVIOUS
<1>2. /\ UNCHANGED <<scene, map, station>>
      /\ \/ UNCHANGED <<member, robot>>
         \/ /\ s \in Rows(scene) /\ new \subseteq Rows(robot)
            /\ new # {} /\ m # None => m \in Rows(map)
            /\ \A r \in new : RobotFree(r, open)
            /\ member' = open \cup {[robot |-> r, scene |-> s, by |-> by] : r \in new}
            /\ robot' = Placed(s, new, m, open)
  BY <1>0, <1>1 DEF ReplaceSceneRobots
<1>3. CASE UNCHANGED <<member, robot>>
  BY <1>2, <1>3, NothingChanges
<1>4. CASE /\ s \in Rows(scene) /\ new \subseteq Rows(robot)
           /\ new # {} /\ m # None => m \in Rows(map)
           /\ \A r \in new : RobotFree(r, open)
           /\ member' = open \cup {[robot |-> r, scene |-> s, by |-> by] : r \in new}
           /\ robot' = Placed(s, new, m, open)
  <2>1. PICK place : place = [scene |-> s, map |-> m]
    OBVIOUS
  <2>2. s \in Scene /\ s # None
    BY <1>4, RowFacts, SceneAssumption DEF TablesAgree
  <2>3. new # {} => /\ m \in Number \cup {None}
                    /\ m # None => m \in MapsOf(s)
    BY <1>0, <1>4 DEF Tells, MapsOf, Rows
  <2>4. new # {} => place \in PlaceRecord /\ place.scene = s /\ place.map = m
    BY <2>1, <2>2, <2>3 DEF PlaceRecord
  <2>5. NoPlace \in PlaceRecord /\ NoPlace.scene = None /\ NoPlace.map = None
    BY DEF NoPlace, PlaceRecord
  <2>6. \A r \in Robot :
          robot'[r] = IF r \in new THEN place
                      ELSE IF r \in Rows(robot) /\ robot[r].scene = s
                                /\ ~\E x \in open : x.robot = r /\ x.scene = s
                        THEN NoPlace
                      ELSE robot[r]
    BY <1>4, <2>1 DEF Placed
  <2>7. robot' \in [Robot -> PlaceRecord \cup {Unused, Deleted}]
    <3>1. robot' = [r \in Robot |-> robot'[r]]
      BY <1>4 DEF Placed
    <3>2. \A r \in Robot : robot'[r] \in PlaceRecord \cup {Unused, Deleted}
      BY <2>4, <2>5, <2>6 DEF TablesAgree, RecordsOK
    <3> QED
      BY <3>1, <3>2
  <2>8. Rows(robot)' = Rows(robot)
    <3>1. \A r : r \in Rows(robot)' <=> r \in Robot /\ robot'[r] \notin {Unused, Deleted}
      BY <2>7 DEF Rows
    <3>2. \A r : r \in Rows(robot) <=> r \in Robot /\ robot[r] \notin {Unused, Deleted}
      BY DEF Rows, TablesAgree, RecordsOK
    <3>3. \A r \in new : r \in Robot /\ robot'[r] \notin {Unused, Deleted}
      BY <1>4, <2>4, <2>6, <3>2, SceneAssumption
    <3>4. \A r \in Robot \ new : robot'[r] = robot[r] \/ (r \in Rows(robot)
                                                         /\ robot'[r] = NoPlace)
      BY <2>6
    <3>5. NoPlace \notin {Unused, Deleted}
      BY <2>5, SceneAssumption
    <3>6. new \subseteq Rows(robot)
      BY <1>4
    <3> QED
      BY <3>1, <3>2, <3>3, <3>4, <3>5, <3>6
  <2>9. \A x \in member' : \/ x \in open
                           \/ x.robot \in new /\ x.scene = s
    BY <1>4
  <2>10. RecordsOK'
    <3>1. \A x \in member' : x.robot \in Rows(robot)'
      BY <1>1, <1>4, <2>8, <2>9 DEF TablesAgree, RecordsOK
    <3> QED
      BY <1>2, <2>7, <3>1 DEF TablesAgree, RecordsOK
  <2>11. \A r \in new : \A z : InScene(r, z)' <=> z = s
    <3> SUFFICES ASSUME NEW r \in new, NEW z PROVE InScene(r, z)' <=> z = s
      OBVIOUS
    <3>1. \A x \in open : x.robot # r
      BY <1>4 DEF RobotFree
    <3>2. PICK row : row = [robot |-> r, scene |-> s, by |-> by]
      OBVIOUS
    <3>3. row \in member' /\ row.robot = r /\ row.scene = s
      BY <1>4, <3>2
    <3> QED
      BY <2>9, <3>1, <3>3 DEF InScene
  <2>12. \A r : r \notin new => \A z : z # s => (InScene(r, z)' <=> InScene(r, z))
    <3>1. \A x \in member : x \notin open => x.scene = s
      BY <1>0, <1>1
    <3>2. open \subseteq member /\ open \subseteq member'
      BY <1>1, <1>4
    <3> QED
      BY <2>9, <3>1, <3>2 DEF InScene
  <2>13. \A r : r \notin new =>
           (InScene(r, s)' <=> \E x \in open : x.robot = r /\ x.scene = s)
    <3>1. open \subseteq member'
      BY <1>4
    <3> QED
      BY <2>9, <3>1 DEF InScene
  <2>14. \A r : (\E x \in open : x.robot = r /\ x.scene = s) => InScene(r, s)
    BY <1>1 DEF InScene
  <2>15. \A z : MapsOf(z)' = MapsOf(z)
    BY <1>2 DEF MapsOf, Rows
  <2>16. RobotsPlaced'
    <3>1. ASSUME NEW r \in Rows(robot)
          PROVE  /\ \A z \in Scene : robot'[r].scene = z <=> InScene(r, z)'
                 /\ robot'[r].map # None => robot'[r].map \in MapsOf(robot'[r].scene)
      <4>1. r \in Robot /\ robot[r].scene \in Scene \cup {None}
        BY RowFacts DEF TablesAgree, PlaceRecord
      <4>2. /\ \A z \in Scene : robot[r].scene = z <=> InScene(r, z)
            /\ robot[r].map # None => robot[r].map \in MapsOf(robot[r].scene)
        BY DEF TablesAgree, RobotsPlaced
      <4>3. CASE r \in new
        BY <2>3, <2>4, <2>6, <2>11, <4>1, <4>3
      <4>4. CASE r \notin new /\ robot'[r] = NoPlace /\ robot[r].scene = s
                 /\ ~\E x \in open : x.robot = r /\ x.scene = s
        <5>1. \A z \in Scene : ~InScene(r, z)'
          BY <2>12, <2>13, <4>2, <4>4
        <5>2. \A z \in Scene : z # None
          BY SceneAssumption
        <5> QED
          BY <2>5, <4>4, <5>1, <5>2
      <4>5. CASE r \notin new /\ robot'[r] = robot[r]
                 /\ (robot[r].scene = s => \E x \in open : x.robot = r /\ x.scene = s)
        <5>1. InScene(r, s)' <=> InScene(r, s)
          BY <2>2, <2>13, <2>14, <4>2, <4>5
        <5> QED
          BY <2>12, <4>2, <4>5, <5>1
      <4> QED
        BY <2>6, <4>1, <4>3, <4>4, <4>5
    <3>2. ASSUME NEW r \in Rows(robot)
          PROVE  (/\ \A z \in Scene : robot[r].scene = z <=> InScene(r, z)
                  /\ robot[r].map # None => robot[r].map \in MapsOf(robot[r].scene))'
      <4>1. PICK z : z = robot'[r].scene
        OBVIOUS
      <4>2. robot'[r].map # None => robot'[r].map \in MapsOf(z)
        BY <3>1, <4>1
      <4> QED
        BY <2>15, <3>1, <4>1, <4>2
    <3> QED
      BY <2>8, <3>2 DEF RobotsPlaced
  <2> QED
    BY <1>2, <2>10, <2>16, RobotsOnly
<1> QED
  BY <1>2, <1>3, <1>4

-----------------------------------------------------------------------------
(* Stations and their actions *)

\* Steps that only change stations.
LEMMA StationsOnly ==
  ASSUME TablesAgree, station' \in [Station -> StationRecord \cup {Unused, Deleted}],
         StationsHang', \A p \in Station : station[p] # Unused => StationStays(p),
         UNCHANGED <<scene, map, robot, member>>
  PROVE  TablesAgree' /\ Grows
<1>1. /\ Rows(map)' = Rows(map) /\ Rows(scene)' = Rows(scene)
      /\ Rows(robot)' = Rows(robot) /\ \A x : MapsOf(x)' = MapsOf(x)
  BY DEF Rows, MapsOf
<1>2. RecordsOK'
  BY <1>1 DEF TablesAgree, RecordsOK
<1>3. ScenesShowTheirs' /\ MapsHaveScene'
  BY <1>1 DEF TablesAgree, ScenesShowTheirs, MapsHaveScene
<1>4. RobotsPlaced'
  BY <1>1, <1>2, RobotsUnchanged
<1> QED
  BY <1>2, <1>3, <1>4, MapsUnchanged DEF TablesAgree, Grows

\* One station gets a row of the map it had, if it had one, and a target in its
\* scene.
LEMMA StationChanges ==
  ASSUME TablesAgree, NEW p \in Station, NEW row \in StationRecord,
         station' = [station EXCEPT ![p] = row],
         UNCHANGED <<scene, map, robot, member>>,
         row.map \in Rows(map),
         station[p] = Unused \/ (p \in Rows(station) /\ row.map = station[p].map),
         row.target # None => /\ row.target \in Rows(station)
                              /\ SceneOf(row.target) = map[row.map].scene
  PROVE  TablesAgree' /\ Grows
<1>1. /\ station' \in [Station -> StationRecord \cup {Unused, Deleted}]
      /\ \A q \in Station : station'[q] = IF q = p THEN row ELSE station[q]
  BY DEF TablesAgree, RecordsOK
<1>2. Rows(station)' = Rows(station) \cup {p}
  <2>1. \A q : q \in Rows(station)' <=> q \in Station /\ station'[q] \notin {Unused, Deleted}
    BY <1>1 DEF Rows
  <2>2. \A q : q \in Rows(station) <=> q \in Station /\ station[q] \notin {Unused, Deleted}
    BY DEF Rows, TablesAgree, RecordsOK
  <2> QED
    BY <1>1, <2>1, <2>2, CatalogAssumption
<1>3. \A q \in Rows(station) : station'[q].map = station[q].map
  <2>1. station[p] = Unused => p \notin Rows(station)
    BY DEF Rows
  <2> QED
    BY <1>1, <2>1, RowFacts DEF TablesAgree
<1>4. \A q \in Rows(station) : SceneOf(q)' = SceneOf(q)
  BY <1>3 DEF SceneOf
<1>5. Rows(map)' = Rows(map) /\ SceneOf(p)' = map[row.map].scene
  BY <1>1 DEF Rows, SceneOf
<1>6. StationsHang'
  <2>1. ASSUME NEW q \in Rows(station)', q # p
        PROVE  (/\ station[q].map \in Rows(map)
                /\ station[q].target # None => /\ station[q].target \in Rows(station)
                                               /\ SceneOf(station[q].target) = SceneOf(q))'
    <3>1. q \in Rows(station) /\ q \in Station /\ station'[q] = station[q]
      BY <1>1, <1>2, <2>1, RowFacts DEF TablesAgree
    <3>2. PICK z : z = station[q].target
      OBVIOUS
    <3>3. z # None => z \in Rows(station) /\ SceneOf(z)' = SceneOf(q)'
      BY <1>4, <3>1, <3>2 DEF TablesAgree, StationsHang
    <3>4. station[q].map \in Rows(map)
      BY <3>1 DEF TablesAgree, StationsHang
    <3> QED
      BY <1>2, <1>5, <3>1, <3>2, <3>3, <3>4
  <2>2. (/\ station[p].map \in Rows(map)
         /\ station[p].target # None => /\ station[p].target \in Rows(station)
                                        /\ SceneOf(station[p].target) = SceneOf(p))'
    <3>1. station'[p] = row
      BY <1>1
    <3>2. PICK z : z = row.target
      OBVIOUS
    <3>3. z # None => z \in Rows(station)' /\ SceneOf(z)' = SceneOf(p)'
      BY <1>2, <1>4, <1>5, <3>2
    <3> QED
      BY <1>5, <3>1, <3>2, <3>3
  <2> QED
    BY <2>1, <2>2 DEF StationsHang
<1>7. \A q \in Station : station[q] # Unused => StationStays(q)
  <2>1. row # Unused
    BY CatalogAssumption
  <2>2. station[p] # Unused => station[p] # Deleted /\ row.map = station[p].map
    BY DEF Rows
  <2> QED
    BY <1>1, <2>1, <2>2 DEF StationStays
<1> QED
  BY <1>1, <1>6, <1>7, StationsOnly

LEMMA CreateStationAgrees ==
  ASSUME TablesAgree, NEW t \in Http, CreateStation(t)
  PROVE  TablesAgree' /\ Grows
<1>1. PICK p \in Fresh(station) :
        station' = IF thread[t].map \in Rows(map)
                     THEN [station EXCEPT ![p] = NewStation(thread[t].map)] ELSE station
  BY DEF CreateStation
<1>2. UNCHANGED <<scene, map, robot, member>>
  BY DEF CreateStation, places
<1>3. p \in Station /\ station[p] = Unused
  BY DEF Fresh, TablesAgree, RecordsOK
<1>4. CASE thread[t].map \notin Rows(map)
  BY <1>1, <1>2, <1>4, NothingChanges
<1>5. CASE thread[t].map \in Rows(map)
  <2>1. PICK row : row = NewStation(thread[t].map)
    OBVIOUS
  <2>2. thread[t].map \in Number /\ 0 \in Number
    BY <1>5, RowFacts, SceneAssumption DEF TablesAgree, Number
  <2>3. row \in StationRecord /\ row.map = thread[t].map /\ row.target = None
    BY <2>1, <2>2 DEF NewStation, StationRecord
  <2>4. station' = [station EXCEPT ![p] = row]
    BY <1>1, <1>5, <2>1
  <2>5. row.map \in Rows(map)
    BY <1>5, <2>3
  <2> QED
    BY <1>2, <1>3, <2>3, <2>4, <2>5, StationChanges
<1> QED
  BY <1>4, <1>5

LEMMA RemoveStationAgrees ==
  ASSUME TablesAgree, NEW t \in Http, RemoveStation(t)
  PROVE  TablesAgree' /\ Grows
<1>0. PICK p : p = thread[t].station
  OBVIOUS
<1>1. /\ UNCHANGED <<scene, map, robot, member>>
      /\ \/ station' = station
         \/ p \in Rows(station) /\ station' = [station EXCEPT ![p].status = "ARCHIVED"]
         \/ p \in Rows(station) /\ station' = DropStations({p})
  BY <1>0 DEF RemoveStation, places
<1>2. CASE station' = station
  BY <1>1, <1>2, NothingChanges
<1>3. CASE p \in Rows(station) /\ station' = [station EXCEPT ![p].status = "ARCHIVED"]
  <2>1. PICK row : row = [station[p] EXCEPT !.status = "ARCHIVED"]
    OBVIOUS
  <2>2. p \in Station /\ station[p] \in StationRecord
    BY <1>3, RowFacts DEF TablesAgree
  <2>3. /\ row \in StationRecord /\ row.map = station[p].map
        /\ row.target = station[p].target
    BY <2>1, <2>2 DEF StationRecord
  <2>4. station' = [station EXCEPT ![p] = row]
    BY <1>3, <2>1
  <2>5. /\ row.map \in Rows(map)
        /\ row.target # None => /\ row.target \in Rows(station)
                                /\ SceneOf(row.target) = map[row.map].scene
    BY <1>3, <2>3 DEF TablesAgree, StationsHang, SceneOf
  <2> QED
    BY <1>1, <1>3, <2>2, <2>3, <2>4, <2>5, StationChanges
<1>4. CASE p \in Rows(station) /\ station' = DropStations({p})
  <2>1. station' \in [Station -> StationRecord \cup {Unused, Deleted}]
    BY <1>4, DropFacts
  <2>2. Rows(map)' = Rows(map) /\ RecordsOK'
    BY <1>1, <2>1 DEF TablesAgree, RecordsOK, Rows
  <2>3. \A q \in Rows(station) \ {p} :
          /\ station[q].map \in Rows(map)'
          /\ map'[station[q].map].scene = map[station[q].map].scene
    BY <1>1, <2>2 DEF TablesAgree, StationsHang
  <2>4. StationsHang' /\ \A q \in Station : station[q] # Unused => StationStays(q)
    BY <1>4, <2>2, <2>3, DropHangs
  <2> QED
    BY <1>1, <2>1, <2>4, StationsOnly
<1> QED
  BY <1>1, <1>2, <1>3, <1>4

\* The station that an action leads to has been in the scene of the action's
\* station since the request looked, as long as both exist.
LEMMA ReplaceActionsAgrees ==
  ASSUME TablesAgree, CapabilityIds, NEW t \in Http, ReplaceStationActions(t),
         thread[t].by \in Number,
         thread[t].target # None /\ thread[t].station \in Rows(station)
           /\ thread[t].target \in Rows(station)
           => SceneOf(thread[t].target) = SceneOf(thread[t].station)
  PROVE  TablesAgree' /\ Grows
<1>0. PICK p, c, q, by :
        /\ p = thread[t].station /\ c = thread[t].uses /\ q = thread[t].target
        /\ by = thread[t].by
  OBVIOUS
<1>1. /\ UNCHANGED <<scene, map, robot, member>>
      /\ \/ station' = station
         \/ /\ p \in Rows(station) /\ c \in Uses /\ q \in Rows(station) \cup {None}
            /\ station' = [station EXCEPT ![p].capability = c, ![p].target = q,
                                          ![p].by = by]
  BY <1>0 DEF ReplaceStationActions, places
<1>2. CASE station' = station
  BY <1>1, <1>2, NothingChanges
<1>3. CASE /\ p \in Rows(station) /\ c \in Uses /\ q \in Rows(station) \cup {None}
           /\ station' = [station EXCEPT ![p].capability = c, ![p].target = q,
                                         ![p].by = by]
  <2>1. PICK row : row = [station[p] EXCEPT !.capability = c, !.target = q, !.by = by]
    OBVIOUS
  <2>2. p \in Station /\ station[p] \in StationRecord
    BY <1>3, RowFacts DEF TablesAgree
  <2>3. c \in Capability \cup {None} /\ q \in Station \cup {None} /\ by \in Number
    BY <1>0, <1>3, RowFacts DEF TablesAgree, Uses, Rows, CapabilityIds
  <2>4. row \in StationRecord /\ row.map = station[p].map /\ row.target = q
    BY <2>1, <2>2, <2>3 DEF StationRecord
  <2>5. station' = [station EXCEPT ![p] = row]
    BY <1>3, <2>1, <2>2 DEF TablesAgree, RecordsOK
  <2>6. /\ row.map \in Rows(map)
        /\ row.target # None => /\ row.target \in Rows(station)
                                /\ SceneOf(row.target) = map[row.map].scene
    BY <1>0, <1>3, <2>4 DEF TablesAgree, StationsHang, SceneOf
  <2> QED
    BY <1>1, <1>3, <2>2, <2>4, <2>5, <2>6, StationChanges
<1> QED
  BY <1>1, <1>2, <1>3

LEMMA DeleteCapabilityAgrees ==
  ASSUME TablesAgree, NEW t \in Http, DeleteCapability(t)
  PROVE  TablesAgree' /\ Grows
<1>0. PICK c : c = thread[t].capability
  OBVIOUS
<1>1. /\ UNCHANGED <<scene, map, robot, member>>
      /\ station' = [p \in Station |-> IF p \in BoundTo(c)
                                         THEN [station[p] EXCEPT !.capability = None]
                                         ELSE station[p]]
  BY <1>0 DEF DeleteCapability, places
<1>2. BoundTo(c) \subseteq Rows(station)
  BY DEF BoundTo
<1>3. ASSUME NEW p \in Rows(station)
      PROVE  /\ p \in Station /\ station'[p] \in StationRecord
             /\ station'[p].map = station[p].map /\ station'[p].target = station[p].target
  <2>1. p \in Station /\ station[p] \in StationRecord
    BY RowFacts DEF TablesAgree
  <2>2. CASE p \in BoundTo(c)
    <3>1. station'[p] = [station[p] EXCEPT !.capability = None]
      BY <1>1, <2>1, <2>2
    <3> QED
      BY <2>1, <3>1 DEF StationRecord
  <2>3. CASE p \notin BoundTo(c)
    BY <1>1, <2>1, <2>3
  <2> QED
    BY <2>2, <2>3
<1>4. \A p \in Station : p \notin Rows(station) => station'[p] = station[p]
  BY <1>1, <1>2
<1>5. station' \in [Station -> StationRecord \cup {Unused, Deleted}]
  <2>1. \A p \in Station : station'[p] \in StationRecord \cup {Unused, Deleted}
    BY <1>3, <1>4 DEF TablesAgree, RecordsOK
  <2>2. station' = [p \in Station |-> station'[p]]
    BY <1>1
  <2> QED
    BY <2>1, <2>2
<1>6. Rows(station)' = Rows(station) /\ Rows(map)' = Rows(map)
  <2>1. \A q : q \in Rows(station)' <=> q \in Station /\ station'[q] \notin {Unused, Deleted}
    BY <1>5 DEF Rows
  <2>2. \A q : q \in Rows(station) <=> q \in Station /\ station[q] \notin {Unused, Deleted}
    BY DEF Rows, TablesAgree, RecordsOK
  <2>3. Rows(map)' = Rows(map)
    BY <1>1 DEF Rows
  <2> QED
    BY <1>3, <1>4, <2>1, <2>2, <2>3, CatalogAssumption
<1>7. \A p \in Rows(station) : SceneOf(p)' = SceneOf(p)
  BY <1>1, <1>3 DEF SceneOf
<1>8. StationsHang'
  <2>1. ASSUME NEW q \in Rows(station)
        PROVE  (/\ station[q].map \in Rows(map)
                /\ station[q].target # None => /\ station[q].target \in Rows(station)
                                               /\ SceneOf(station[q].target) = SceneOf(q))'
    <3>1. PICK z : z = station[q].target
      OBVIOUS
    <3>2. z # None => z \in Rows(station) /\ SceneOf(z)' = SceneOf(q)'
      BY <1>7, <3>1 DEF TablesAgree, StationsHang
    <3>3. station[q].map \in Rows(map)
      BY DEF TablesAgree, StationsHang
    <3> QED
      BY <1>3, <1>6, <3>1, <3>2, <3>3
  <2> QED
    BY <1>6, <2>1 DEF StationsHang
<1>9. ASSUME NEW p \in Station, station[p] # Unused
      PROVE  StationStays(p)
  BY <1>3, <1>4, <1>9, CatalogAssumption DEF StationStays, Rows
<1> QED
  BY <1>1, <1>5, <1>8, <1>9, StationsOnly

-----------------------------------------------------------------------------
(* What the threads remember between their statements *)

\* Two stations are in one scene, as long as both exist.
Together(p, q) ==
  p \in Rows(station) /\ q \in Rows(station) => SceneOf(q) = SceneOf(p)

Recalls(rec) ==
  /\ rec.pc \in Importing =>
       /\ rec \in ImportRecord /\ rec.version <= spent + 1
       /\ rec.import <= spent /\ map[rec.import] = Unused
  /\ rec.pc = "activate" => Tells(rec.map, rec.scene)
  /\ rec.pc = "insertRows" =>
       /\ rec.map # None => Tells(rec.map, rec.scene)
       /\ \A x \in rec.old : x.scene = rec.scene
  /\ rec.pc = "insertAction" =>
       /\ rec.by \in Number /\ rec.station \in Station
       /\ station[rec.station] # Unused
       /\ rec.target # None => /\ rec.target \in Station /\ station[rec.target] # Unused
                               /\ Together(rec.station, rec.target)

Carrying == Importing \cup {"activate", "insertRows", "insertAction"}

\* An import names its map by a number no other request has.
NumbersAhead ==
  /\ \A m \in Number : m > spent => map[m] = Unused
  /\ \A m \in Rows(map) : map[m].version <= spent + 1
ImportsDiffer ==
  \A t, u \in Http :
    t # u /\ thread[t].pc \in Importing /\ thread[u].pc \in Importing
      => thread[t].import # thread[u].import

Remembered == NumbersAhead /\ ImportsDiffer /\ \A t \in Http : Recalls(thread[t])

\* A thread goes on to a place where it remembers nothing of other tables.
Drops(t) ==
  \E rec : rec.pc \notin Carrying /\ thread' = [thread EXCEPT ![t] = rec]

LEMMA IdleDrops ==
  ASSUME NEW t \in Http, Begin(t, Idle) \/ Answer(t)
  PROVE  Drops(t)
BY DEF Begin, Answer, Continue, Idle, Drops, Carrying, Importing

LEMMA MovedDrops ==
  ASSUME NEW t \in Http, "pc" \in DOMAIN thread[t],
         NEW pc, pc \notin Carrying, Continue(t, [thread[t] EXCEPT !.pc = pc])
  PROVE  Drops(t)
BY MovedRecord DEF Continue, Drops

LEMMA StepsDrop ==
  ASSUME NEW t \in Http, LocalsOK(t), Step(t),
         ~BeginImport(t), ~MaterializeMapFiles(t), ~BeginActivate(t),
         ~CloseMembership(t), ~BeginReplaceActions(t)
  PROVE  Drops(t)
<1>1. ASSUME \/ CreateScene(t) \/ DeleteScene(t) \/ InsertMapVersion(t) \/ SetActiveMap(t)
             \/ ArchiveMap(t) \/ UnlinkMapFiles(t) \/ CreateRobot(t) \/ DeleteRobot(t)
             \/ ReplaceSceneRobots(t) \/ CreateStation(t) \/ RemoveStation(t)
      PROVE  Drops(t)
  BY <1>1, IdleDrops DEF CreateScene, DeleteScene, InsertMapVersion, SetActiveMap,
       ArchiveMap, UnlinkMapFiles, CreateRobot, DeleteRobot, ReplaceSceneRobots,
       CreateStation, RemoveStation
<1>2. ASSUME \/ CreateWorkflow(t) \/ SaveDraft(t) \/ PublishDefinition(t)
             \/ AbortVictim(t) \/ DeleteWorkflow(t)
             \/ CreateCapability(t) \/ UpdateCapability(t) \/ DeleteCapability(t)
             \/ ReplaceStationActions(t)
      PROVE  Drops(t)
  BY <1>2, IdleDrops DEF CreateWorkflow, SaveDraft, PublishDefinition, AbortVictim,
       DeleteWorkflow, CreateCapability, UpdateCapability, DeleteCapability,
       ReplaceStationActions
<1>3. ASSUME BeginRemoveMap(t) \/ BeginDeleteRobot(t) \/ BeginReplaceRobots(t)
      PROVE  Drops(t)
  BY <1>3 DEF BeginRemoveMap, BeginDeleteRobot, BeginReplaceRobots, Begin, Drops,
       Carrying, Importing
<1>4. ASSUME BeginCreateStation(t) \/ BeginRemoveStation(t) \/ BeginDeleteCapability(t)
      PROVE  Drops(t)
  BY <1>4 DEF BeginCreateStation, BeginRemoveStation, BeginDeleteCapability, Begin,
       Drops, Carrying, Importing
<1>5. ASSUME DeleteMap(t)
      PROVE  Drops(t)
  <2>1. \/ Continue(t, [pc |-> "unlink", scene |-> map[thread[t].map].scene,
                        version |-> map[thread[t].map].version])
        \/ Answer(t)
    BY <1>5 DEF DeleteMap
  <2> QED
    BY <2>1, IdleDrops DEF Continue, Drops, Carrying, Importing
<1>6. ASSUME CheckRobotUnused(t) \/ SearchGraphs(t) \/ PublishDraft(t)
      PROVE  Drops(t)
  <2>1. \/ Continue(t, [thread[t] EXCEPT !.pc = "deleteRobot"])
        \/ Continue(t, [thread[t] EXCEPT !.pc = "deleteCapability"])
        \/ Continue(t, [thread[t] EXCEPT !.pc = "publishDefinition"])
        \/ Answer(t)
    BY <1>6 DEF CheckRobotUnused, SearchGraphs, PublishDraft
  <2>2. {"deleteRobot", "deleteCapability", "publishDefinition"} \cap Carrying = {}
    BY DEF Carrying, Importing
  <2> QED
    BY <2>1, <2>2, IdleDrops, MovedDrops DEF LocalsOK
<1>7. ASSUME SaveDefinition(t) \/ BeginPublish(t)
      PROVE  Drops(t)
  BY <1>7 DEF SaveDefinition, BeginPublish, Begin, Drops, Carrying, Importing
<1>8. ASSUME PickDraft(t) \/ ReadDraft(t)
      PROVE  Drops(t)
  BY <1>8, IdleDrops DEF PickDraft, ReadDraft, Continue, Drops, Carrying, Importing
<1> QED
  BY <1>1, <1>2, <1>3, <1>4, <1>5, <1>6, <1>7, <1>8 DEF Step, SceneStep

\* A step moves its own thread only, and begins at most one request.
LEMMA OneThread ==
  ASSUME TablesOK, NEW t \in Http, LocalsOK(t), Step(t)
  PROVE  /\ thread' = [thread EXCEPT ![t] = thread'[t]]
         /\ \A u \in Http : u # t => thread'[u] = thread[u]
<1>1. Drops(t) => \E rec : thread' = [thread EXCEPT ![t] = rec]
  BY DEF Drops
<1>2. ASSUME \/ BeginImport(t) \/ MaterializeMapFiles(t) \/ BeginActivate(t)
             \/ CloseMembership(t) \/ BeginReplaceActions(t)
      PROVE  \E rec : thread' = [thread EXCEPT ![t] = rec]
  BY <1>2 DEF BeginImport, MaterializeMapFiles, BeginActivate, CloseMembership,
       BeginReplaceActions, Begin, Continue, Answer
<1>3. PICK rec : thread' = [thread EXCEPT ![t] = rec]
  BY <1>1, <1>2, StepsDrop
<1> QED
  BY <1>3 DEF TablesOK

LEMMA SpentStep ==
  ASSUME TablesOK, NEW t \in Http, Step(t)
  PROVE  spent' \in {spent, spent + 1} /\ spent' \in Number /\ spent \in Nat
<1>1. spent' = spent \/ (spent' = spent + 1 /\ spent < Requests)
  <2>1. ASSUME \/ CreateScene(t) \/ DeleteScene(t) \/ BeginImport(t) \/ BeginActivate(t)
               \/ BeginRemoveMap(t) \/ CreateRobot(t) \/ BeginDeleteRobot(t)
               \/ BeginReplaceRobots(t) \/ BeginCreateStation(t) \/ BeginRemoveStation(t)
               \/ CreateWorkflow(t) \/ SaveDefinition(t) \/ BeginPublish(t)
               \/ DeleteWorkflow(t) \/ CreateCapability(t) \/ UpdateCapability(t)
               \/ BeginDeleteCapability(t) \/ BeginReplaceActions(t)
        PROVE  spent' = spent + 1 /\ spent < Requests
    BY <2>1 DEF CreateScene, DeleteScene, BeginImport, BeginActivate, BeginRemoveMap,
         CreateRobot, BeginDeleteRobot, BeginReplaceRobots, BeginCreateStation,
         BeginRemoveStation, CreateWorkflow, SaveDefinition, BeginPublish,
         DeleteWorkflow, CreateCapability, UpdateCapability, BeginDeleteCapability,
         BeginReplaceActions, Begin
  <2>2. ASSUME \/ MaterializeMapFiles(t) \/ InsertMapVersion(t) \/ SetActiveMap(t)
               \/ ArchiveMap(t) \/ DeleteMap(t) \/ UnlinkMapFiles(t)
               \/ CheckRobotUnused(t) \/ DeleteRobot(t) \/ CloseMembership(t)
               \/ ReplaceSceneRobots(t) \/ CreateStation(t) \/ RemoveStation(t)
               \/ PickDraft(t) \/ SaveDraft(t) \/ ReadDraft(t) \/ PublishDraft(t)
               \/ PublishDefinition(t) \/ AbortVictim(t) \/ SearchGraphs(t)
               \/ DeleteCapability(t) \/ ReplaceStationActions(t)
        PROVE  spent' = spent
    BY <2>2 DEF MaterializeMapFiles, InsertMapVersion, SetActiveMap, ArchiveMap,
         DeleteMap, UnlinkMapFiles, CheckRobotUnused, DeleteRobot, CloseMembership,
         ReplaceSceneRobots, CreateStation, RemoveStation, PickDraft, SaveDraft,
         ReadDraft, PublishDraft, PublishDefinition, AbortVictim, SearchGraphs,
         DeleteCapability, ReplaceStationActions, Continue, Answer
  <2> QED
    BY <2>1, <2>2 DEF Step, SceneStep
<1> QED
  BY <1>1, SceneAssumption DEF TablesOK, Number

-----------------------------------------------------------------------------
(* The tables *)

\* The steps that change no place and no station.
LEMMA ReadersChangeNothing ==
  ASSUME TablesAgree, NEW t \in Http, Step(t),
         ~CreateScene(t), ~DeleteScene(t), ~InsertMapVersion(t), ~SetActiveMap(t),
         ~ArchiveMap(t), ~DeleteMap(t), ~CreateRobot(t), ~DeleteRobot(t),
         ~ReplaceSceneRobots(t), ~CreateStation(t), ~RemoveStation(t),
         ~DeleteCapability(t), ~ReplaceStationActions(t)
  PROVE  UNCHANGED <<scene, map, robot, member, station>>
<1>1. ASSUME SceneStep(t)
      PROVE  UNCHANGED <<scene, map, robot, member, station>>
  BY <1>1 DEF SceneStep, BeginImport, MaterializeMapFiles, BeginActivate,
       BeginRemoveMap, UnlinkMapFiles, BeginDeleteRobot, CheckRobotUnused,
       BeginReplaceRobots, CloseMembership, BeginCreateStation, BeginRemoveStation,
       places
<1>2. ASSUME ~SceneStep(t)
      PROVE  UNCHANGED <<scene, map, robot, member, station>>
  BY <1>2 DEF Step, CreateWorkflow, SaveDefinition, PickDraft, SaveDraft,
       BeginPublish, ReadDraft, PublishDraft, PublishDefinition, AbortVictim,
       DeleteWorkflow, CreateCapability, UpdateCapability, BeginDeleteCapability,
       SearchGraphs, BeginReplaceActions, places
<1> QED
  BY <1>1, <1>2

LEMMA TablesStep ==
  ASSUME TablesAgree, Remembered, CapabilityIds, NEW t \in Http, Step(t)
  PROVE  TablesAgree' /\ Grows
<1>1. Recalls(thread[t])
  BY DEF Remembered
<1>2. CASE InsertMapVersion(t)
  BY <1>1, <1>2, InsertMapAgrees DEF InsertMapVersion, At, Recalls, Importing
<1>3. CASE SetActiveMap(t)
  BY <1>1, <1>3, SetActiveAgrees DEF SetActiveMap, At, Recalls
<1>4. CASE ReplaceSceneRobots(t)
  BY <1>1, <1>4, ReplaceRobotsAgrees DEF ReplaceSceneRobots, At, Recalls
<1>5. CASE ReplaceStationActions(t)
  BY <1>1, <1>5, ReplaceActionsAgrees DEF ReplaceStationActions, At, Recalls, Together
<1>6. CASE \/ CreateScene(t) \/ DeleteScene(t) \/ ArchiveMap(t) \/ DeleteMap(t)
           \/ CreateRobot(t) \/ DeleteRobot(t) \/ CreateStation(t) \/ RemoveStation(t)
           \/ DeleteCapability(t)
  BY <1>6, CreateSceneAgrees, DeleteSceneAgrees, ArchiveMapAgrees, DeleteMapAgrees,
     CreateRobotAgrees, DeleteRobotAgrees, CreateStationAgrees, RemoveStationAgrees,
     DeleteCapabilityAgrees
<1> QED
  BY <1>2, <1>3, <1>4, <1>5, <1>6, ReadersChangeNothing, NothingChanges

\* Only an import makes a map, and a map keeps its version.
MapsKeptFrom(born) ==
  \A m \in Number : m \notin born =>
    /\ map[m] = Unused => map'[m] = Unused
    /\ m \in Rows(map)' => m \in Rows(map) /\ map'[m].version = map[m].version

LEMMA MapsKept ==
  ASSUME TablesAgree, TablesAgree', NEW t \in Http, Step(t)
  PROVE  \/ MapsKeptFrom({})
         \/ InsertMapVersion(t) /\ MapsKeptFrom({thread[t].import})
<1>1. \A m : m \in Rows(map)' <=> m \in Number /\ map'[m] \notin {Unused, Deleted}
  BY DEF Rows, TablesAgree, RecordsOK
<1>2. \A m : m \in Rows(map) <=> m \in Number /\ map[m] \notin {Unused, Deleted}
  BY DEF Rows, TablesAgree, RecordsOK
<1>3. CASE UNCHANGED map
  BY <1>1, <1>2, <1>3 DEF MapsKeptFrom
<1>4. CASE DeleteScene(t)
  <2>1. PICK s \in Rows(scene) :
          map' = [m \in Number |-> IF m \in MapsOf(s) THEN Deleted ELSE map[m]]
    BY <1>4 DEF DeleteScene
  <2>2. MapsOf(s) \subseteq Rows(map)
    BY DEF MapsOf
  <2> QED
    BY <1>1, <1>2, <2>1, <2>2 DEF MapsKeptFrom
<1>5. CASE DeleteMap(t)
  <2>1. \/ UNCHANGED map
        \/ thread[t].map \in Rows(map) /\ map' = [map EXCEPT ![thread[t].map] = Deleted]
    BY <1>5 DEF DeleteMap
  <2>2. \A m \in Number : map'[m] = map[m] \/ (m \in Rows(map) /\ map'[m] = Deleted)
    BY <2>1 DEF TablesAgree, RecordsOK
  <2> QED
    BY <1>1, <1>2, <2>2 DEF MapsKeptFrom
<1>6. CASE ArchiveMap(t)
  <2>1. \/ UNCHANGED map
        \/ /\ thread[t].map \in Rows(map)
           /\ map' = [map EXCEPT ![thread[t].map].status = "ARCHIVED"]
    BY <1>6 DEF ArchiveMap
  <2>2. \A m \in Rows(map) : [map[m] EXCEPT !.status = "ARCHIVED"].version = map[m].version
    BY RowFacts DEF TablesAgree, MapRecord
  <2>3. \A m \in Number : map'[m] = map[m] \/ (m \in Rows(map) /\
                            map'[m] = [map[m] EXCEPT !.status = "ARCHIVED"])
    BY <2>1 DEF TablesAgree, RecordsOK
  <2> QED
    BY <1>1, <1>2, <2>2, <2>3 DEF MapsKeptFrom
<1>7. CASE InsertMapVersion(t)
  <2>1. \A m \in Number : m # thread[t].import => map'[m] = map[m]
    BY <1>7 DEF InsertMapVersion, TablesAgree, RecordsOK
  <2> QED
    BY <1>1, <1>2, <1>7, <2>1 DEF MapsKeptFrom
<1>8. CASE \/ CreateScene(t) \/ SetActiveMap(t) \/ CreateRobot(t) \/ DeleteRobot(t)
           \/ ReplaceSceneRobots(t) \/ CreateStation(t) \/ RemoveStation(t)
           \/ DeleteCapability(t) \/ ReplaceStationActions(t)
  <2>1. UNCHANGED map
    BY <1>8 DEF CreateScene, SetActiveMap, CreateRobot, DeleteRobot,
         ReplaceSceneRobots, CreateStation, RemoveStation, DeleteCapability,
         ReplaceStationActions, places
  <2> QED
    BY <1>3, <2>1
<1> QED
  BY <1>3, <1>4, <1>5, <1>6, <1>7, <1>8, ReadersChangeNothing

-----------------------------------------------------------------------------
(* What is remembered stays true *)

LEMMA StillTells ==
  ASSUME Grows, NEW m, NEW s, Tells(m, s)
  PROVE  Tells(m, s)'
BY DEF Grows, MapStays, Tells

LEMMA StillTogether ==
  ASSUME TablesAgree, TablesAgree', Grows, NEW p \in Station, NEW q \in Station,
         station[p] # Unused, station[q] # Unused, Together(p, q)
  PROVE  Together(p, q)'
<1> SUFFICES ASSUME p \in Rows(station)', q \in Rows(station)'
             PROVE  SceneOf(q)' = SceneOf(p)'
  BY DEF Together
<1>1. ASSUME NEW x \in {p, q}
      PROVE  x \in Rows(station) /\ SceneOf(x)' = SceneOf(x)
  <2>1. x \in Station /\ station[x] # Unused /\ x \in Rows(station)'
    OBVIOUS
  <2>2. station'[x] # Deleted
    BY <2>1 DEF Rows
  <2>3. station[x] # Deleted /\ station'[x].map = station[x].map
    BY <2>1, <2>2 DEF Grows, StationStays
  <2>4. x \in Rows(station)
    BY <2>1, <2>3 DEF Rows, TablesAgree, RecordsOK
  <2>5. PICK m : m = station[x].map
    OBVIOUS
  <2>6. m \in Rows(map)'
    BY <2>1, <2>3, <2>5 DEF TablesAgree, StationsHang
  <2>7. m \in Rows(map)
    BY <2>4, <2>5 DEF TablesAgree, StationsHang
  <2>8. m \in Number /\ map[m] # Unused /\ map'[m] # Deleted
    BY <2>6, <2>7 DEF Rows, TablesAgree, RecordsOK
  <2>9. map'[m].scene = map[m].scene
    BY <2>8 DEF Grows, MapStays
  <2> QED
    BY <2>3, <2>4, <2>5, <2>9 DEF SceneOf
<1> QED
  BY <1>1 DEF Together

LEMMA StillRecalls ==
  ASSUME TablesAgree, TablesAgree', Grows, spent \in Nat, spent' \in {spent, spent + 1},
         NEW rec, Recalls(rec), rec.pc \in Importing => map'[rec.import] = Unused
  PROVE  Recalls(rec)'
<1>1. CASE rec.pc \in Importing
  <2>1. /\ rec \in ImportRecord /\ rec.version <= spent + 1
        /\ rec.import <= spent
    BY <1>1 DEF Recalls
  <2>2. rec.version \in Nat /\ rec.import \in Nat
    BY <2>1 DEF ImportRecord, Number
  <2>3. rec.version <= spent' + 1 /\ rec.import <= spent'
    BY <2>1, <2>2
  <2> QED
    BY <1>1, <2>1, <2>3 DEF Recalls, Importing
<1>2. CASE rec.pc = "activate"
  BY <1>2, StillTells DEF Recalls, Importing
<1>3. CASE rec.pc = "insertRows"
  BY <1>3, StillTells DEF Recalls, Importing
<1>4. CASE rec.pc = "insertAction"
  <2>1. /\ rec.by \in Number /\ rec.station \in Station
        /\ station[rec.station] # Unused
        /\ rec.target # None => /\ rec.target \in Station
                                /\ station[rec.target] # Unused
                                /\ Together(rec.station, rec.target)
    BY <1>4 DEF Recalls
  <2>2. /\ station'[rec.station] # Unused
        /\ rec.target # None => station'[rec.target] # Unused
    BY <2>1 DEF Grows, StationStays
  <2>3. rec.target # None => Together(rec.station, rec.target)'
    BY <2>1, StillTogether
  <2> QED
    BY <1>4, <2>1, <2>2, <2>3 DEF Recalls, Importing
<1>5. CASE rec.pc \notin Carrying
  BY <1>5 DEF Recalls, Carrying
<1> QED
  BY <1>1, <1>2, <1>3, <1>4, <1>5 DEF Carrying

\* What a request remembers at first.
LEMMA BeginImportRecalls ==
  ASSUME TablesOK, TablesAgree, Remembered, NEW t \in Http, BeginImport(t)
  PROVE  Recalls(thread[t])' /\ thread'[t].import = spent + 1
<1>1. PICK s \in Rows(scene) :
        Begin(t, [pc |-> "materialize", scene |-> s, version |-> NextMapVersion(s),
                  import |-> spent + 1])
  BY DEF BeginImport
<1>2. PICK rec : rec = [pc |-> "materialize", scene |-> s, version |-> NextMapVersion(s),
                        import |-> spent + 1]
  OBVIOUS
<1>3. /\ thread' = [thread EXCEPT ![t] = rec] /\ thread'[t] = rec
      /\ spent' = spent + 1 /\ spent < Requests
  BY <1>1, <1>2 DEF Begin, TablesOK
<1>4. UNCHANGED map
  BY DEF BeginImport, places
<1>5. spent \in Nat /\ Requests \in Nat /\ spent + 1 \in Number
  BY <1>3, SceneAssumption DEF TablesOK, Number
<1>6. NextMapVersion(s) \in 1 .. (spent + 1) + 1
  <2>1. PICK n \in Nat : n = spent + 1
    BY <1>5
  <2>2. RecordsOK /\ \A m \in Rows(map) : map[m].version <= n
    BY <2>1 DEF Remembered, NumbersAhead, TablesAgree
  <2>3. NextMapVersion(s) \in 1 .. n + 1
    BY <2>2, NextVersionFacts
  <2> QED
    BY <2>1, <2>3
<1>7. NextMapVersion(s) \in 1 .. Requests + 1 /\ NextMapVersion(s) <= spent' + 1
  BY <1>3, <1>5, <1>6
<1>8. s \in Scene
  BY RowFacts DEF TablesAgree
<1>9. rec \in ImportRecord
  BY <1>2, <1>5, <1>7, <1>8 DEF ImportRecord, Importing
<1>10. map[spent + 1] = Unused
  BY <1>5 DEF Remembered, NumbersAhead
<1>11. /\ rec.pc = "materialize" /\ rec.version = NextMapVersion(s)
       /\ rec.import = spent + 1
  BY <1>2
<1>12. rec.import <= spent'
  BY <1>3, <1>5, <1>11
<1> QED
  BY <1>3, <1>4, <1>7, <1>9, <1>10, <1>11, <1>12 DEF Recalls, Importing

LEMMA MaterializeRecalls ==
  ASSUME TablesOK, Remembered, NEW t \in Http, MaterializeMapFiles(t)
  PROVE  Recalls(thread[t])' /\ thread'[t].import = thread[t].import
<1>1. /\ thread[t].pc = "materialize" /\ UNCHANGED <<map, spent>>
      /\ thread' = [thread EXCEPT ![t] = [thread[t] EXCEPT !.pc = "insertMap"]]
  BY DEF MaterializeMapFiles, At, Continue
<1>2. /\ thread[t] \in ImportRecord /\ thread[t].version <= spent + 1
      /\ thread[t].import <= spent /\ map[thread[t].import] = Unused
  BY <1>1 DEF Remembered, Recalls, Importing
<1>3. PICK rec : rec = [thread[t] EXCEPT !.pc = "insertMap"]
  OBVIOUS
<1>4. /\ rec \in ImportRecord /\ rec.pc = "insertMap"
      /\ rec.version = thread[t].version /\ rec.import = thread[t].import
  BY <1>2, <1>3 DEF ImportRecord, Importing
<1>5. thread'[t] = rec
  BY <1>1, <1>3 DEF TablesOK
<1> QED
  BY <1>1, <1>2, <1>4, <1>5 DEF Recalls, Importing

LEMMA BeginActivateRecalls ==
  ASSUME TablesOK, TablesAgree, NEW t \in Http, BeginActivate(t)
  PROVE  Recalls(thread[t])' /\ thread'[t].pc = "activate"
<1>1. PICK s \in Rows(scene) : \E m \in ReadyMaps(s) :
        Begin(t, [pc |-> "activate", scene |-> s, map |-> m])
  BY DEF BeginActivate
<1>2. PICK m \in ReadyMaps(s) : Begin(t, [pc |-> "activate", scene |-> s, map |-> m])
  BY <1>1
<1>3. thread'[t] = [pc |-> "activate", scene |-> s, map |-> m]
  BY <1>2 DEF Begin, TablesOK
<1>4. UNCHANGED map
  BY DEF BeginActivate, places
<1>5. Tells(m, s)
  BY DEF ReadyMaps, MapsOf, Rows, Tells, TablesAgree, RecordsOK
<1>6. Tells(m, s)'
  BY <1>4, <1>5 DEF Tells
<1> QED
  BY <1>3, <1>6 DEF Recalls, Importing

LEMMA CloseMembershipRecalls ==
  ASSUME TablesOK, TablesAgree, NEW t \in Http, CloseMembership(t)
  PROVE  Recalls(thread[t])' /\ thread'[t].pc \in {"idle", "insertRows"}
<1>1. PICK s : s = thread[t].scene
  OBVIOUS
<1>2. PICK rec : rec = [pc |-> "insertRows", scene |-> s, robots |-> thread[t].robots,
                        by |-> thread[t].by, map |-> scene[s],
                        old |-> {x \in member : x.scene = s}]
  OBVIOUS
<1>3. /\ UNCHANGED map
      /\ \/ s \in Rows(scene) /\ Continue(t, rec)
         \/ Answer(t)
  BY <1>1, <1>2 DEF CloseMembership, places
<1>4. CASE Answer(t)
  <2>1. thread'[t] = Idle
    BY <1>4 DEF Answer, Continue, TablesOK
  <2> QED
    BY <2>1 DEF Idle, Recalls, Importing
<1>5. CASE s \in Rows(scene) /\ Continue(t, rec)
  <2>1. thread'[t] = rec
    BY <1>5 DEF Continue, TablesOK
  <2>2. /\ rec.pc = "insertRows" /\ rec.scene = s /\ rec.map = scene[s]
        /\ \A x \in rec.old : x.scene = s
    BY <1>2
  <2>3. PICK m : m = scene[s]
    OBVIOUS
  <2>4. m # None => Tells(m, s)
    BY <1>5, <2>3 DEF TablesAgree, ScenesShowTheirs, RecordsOK, MapsOf, Rows, Tells
  <2>5. m # None => Tells(m, s)'
    BY <1>3, <2>4 DEF Tells
  <2> QED
    BY <2>1, <2>2, <2>3, <2>5 DEF Recalls, Importing
<1> QED
  BY <1>3, <1>4, <1>5

LEMMA BeginActionsRecalls ==
  ASSUME TablesOK, TablesAgree, NEW t \in Http, BeginReplaceActions(t)
  PROVE  Recalls(thread[t])' /\ thread'[t].pc = "insertAction"
<1>1. PICK p \in Rows(station), c \in Uses, q \in Rows(station) \cup {None} :
        /\ MayLeadTo(p, q)
        /\ Begin(t, [pc |-> "insertAction", station |-> p, uses |-> c, target |-> q,
                     old |-> station[p].by, by |-> spent + 1])
  BY DEF BeginReplaceActions
<1>2. PICK rec : rec = [pc |-> "insertAction", station |-> p, uses |-> c, target |-> q,
                        old |-> station[p].by, by |-> spent + 1]
  OBVIOUS
<1>3. thread'[t] = rec /\ spent < Requests
  BY <1>1, <1>2 DEF Begin, TablesOK
<1>4. UNCHANGED <<map, station>>
  BY DEF BeginReplaceActions, places
<1>5. spent + 1 \in Number
  BY <1>3, SceneAssumption DEF TablesOK, Number
<1>6. /\ p \in Station /\ station[p] # Unused
      /\ q # None => q \in Station /\ station[q] # Unused /\ Together(p, q)
  BY <1>1 DEF Rows, TablesAgree, RecordsOK, MayLeadTo, Together
<1>7. /\ station'[p] # Unused
      /\ q # None => station'[q] # Unused /\ Together(p, q)'
  BY <1>4, <1>6 DEF Together, Rows, SceneOf
<1>8. /\ rec.pc = "insertAction" /\ rec.by = spent + 1 /\ rec.station = p
      /\ rec.target = q
  BY <1>2
<1> QED
  BY <1>3, <1>5, <1>6, <1>7, <1>8 DEF Recalls, Importing

\* The step's own thread: it remembers what it has just read, or nothing; only
\* a request that begins has a new number.
LEMMA OwnRecalls ==
  ASSUME TablesOK, TablesAgree, Remembered, NEW t \in Http, LocalsOK(t), Step(t)
  PROVE  /\ Recalls(thread[t])'
         /\ thread'[t].pc \in Importing =>
              \/ thread'[t].import = spent + 1
              \/ thread[t].pc \in Importing /\ thread'[t].import = thread[t].import
<1>1. CASE Drops(t)
  <2>1. PICK rec : rec.pc \notin Carrying /\ thread' = [thread EXCEPT ![t] = rec]
    BY <1>1 DEF Drops
  <2>2. thread'[t] = rec
    BY <2>1 DEF TablesOK
  <2> QED
    BY <2>1, <2>2 DEF Recalls, Carrying
<1>2. CASE BeginImport(t)
  BY <1>2, BeginImportRecalls
<1>3. CASE MaterializeMapFiles(t)
  BY <1>3, MaterializeRecalls DEF MaterializeMapFiles, At, Importing
<1>4. CASE BeginActivate(t)
  BY <1>4, BeginActivateRecalls DEF Importing
<1>5. CASE CloseMembership(t)
  BY <1>5, CloseMembershipRecalls DEF Importing
<1>6. CASE BeginReplaceActions(t)
  BY <1>6, BeginActionsRecalls DEF Importing
<1> QED
  BY <1>1, <1>2, <1>3, <1>4, <1>5, <1>6, StepsDrop

LEMMA RememberedStep ==
  ASSUME TablesOK, TablesAgree, TablesAgree', Grows, Remembered,
         NEW t \in Http, LocalsOK(t), Step(t)
  PROVE  Remembered'
<1>1. /\ spent' \in {spent, spent + 1} /\ spent \in Nat /\ spent' \in Nat
      /\ \A u \in Http : u # t => thread'[u] = thread[u]
  BY SpentStep, OneThread DEF Number
<1>2. \/ MapsKeptFrom({})
      \/ InsertMapVersion(t) /\ MapsKeptFrom({thread[t].import})
  BY MapsKept
<1>3. ASSUME NEW u \in Http, thread[u].pc \in Importing
      PROVE  /\ thread[u].import \in Number /\ thread[u].import \in Nat
             /\ thread[u].import <= spent /\ map[thread[u].import] = Unused
             /\ thread[u].version \in Nat /\ thread[u].version <= spent + 1
  BY <1>3 DEF Remembered, Recalls, ImportRecord, Number
<1>4. InsertMapVersion(t) => thread[t].pc \in Importing
  BY DEF InsertMapVersion, At, Importing
<1>5. NumbersAhead'
  <2>1. ASSUME NEW m \in Number, m > spent'
        PROVE  map'[m] = Unused
    <3>1. m > spent /\ map[m] = Unused
      BY <1>1, <2>1 DEF Remembered, NumbersAhead, Number
    <3>2. InsertMapVersion(t) => m # thread[t].import
      BY <1>1, <1>3, <1>4, <3>1 DEF Number
    <3> QED
      BY <1>2, <3>1, <3>2 DEF MapsKeptFrom
  <2>2. ASSUME NEW m \in Rows(map)'
        PROVE  map'[m].version <= spent' + 1
    <3>1. m \in Number /\ map'[m] \in MapRecord /\ map'[m].version \in Nat
      BY RowFactsPrime DEF TablesAgree, MapRecord
    <3>2. CASE m \in Rows(map) /\ map'[m].version = map[m].version
      <4>1. map[m].version <= spent + 1
        BY <3>2 DEF Remembered, NumbersAhead
      <4> QED
        BY <1>1, <3>1, <3>2, <4>1
    <3>3. CASE InsertMapVersion(t) /\ m = thread[t].import
      <4>1. map[m] = Unused /\ thread[t].version \in Nat /\ thread[t].version <= spent + 1
        BY <1>3, <1>4, <3>3
      <4>2. map'[m] # Unused
        BY <2>2 DEF Rows
      <4>3. map' = [map EXCEPT ![m] = [scene |-> thread[t].scene,
                                       version |-> thread[t].version,
                                       status |-> "READY"]]
        BY <3>3, <4>1, <4>2 DEF InsertMapVersion
      <4>4. map'[m].version = thread[t].version
        BY <3>1, <4>3 DEF TablesAgree, RecordsOK
      <4> QED
        BY <1>1, <4>1, <4>4
    <3> QED
      BY <1>2, <2>2, <3>1, <3>2, <3>3 DEF MapsKeptFrom
  <2> QED
    BY <2>1, <2>2 DEF NumbersAhead
<1>6. Recalls(thread[t])'
  BY OwnRecalls
<1>7. ASSUME NEW u \in Http, u # t
      PROVE  Recalls(thread[u])'
  <2>1. PICK rec : rec = thread[u]
    OBVIOUS
  <2>2. Recalls(rec) /\ rec = thread'[u]
    BY <1>1, <1>7, <2>1 DEF Remembered
  <2>3. ASSUME rec.pc \in Importing
        PROVE  map'[rec.import] = Unused
    <3>1. rec.import \in Number /\ map[rec.import] = Unused
      BY <1>3, <2>1, <2>3
    <3>2. InsertMapVersion(t) => rec.import # thread[t].import
      BY <1>4, <1>7, <2>1, <2>3 DEF Remembered, ImportsDiffer
    <3> QED
      BY <1>2, <3>1, <3>2 DEF MapsKeptFrom
  <2>4. Recalls(rec)'
    BY <1>1, <2>2, <2>3, StillRecalls
  <2> QED
    BY <2>2, <2>4
<1>8. ImportsDiffer'
  <2>1. ASSUME NEW u \in Http, u # t, thread'[u].pc \in Importing,
               thread'[t].pc \in Importing
        PROVE  thread'[u].import # thread'[t].import
    <3>1. thread'[u] = thread[u] /\ thread[u].import \in Nat /\ thread[u].import <= spent
      BY <1>1, <1>3, <2>1
    <3>2. CASE thread'[t].import = spent + 1
      BY <1>1, <3>1, <3>2
    <3>3. CASE thread[t].pc \in Importing /\ thread'[t].import = thread[t].import
      BY <2>1, <3>1, <3>3 DEF Remembered, ImportsDiffer
    <3> QED
      BY <2>1, <3>2, <3>3, OwnRecalls
  <2>2. ASSUME NEW u \in Http, NEW v \in Http, u # v, u # t, v # t,
               thread'[u].pc \in Importing, thread'[v].pc \in Importing
        PROVE  thread'[u].import # thread'[v].import
    BY <1>1, <2>2 DEF Remembered, ImportsDiffer
  <2> QED
    BY <2>1, <2>2 DEF ImportsDiffer
<1> QED
  BY <1>5, <1>6, <1>7, <1>8 DEF Remembered

LEMMA InitPlaces == Init => TablesAgree /\ Remembered
<1> SUFFICES ASSUME Init PROVE TablesAgree /\ Remembered
  OBVIOUS
<1>1. PICK first, place, dock :
        /\ first = [scene |-> Home, version |-> 1, status |-> "READY"]
        /\ place = [scene |-> Home, map |-> 0]
        /\ dock = NewStation(0)
  OBVIOUS
<1>2. 0 \in Number /\ 1 \in 1 .. Requests + 1 /\ Home \in Scene /\ Annex \in Scene
      /\ Home # Annex /\ Bot \in Robot /\ Spare \in Robot /\ Dock \in Station
  BY SceneAssumption DEF Number
<1>3. /\ first \in MapRecord /\ first.scene = Home /\ first.version = 1
      /\ place \in PlaceRecord /\ place.scene = Home /\ place.map = 0
      /\ NoPlace \in PlaceRecord /\ NoPlace.scene = None /\ NoPlace.map = None
      /\ dock \in StationRecord /\ dock.map = 0 /\ dock.target = None
  BY <1>1, <1>2 DEF MapRecord, PlaceRecord, NoPlace, NewStation, StationRecord
<1>4. /\ scene = [s \in Scene |-> IF s = Home THEN 0 ELSE IF s = Annex THEN None ELSE Unused]
      /\ map = [m \in Number |-> IF m = 0 THEN first ELSE Unused]
      /\ robot = [r \in Robot |-> IF r = Bot THEN place
                                ELSE IF r = Spare THEN NoPlace ELSE Unused]
      /\ member = {[robot |-> Bot, scene |-> Home, by |-> 0]}
      /\ station = [p \in Station |-> IF p = Dock THEN dock ELSE Unused]
      /\ thread = [t \in Http |-> Idle] /\ spent = 0
  BY <1>1 DEF Init, SceneInit
<1>5. /\ Rows(scene) = {Home, Annex} /\ Rows(map) = {0}
      /\ Rows(station) = {Dock}
      /\ Bot \in Rows(robot) /\ \A r \in Rows(robot) : r = Bot \/ robot[r] = NoPlace
  BY <1>2, <1>3, <1>4, SceneAssumption, CatalogAssumption DEF Rows
<1>6. RecordsOK
  BY <1>2, <1>3, <1>4, <1>5 DEF RecordsOK
<1>7. MapsOf(Home) = {0}
  BY <1>2, <1>3, <1>4, <1>5 DEF MapsOf
<1>8. ScenesShowTheirs /\ MapsHaveScene
  BY <1>2, <1>3, <1>4, <1>5, <1>7 DEF ScenesShowTheirs, MapsHaveScene
<1>9. RobotsPlaced
  <2>1. \A r, s : InScene(r, s) <=> r = Bot /\ s = Home
    BY <1>4 DEF InScene
  <2>2. robot[Bot] = place
    BY <1>2, <1>4
  <2>3. \A s \in Scene : s # None
    BY SceneAssumption
  <2>4. Bot \in Rows(robot) => robot[Bot] # NoPlace
    BY <1>2, <1>3, <2>2, <2>3
  <2> QED
    BY <1>3, <1>5, <1>7, <2>1, <2>2, <2>3, <2>4 DEF RobotsPlaced
<1>10. StationsHang
  BY <1>2, <1>3, <1>4, <1>5 DEF StationsHang
<1>11. Remembered
  <2>1. NumbersAhead
    BY <1>2, <1>3, <1>4, <1>5 DEF NumbersAhead, Number
  <2>2. \A t \in Http : thread[t].pc = "idle"
    BY <1>4 DEF Idle
  <2> QED
    BY <2>1, <2>2 DEF Remembered, ImportsDiffer, Recalls, Importing
<1> QED
  BY <1>6, <1>8, <1>9, <1>10, <1>11 DEF TablesAgree

LEMMA PlacesInvariant == Spec => [](TablesAgree /\ Remembered)
<1>1. ASSUME TablesAgree, Remembered, IInv, CapabilityIds, [Next]_vars
      PROVE  (TablesAgree /\ Remembered)'
  <2>1. ASSUME NEW t \in Http, Step(t)
        PROVE  (TablesAgree /\ Remembered)'
    <3>1. TablesOK /\ LocalsOK(t)
      BY <1>1 DEF IInv
    <3>2. TablesAgree' /\ Grows
      BY <1>1, <2>1, TablesStep
    <3> QED
      BY <1>1, <2>1, <3>1, <3>2, RememberedStep
  <2>2. CASE UNCHANGED vars
    <3>1. UNCHANGED <<scene, map, robot, member, station, thread, spent>>
      BY <2>2 DEF vars, places, requests
    <3>2. TablesAgree' /\ Grows
      BY <1>1, <3>1, NothingChanges
    <3>3. spent \in Nat /\ spent' = spent
      BY <1>1, <3>1 DEF IInv, TablesOK, Number
    <3>4. NumbersAhead' /\ ImportsDiffer'
      BY <1>1, <3>1 DEF Remembered, NumbersAhead, ImportsDiffer, Rows
    <3>5. ASSUME NEW t \in Http
          PROVE  Recalls(thread[t])'
      <4>1. PICK rec : rec = thread[t]
        OBVIOUS
      <4>2. Recalls(rec) /\ rec = thread'[t]
        BY <1>1, <3>1, <4>1 DEF Remembered
      <4>3. Recalls(rec)'
        BY <1>1, <3>1, <3>2, <3>3, <4>2, StillRecalls DEF Recalls
      <4> QED
        BY <4>2, <4>3
    <3> QED
      BY <3>2, <3>4, <3>5 DEF Remembered
  <2> QED
    BY <1>1, <2>1, <2>2 DEF Next
<1>2. TablesAgree /\ Remembered /\ IInv /\ CapabilityIds /\ [Next]_vars
        => (TablesAgree /\ Remembered)'
  BY <1>1
<1> QED
  BY <1>2, InitPlaces, Invariant, PTL DEF Spec

\* The tables tell one story in every state: a robot is in the scene whose open
\* row it has and on a map of that scene, a scene shows a map of its own, and an
\* action leads to a station of the same scene, whichever requests overlap.
THEOREM OneStory == Spec => []PlacesAgree
<1>1. TablesAgree => PlacesAgree
  BY AgreeParts DEF TablesAgree
<1> QED
  BY <1>1, PlacesInvariant, PTL
=============================================================================
