------------------------------- MODULE Catalog -------------------------------
(***************************************************************************)
(* The database the HTTP threads edit: SceneCatalog, workflow definitions  *)
(* with their versions, capability templates and the actions of stations.  *)
(* Saving and publishing a workflow lock rows until they commit, and each  *)
(* may wait for the other; PostgreSQL then aborts one of them.  A graph is *)
(* the request that saved it and the capability it uses.                   *)
(***************************************************************************)
EXTENDS SceneCatalog, Sequences

CONSTANTS Workflow, Capability, Flow, Skill   \* the last two are there at first

VersionRecord ==
  [status : {"DRAFT", "PUBLISHED"},
   graph : [by : Number, uses : Capability \cup {None}]]
StationRecord ==
  [map : Number, status : {"ACTIVE", "ARCHIVED"}, by : Number,
   capability : Capability \cup {None}, target : Station \cup {None}]

ASSUME CatalogAssumption ==
  /\ Flow \in Workflow /\ Skill \in Capability
  /\ None \notin Http
  /\ {Unused, Deleted} \cap Seq(VersionRecord) = {}
  /\ {Unused, Deleted} \cap StationRecord = {}

VARIABLES
  version,     \* workflow -> its versions in order: status and graph
  deflock,     \* workflow -> the thread that has its definition row locked
  rowlock,     \* workflow -> the thread that has its newest version row locked
  saved,       \* history: workflow -> the request that last saved a graph
  capability   \* capability -> its motion_ownership

locks == <<deflock, rowlock>>
workflows == <<version, locks, saved>>
vars == <<places, station, requests, workflows, capability>>

Ownership == {"DISPATCHER", "ROBOT_INTERNAL"}
Uses == Rows(capability) \cup {None}

Draft(g) == [status |-> "DRAFT", graph |-> g]
Drafts(w) == {i \in DOMAIN version[w] : version[w][i].status = "DRAFT"}
NewestDraft(w) == CHOOSE i \in Drafts(w) : \A j \in Drafts(w) : j <= i

Free(lock, w, t) == lock[w] \in {None, t}
Release(lock, w, t) == IF lock[w] = t THEN [lock EXCEPT ![w] = None] ELSE lock

Init ==
  /\ SceneInit
  /\ version = [w \in Workflow |->
                  IF w = Flow THEN <<Draft([by |-> 0, uses |-> None])>> ELSE Unused]
  /\ deflock = [w \in Workflow |-> None]
  /\ rowlock = [w \in Workflow |-> None]
  /\ saved = [w \in Workflow |-> 0]
  /\ capability = [c \in Capability |-> IF c = Skill THEN "DISPATCHER" ELSE Unused]

-----------------------------------------------------------------------------
(* Workflow definitions and versions *)

CreateWorkflow(t) ==
  /\ Begin(t, Idle)
  /\ \E w \in Fresh(version), c \in Uses :
       /\ version' = [version EXCEPT ![w] = <<Draft([by |-> spent + 1, uses |-> c])>>]
       /\ saved' = [saved EXCEPT ![w] = spent + 1]
  /\ UNCHANGED <<places, station, locks, capability>>

\* updateWorkflow writes the definition first and holds its row from then on.
SaveDefinition(t) ==
  /\ \E w \in Rows(version), c \in Uses :
       /\ Free(deflock, w, t)
       /\ deflock' = [deflock EXCEPT ![w] = t]
       /\ Begin(t, [pc |-> "pickDraft", workflow |-> w,
                    graph |-> [by |-> spent + 1, uses |-> c]])
  /\ UNCHANGED <<places, station, version, rowlock, saved, capability>>

\* The sub-query of the UPDATE is answered once, before the row it names is
\* waited for.
PickDraft(t) ==
  /\ At(t, "pickDraft")
  /\ Continue(t, [pc |-> "saveDraft", workflow |-> thread[t].workflow,
                  graph |-> thread[t].graph, pick |-> NewestDraft(thread[t].workflow)])
  /\ UNCHANGED <<places, station, workflows, capability>>

WithGraph(w, i, g) == [version EXCEPT ![w][i].graph = g]

SaveDraft(t) ==
  /\ At(t, "saveDraft")
  /\ LET w == thread[t].workflow
     IN /\ Free(rowlock, w, t)
        /\ version' = WithGraph(w, thread[t].pick, thread[t].graph)
        /\ saved' = [saved EXCEPT ![w] = thread[t].graph.by]
        /\ deflock' = Release(deflock, w, t)
  /\ Answer(t)
  /\ UNCHANGED <<places, station, rowlock, capability>>

\* The route reads the workflow and validates its graph in a transaction of
\* its own; which graphs are valid is left out.
BeginPublish(t) ==
  /\ \E w \in Rows(version) : Begin(t, [pc |-> "readDraft", workflow |-> w])
  /\ UNCHANGED <<places, station, workflows, capability>>

ReadDraft(t) ==
  /\ At(t, "readDraft")
  /\ LET w == thread[t].workflow
     IN IF w \in Rows(version)
          THEN Continue(t, [pc |-> "publishDraft", workflow |-> w,
                            draft |-> NewestDraft(w),
                            graph |-> version[w][NewestDraft(w)].graph])
          ELSE Answer(t)
  /\ UNCHANGED <<places, station, workflows, capability>>

\* UNIQUE (workflow_definition_id, version): the second of two publications of
\* one draft fails when it inserts the next version.
NextVersionFreeAlways(w, draft) == TRUE
NextVersionFree(w, draft) == Len(version[w]) = draft

PublishDraft(t) ==
  /\ At(t, "publishDraft")
  /\ LET w == thread[t].workflow
     IN IF w \in Rows(version) /\ NextVersionFree(w, thread[t].draft)
          THEN /\ Free(rowlock, w, t)
               /\ rowlock' = [rowlock EXCEPT ![w] = t]
               /\ Continue(t, [thread[t] EXCEPT !.pc = "publishDefinition"])
          ELSE /\ Answer(t)
               /\ UNCHANGED rowlock
  /\ UNCHANGED <<places, station, version, deflock, saved, capability>>

\* The draft is published with the graph it has now; the next one gets the
\* graph that was read.
PublishedAsRead(w, draft, g) == [status |-> "PUBLISHED", graph |-> g]
Published(w, draft, g) == [version[w][draft] EXCEPT !.status = "PUBLISHED"]

\* The last statement sets updated_at of the definition.
TouchesNothing(w, t) == TRUE
Touches(w, t) == Free(deflock, w, t)

PublishDefinition(t) ==
  /\ At(t, "publishDefinition")
  /\ LET w == thread[t].workflow
         d == thread[t].draft
         g == thread[t].graph
     IN /\ Touches(w, t)
        /\ version' = [version EXCEPT ![w] =
                         Append([@ EXCEPT ![d] = Published(w, d, g)], Draft(g))]
        /\ rowlock' = Release(rowlock, w, t)
  /\ Answer(t)
  /\ UNCHANGED <<places, station, deflock, saved, capability>>

\* A save holds the definition and waits for the version that a publication
\* holds, which waits for the definition.
Deadlocked(t, u, w) ==
  /\ At(t, "saveDraft") /\ At(u, "publishDefinition")
  /\ thread[t].workflow = w /\ thread[u].workflow = w
  /\ deflock[w] = t /\ rowlock[w] = u

AbortVictim(t) ==
  /\ \E u \in Http, w \in Rows(version) :
       /\ Deadlocked(t, u, w) \/ Deadlocked(u, t, w)
       /\ deflock' = Release(deflock, w, t)
       /\ rowlock' = Release(rowlock, w, t)
  /\ Answer(t)
  /\ UNCHANGED <<places, station, version, saved, capability>>

\* Versions go with their definition; one that has runs stays.
DeleteWorkflow(t) ==
  /\ Begin(t, Idle)
  /\ \E w \in Rows(version) :
       /\ Free(deflock, w, t) /\ Free(rowlock, w, t)
       /\ version' = [version EXCEPT ![w] = Deleted]
  /\ UNCHANGED <<places, station, locks, saved, capability>>

-----------------------------------------------------------------------------
(* Capability templates *)

CreateCapability(t) ==
  /\ Begin(t, Idle)
  /\ \E c \in Fresh(capability), o \in Ownership :
       capability' = [capability EXCEPT ![c] = o]
  /\ UNCHANGED <<places, station, workflows>>

UpdateCapability(t) ==
  /\ Begin(t, Idle)
  /\ \E c \in Rows(capability) : \E o \in Ownership \ {capability[c]} :
       capability' = [capability EXCEPT ![c] = o]
  /\ UNCHANGED <<places, station, workflows>>

BoundTo(c) == {p \in Rows(station) : station[p].capability = c}
UsedBy(c) ==
  {w \in Rows(version) : \E i \in DOMAIN version[w] : version[w][i].graph.uses = c}

\* Three statements: station actions, graphs, and the row itself.
BeginDeleteCapability(t) ==
  /\ \E c \in Rows(capability) :
       BoundTo(c) = {} /\ Begin(t, [pc |-> "searchGraphs", capability |-> c])
  /\ UNCHANGED <<places, station, workflows, capability>>

SearchGraphs(t) ==
  /\ At(t, "searchGraphs")
  /\ IF UsedBy(thread[t].capability) = {}
       THEN Continue(t, [thread[t] EXCEPT !.pc = "deleteCapability"])
       ELSE Answer(t)
  /\ UNCHANGED <<places, station, workflows, capability>>

\* An action that was bound since is unbound; a graph keeps the id.
DeleteCapability(t) ==
  /\ At(t, "deleteCapability")
  /\ Answer(t)
  /\ LET c == thread[t].capability
     IN /\ capability' = [capability EXCEPT ![c] = Deleted]
        /\ station' = [p \in Station |-> IF p \in BoundTo(c)
                                           THEN [station[p] EXCEPT !.capability = None]
                                           ELSE station[p]]
  /\ UNCHANGED <<places, workflows>>

-----------------------------------------------------------------------------
(* The actions of a station: at most one, with sequence number 1. *)

MayLeadTo(p, q) ==
  q # None => station[q].status = "ACTIVE" /\ SceneOf(q) = SceneOf(p)

BeginReplaceActions(t) ==
  /\ \E p \in Rows(station), c \in Uses, q \in Rows(station) \cup {None} :
       /\ station[p].status = "ACTIVE"
       /\ MayLeadTo(p, q)
       /\ q # None /\ c # None => capability[c] # "ROBOT_INTERNAL"
       /\ Begin(t, [pc |-> "insertAction", station |-> p, uses |-> c, target |-> q,
                    old |-> station[p].by, by |-> spent + 1])
  /\ UNCHANGED <<places, station, workflows, capability>>

\* The row that the DELETE saw goes; UNIQUE (station_id, sequence_no) refuses
\* a second one when another request has replaced it meanwhile.
ReplaceStationActions(t) ==
  /\ At(t, "insertAction")
  /\ Answer(t)
  /\ LET p == thread[t].station
         c == thread[t].uses
         q == thread[t].target
     IN station' =
          IF /\ p \in Rows(station) /\ station[p].by = thread[t].old
             /\ c \in Uses /\ q \in Rows(station) \cup {None}
            THEN [station EXCEPT ![p].capability = c, ![p].target = q,
                                 ![p].by = thread[t].by]
            ELSE station
  /\ UNCHANGED <<places, workflows, capability>>

-----------------------------------------------------------------------------
Step(t) ==
  \/ SceneStep(t) /\ UNCHANGED <<workflows, capability>>
  \/ CreateWorkflow(t)
  \/ SaveDefinition(t) \/ PickDraft(t) \/ SaveDraft(t)
  \/ BeginPublish(t) \/ ReadDraft(t) \/ PublishDraft(t) \/ PublishDefinition(t)
  \/ AbortVictim(t) \/ DeleteWorkflow(t)
  \/ CreateCapability(t) \/ UpdateCapability(t)
  \/ BeginDeleteCapability(t) \/ SearchGraphs(t) \/ DeleteCapability(t)
  \/ BeginReplaceActions(t) \/ ReplaceStationActions(t)

Next == \E t \in Http : Step(t)

Spec == Init /\ [][Next]_vars

-----------------------------------------------------------------------------
(* Two publications of one workflow, or one and a save, leave one draft    *)
(* and it is the newest version: what getWorkflow edits and publishWorkflow *)
(* publishes is never an older one.                                        *)
NewestIsOnlyDraft ==
  \A w \in Rows(version) : Drafts(w) = {Len(version[w])}

(* The graph that was saved last is never lost to a publication that       *)
(* overlaps the save: it is in some version, though perhaps not the draft. *)
SaveKept ==
  \A w \in Rows(version) :
    \E i \in DOMAIN version[w] : version[w][i].graph.by = saved[w]

(* No save reaches a version that runs may already execute, although the   *)
(* row a save has picked may be published before it is written.            *)
PublishedFrozen ==
  [][\A w \in Rows(version) : \A i \in DOMAIN version[w] :
       version[w][i].status = "PUBLISHED" /\ version'[w] # Deleted
         => version'[w][i] = version[w][i]]_vars
=============================================================================
