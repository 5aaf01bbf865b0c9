----------------------------- MODULE SceneCatalog -----------------------------
(***************************************************************************)
(* Scenes, map versions and their files, stations and robots as the HTTP   *)
(* threads keep them in PostgreSQL (db/workspace_repository.cpp and the    *)
(* routes that call it).  A request is a transaction of several statements *)
(* at READ COMMITTED: what it has read may be old when it writes, so its   *)
(* reads and its writes are different steps.  The writes and the commit    *)
(* are one, since nobody sees the one without the other; the constraints   *)
(* of the schema are conditions of that step.  Names, coordinates, image   *)
(* data and the other columns are left out.                                *)
(***************************************************************************)
EXTENDS Naturals, FiniteSets, TLC

CONSTANTS
  Http,       \* HTTP threads
  Scene, Robot, Station,
  Unused,     \* an id no row has had yet
  Deleted,    \* an id whose row is gone; ids are never used again
  None,
  Home, Annex, Bot, Spare, Dock,   \* scenes, robots and a station there are at first
  Requests    \* bound: requests begun

Number == 0 .. Requests     \* of requests; an import names its map by it

MapRecord == [scene : Scene, version : 1 .. Requests + 1, status : {"READY", "ARCHIVED"}]
PlaceRecord == [scene : Scene \cup {None}, map : Number \cup {None}]

ASSUME SceneAssumption ==
  /\ Requests \in Nat
  /\ Home \in Scene /\ Annex \in Scene /\ Home # Annex
  /\ Bot \in Robot /\ Spare \in Robot /\ Dock \in Station
  /\ Unused # Deleted
  /\ None \notin Number /\ None \notin Scene /\ None \notin Station
  /\ {Unused, Deleted} \cap (Number \cup {None}) = {}
  /\ {Unused, Deleted} \cap MapRecord = {}
  /\ {Unused, Deleted} \cap PlaceRecord = {}

VARIABLES
  scene,      \* scene -> its active map
  map,        \* import -> scene, version and status of its map version
  file,       \* scene -> version -> the import whose bytes are in that directory
  robot,      \* robot -> current scene and map
  member,     \* open rows of scene_robots: robot, scene, request that made it
  station,    \* station -> map, status, and its action: the request that made it
              \* (0: none), its capability and the station it leads to
  thread,     \* HTTP thread -> the statement it is at, and its locals
  spent       \* requests begun

places == <<scene, map, file, robot, member>>
requests == <<thread, spent>>

Rows(table) == {x \in DOMAIN table : table[x] \notin {Unused, Deleted}}
Fresh(table) == {x \in DOMAIN table : table[x] = Unused}
MapsOf(s) == {m \in Rows(map) : map[m].scene = s}
StationsOn(maps) == {p \in Rows(station) : station[p].map \in maps}
SceneOf(p) == map[station[p].map].scene

Idle == [pc |-> "idle"]
At(t, pc) == thread[t].pc = pc
Begin(t, rec) ==
  /\ thread[t] = Idle
  /\ spent < Requests
  /\ spent' = spent + 1
  /\ thread' = [thread EXCEPT ![t] = rec]
Continue(t, rec) ==
  /\ thread' = [thread EXCEPT ![t] = rec]
  /\ UNCHANGED spent
Answer(t) == Continue(t, Idle)

\* ON DELETE SET NULL and CASCADE of the tables that refer to stations.
DropStations(gone) ==
  [p \in Station |->
     IF p \in gone THEN Deleted
     ELSE IF p \in Rows(station) /\ station[p].target \in gone
       THEN [station[p] EXCEPT !.target = None]
     ELSE station[p]]

NoPlace == [scene |-> None, map |-> None]

NewStation(m) == [map |-> m, status |-> "ACTIVE",
                  by |-> 0, capability |-> None, target |-> None]

SceneInit ==
  /\ scene = [s \in Scene |-> IF s = Home THEN 0 ELSE IF s = Annex THEN None ELSE Unused]
  /\ map = [m \in Number |-> IF m = 0 THEN [scene |-> Home, version |-> 1,
                                            status |-> "READY"] ELSE Unused]
  /\ file = [s \in Scene |-> [v \in 1 .. Requests + 1 |->
                                  IF s = Home /\ v = 1 THEN 0 ELSE None]]
  /\ robot = [r \in Robot |-> IF r = Bot THEN [scene |-> Home, map |-> 0]
                            ELSE IF r = Spare THEN NoPlace ELSE Unused]
  /\ member = {[robot |-> Bot, scene |-> Home, by |-> 0]}
  /\ station = [p \in Station |-> IF p = Dock THEN NewStation(0) ELSE Unused]
  /\ thread = [t \in Http |-> Idle]
  /\ spent = 0

-----------------------------------------------------------------------------
(* Scenes *)

CreateScene(t) ==
  /\ Begin(t, Idle)
  /\ \E s \in Fresh(scene) : scene' = [scene EXCEPT ![s] = None]
  /\ UNCHANGED <<map, file, robot, member, station>>

\* Files stay behind; the rows of maps, stations and members go with the scene.
DeleteScene(t) ==
  /\ Begin(t, Idle)
  /\ \E s \in Rows(scene) :
       /\ scene' = [scene EXCEPT ![s] = Deleted]
       /\ map' = [m \in Number |-> IF m \in MapsOf(s) THEN Deleted ELSE map[m]]
       /\ robot' = [r \in Robot |->
                      IF r \in Rows(robot)
                           /\ (robot[r].scene = s \/ robot[r].map \in MapsOf(s))
                        THEN NoPlace ELSE robot[r]]
       /\ member' = {x \in member : x.scene # s}
       /\ station' = DropStations(StationsOn(MapsOf(s)))
  /\ UNCHANGED file

-----------------------------------------------------------------------------
(* Map versions: a row of the database and a directory of files. *)

NextMapVersion(s) ==
  LET taken == {map[m].version : m \in MapsOf(s)}
  IN 1 + (IF taken = {} THEN 0 ELSE CHOOSE v \in taken : \A w \in taken : w <= v)

\* getScene and nextMapVersion, before the files of the request are written.
BeginImport(t) ==
  /\ \E s \in Rows(scene) :
       Begin(t, [pc |-> "materialize", scene |-> s, version |-> NextMapVersion(s),
                 import |-> spent + 1])
  /\ UNCHANGED <<places, station>>

MaterializeMapFiles(t) ==
  /\ At(t, "materialize")
  /\ file' = [file EXCEPT ![thread[t].scene][thread[t].version] = thread[t].import]
  /\ Continue(t, [thread[t] EXCEPT !.pc = "insertMap"])
  /\ UNCHANGED <<scene, map, robot, member, station>>

VersionFree(s, v) == \A m \in MapsOf(s) : map[m].version # v

\* UNIQUE (scene_id, version) decides between two imports of one version.
InsertMapVersion(t) ==
  /\ At(t, "insertMap")
  /\ Answer(t)
  /\ LET s == thread[t].scene
         v == thread[t].version
         m == thread[t].import
     IN IF s \in Rows(scene) /\ VersionFree(s, v)
          THEN /\ map' = [map EXCEPT ![m] = [scene |-> s, version |-> v,
                                             status |-> "READY"]]
               /\ scene' = [scene EXCEPT ![s] = m]
          ELSE UNCHANGED <<map, scene>>
  /\ UNCHANGED <<file, robot, member, station>>

ReadyMaps(s) == {m \in MapsOf(s) : map[m].status = "READY"}

BeginActivate(t) ==
  /\ \E s \in Rows(scene) : \E m \in ReadyMaps(s) :
       Begin(t, [pc |-> "activate", scene |-> s, map |-> m])
  /\ UNCHANGED <<places, station>>

SetActiveMap(t) ==
  /\ At(t, "activate")
  /\ Answer(t)
  /\ LET s == thread[t].scene
         m == thread[t].map
     IN scene' = IF s \in Rows(scene) /\ m \in Rows(map)
                   THEN [scene EXCEPT ![s] = m] ELSE scene
  /\ UNCHANGED <<map, file, robot, member, station>>

OnMap(m) == {r \in Rows(robot) : robot[r].map = m}
ShownBy(m) == {s \in Rows(scene) : scene[s] = m}

BeginRemoveMap(t) ==
  /\ \E m \in Rows(map) :
       Begin(t, [pc |-> "removeMap", map |-> m, active |-> ShownBy(m) # {},
                 robots |-> OnMap(m) # {}, stations |-> StationsOn({m}) # {}])
  /\ UNCHANGED <<places, station>>

HideMap(m) == [s \in Scene |-> IF s \in ShownBy(m) THEN None ELSE scene[s]]

\* A map that was in use when the transaction looked is kept as ARCHIVED.
ArchiveMap(t) ==
  /\ At(t, "removeMap")
  /\ thread[t].active \/ thread[t].robots \/ thread[t].stations
  /\ Answer(t)
  /\ LET m == thread[t].map
     IN IF m \in Rows(map)
          THEN /\ map' = [map EXCEPT ![m].status = "ARCHIVED"]
               /\ scene' = IF thread[t].active THEN HideMap(m) ELSE scene
               /\ robot' = IF thread[t].robots
                             THEN [r \in Robot |-> IF r \in OnMap(m)
                                                     THEN [robot[r] EXCEPT !.map = None]
                                                     ELSE robot[r]]
                             ELSE robot
          ELSE UNCHANGED <<map, scene, robot>>
  /\ UNCHANGED <<file, member, station>>

\* The row goes first, then its files.  A robot that came to the map since the
\* transaction looked makes the DELETE fail; a scene or a station does not.
DeleteMap(t) ==
  /\ At(t, "removeMap")
  /\ ~(thread[t].active \/ thread[t].robots \/ thread[t].stations)
  /\ LET m == thread[t].map
     IN IF m \in Rows(map) /\ OnMap(m) = {}
          THEN /\ map' = [map EXCEPT ![m] = Deleted]
               /\ scene' = HideMap(m)
               /\ station' = DropStations(StationsOn({m}))
               /\ Continue(t, [pc |-> "unlink", scene |-> map[m].scene,
                               version |-> map[m].version])
          ELSE /\ Answer(t)
               /\ UNCHANGED <<map, scene, station>>
  /\ UNCHANGED <<file, robot, member>>

UnlinkMapFiles(t) ==
  /\ At(t, "unlink")
  /\ Answer(t)
  /\ file' = [file EXCEPT ![thread[t].scene][thread[t].version] = None]
  /\ UNCHANGED <<scene, map, robot, member, station>>

-----------------------------------------------------------------------------
(* Robots and the scenes they belong to *)

CreateRobot(t) ==
  /\ Begin(t, Idle)
  /\ \E r \in Fresh(robot) : robot' = [robot EXCEPT ![r] = NoPlace]
  /\ UNCHANGED <<scene, map, file, member, station>>

Belongs(r) == \E x \in member : x.robot = r

\* The route looks for a scene, disconnects the robot, and asks for the row to
\* be deleted; that looks again, and for work in progress, which is not modelled.
BeginDeleteRobot(t) ==
  /\ \E r \in Rows(robot) : ~Belongs(r) /\ Begin(t, [pc |-> "lookAgain", robot |-> r])
  /\ UNCHANGED <<places, station>>

CheckRobotUnused(t) ==
  /\ At(t, "lookAgain")
  /\ \/ ~Belongs(thread[t].robot) /\ Continue(t, [thread[t] EXCEPT !.pc = "deleteRobot"])
     \/ Answer(t)
  /\ UNCHANGED <<places, station>>

DeleteRobot(t) ==
  /\ At(t, "deleteRobot")
  /\ Answer(t)
  /\ robot' = [robot EXCEPT ![thread[t].robot] = Deleted]
  /\ member' = {x \in member : x.robot # thread[t].robot}
  /\ UNCHANGED <<scene, map, file, station>>

BeginReplaceRobots(t) ==
  /\ \E s \in Rows(scene), new \in SUBSET Rows(robot) :
       /\ \A x \in member : x.robot \in new => x.scene = s
       /\ Begin(t, [pc |-> "closeRows", scene |-> s, robots |-> new, by |-> spent + 1])
  /\ UNCHANGED <<places, station>>

\* The UPDATE closes the rows it sees; a row that another request adds stays.
CloseMembership(t) ==
  /\ At(t, "closeRows")
  /\ LET s == thread[t].scene
     IN IF s \in Rows(scene)
          THEN Continue(t, [pc |-> "insertRows", scene |-> s, robots |-> thread[t].robots,
                            by |-> thread[t].by, map |-> scene[s],
                            old |-> {x \in member : x.scene = s}])
          ELSE Answer(t)
  /\ UNCHANGED <<places, station>>

\* scene_robots_active_robot_uq
RobotFreeAlways(r, open) == TRUE
RobotFree(r, open) == \A x \in open : x.robot # r

\* Dropped robots lose their place, whoever dropped them.
PlacedKeepingDropped(s, new, m, open) ==
  [r \in Robot |-> IF r \in new THEN [scene |-> s, map |-> m] ELSE robot[r]]
Placed(s, new, m, open) ==
  [r \in Robot |->
     IF r \in new THEN [scene |-> s, map |-> m]
     ELSE IF r \in Rows(robot) /\ robot[r].scene = s /\ ~\E x \in open : x.robot = r
                                                              /\ x.scene = s
       THEN NoPlace
     ELSE robot[r]]

ReplaceSceneRobots(t) ==
  /\ At(t, "insertRows")
  /\ Answer(t)
  /\ LET s == thread[t].scene
         new == thread[t].robots
         m == thread[t].map
         open == member \ thread[t].old
     IN IF /\ s \in Rows(scene)
           /\ new \subseteq Rows(robot)
           /\ new # {} /\ m # None => m \in Rows(map)
           /\ \A r \in new : RobotFree(r, open)
          THEN /\ member' = open \cup {[robot |-> r, scene |-> s, by |-> thread[t].by] :
                                         r \in new}
               /\ robot' = Placed(s, new, m, open)
          ELSE UNCHANGED <<member, robot>>
  /\ UNCHANGED <<scene, map, file, station>>

-----------------------------------------------------------------------------
(* Stations *)

BeginCreateStation(t) ==
  /\ Fresh(station) # {}
  /\ \E s \in Rows(scene) : \E m \in ReadyMaps(s) :
       Begin(t, [pc |-> "station", map |-> m])
  /\ UNCHANGED <<places, station>>

CreateStation(t) ==
  /\ At(t, "station")
  /\ Answer(t)
  /\ \E p \in Fresh(station) :
       station' = IF thread[t].map \in Rows(map)
                    THEN [station EXCEPT ![p] = NewStation(thread[t].map)]
                    ELSE station
  /\ UNCHANGED places

TargetOf(p) == \E q \in Rows(station) : station[q].target = p

BeginRemoveStation(t) ==
  /\ \E p \in Rows(station) :
       Begin(t, [pc |-> "removeStation", station |-> p, referenced |-> TargetOf(p)])
  /\ UNCHANGED <<places, station>>

\* A station that an action leads to is kept as ARCHIVED.
RemoveStation(t) ==
  /\ At(t, "removeStation")
  /\ Answer(t)
  /\ LET p == thread[t].station
     IN station' = IF p \notin Rows(station) THEN station
                   ELSE IF thread[t].referenced
                     THEN [station EXCEPT ![p].status = "ARCHIVED"]
                   ELSE DropStations({p})
  /\ UNCHANGED places

-----------------------------------------------------------------------------
SceneStep(t) ==
  \/ CreateScene(t) \/ DeleteScene(t)
  \/ BeginImport(t) \/ MaterializeMapFiles(t) \/ InsertMapVersion(t)
  \/ BeginActivate(t) \/ SetActiveMap(t)
  \/ BeginRemoveMap(t) \/ ArchiveMap(t) \/ DeleteMap(t) \/ UnlinkMapFiles(t)
  \/ CreateRobot(t) \/ BeginDeleteRobot(t) \/ CheckRobotUnused(t) \/ DeleteRobot(t)
  \/ BeginReplaceRobots(t) \/ CloseMembership(t) \/ ReplaceSceneRobots(t)
  \/ BeginCreateStation(t) \/ CreateStation(t)
  \/ BeginRemoveStation(t) \/ RemoveStation(t)

-----------------------------------------------------------------------------
(* Two requests for different scenes that both found a robot free do not   *)
(* both get it: replaceSceneRobots and scene_robots_active_robot_uq.       *)
OneScenePerRobot ==
  \A x, y \in member : x.robot = y.robot => x = y

(* Whatever replacements, deletions and map changes overlap, the tables    *)
(* tell one story: a robot is in the scene whose open row it has and on a  *)
(* map of that scene, a scene shows a map of its own, and the action of a  *)
(* station leads to a station of the same scene.                           *)
PlacesAgree ==
  /\ \A s \in Rows(scene) : scene[s] # None => scene[s] \in MapsOf(s)
  /\ \A m \in Rows(map) : map[m].scene \in Rows(scene)
  /\ \A r \in Rows(robot) :
       /\ \A s \in Scene : robot[r].scene = s <=> \E x \in member : x.robot = r
                                                                 /\ x.scene = s
       /\ robot[r].map # None => robot[r].map \in MapsOf(robot[r].scene)
  /\ \A p \in Rows(station) :
       /\ station[p].map \in Rows(map)
       /\ station[p].target # None => /\ station[p].target \in Rows(station)
                                      /\ SceneOf(station[p].target) = SceneOf(p)
=============================================================================
