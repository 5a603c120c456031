------------------------- MODULE LaneService_proofs -------------------------
(***************************************************************************)
(* Theorems about the lanes of LaneService.                                *)
(*                                                                         *)
(* The inductive invariant of the Simulators is LaneInv: a start owns its  *)
(* lane's id until the lane is stored, and the lane of any other task is,  *)
(* while stored, the one the task read.  Both fail once a resume may turn  *)
(* a backend off (TurnsOff), as the last write of such a resume stores     *)
(* what it read before its Metro was respawned.  Inv adds what is true of  *)
(* the Metros.  That claims on ports are exclusive needs no assumption.    *)
(***************************************************************************)
EXTENDS LaneService, TLAPS

(* What is true of every state, whatever the switches. *)
Typed == TypeOK /\ TaskShape

(* A task that ends is idle, and the others stay as they are. *)
LEMMA Ended ==
    ASSUME Typed, NEW a \in Apps, End(a)
    PROVE  /\ task' \in [Apps -> Task]
           /\ task'[a] = Idle
           /\ \A b \in Apps \ {a} : task'[b] = task[b]
           /\ TaskShape'
  <1> USE LaneAssumption DEF Typed, TypeOK, Pcs
  <1>1. Idle \in Task
    BY DEF Idle, Task
  <1>2. task' \in [Apps -> Task] /\ task'[a] = Idle /\ \A b \in Apps \ {a} : task'[b] = task[b]
    BY <1>1 DEF End
  <1>3. TaskShape'
    BY <1>2 DEF TaskShape, Idle, Starting, Returning
  <1> QED
    BY <1>2, <1>3

(* A task of a stored lane has the shape of one. *)
LEMMA LaneTasks ==
    ASSUME Typed, NEW a \in Apps, NEW pc \in Returning, NEW l \in LaneIds, NEW was \in Lane,
           NEW p \in Ports \cup {None}, NEW n \in Pids \cup {None}, NEW r \in BOOLEAN,
           task' = [task EXCEPT ![a] = LaneTask(pc, l, was, p, n, r)],
           (n # None) <=> (pc \in {"revived", "respawned", "recording"})
    PROVE  /\ task' \in [Apps -> Task]
           /\ task'[a] = LaneTask(pc, l, was, p, n, r)
           /\ \A b \in Apps \ {a} : task'[b] = task[b]
           /\ TaskShape'
  <1>1. LaneTask(pc, l, was, p, n, r) \in Task
    BY DEF LaneTask, Task, Returning
  <1>2. /\ task' \in [Apps -> Task]
        /\ task'[a] = LaneTask(pc, l, was, p, n, r)
        /\ \A b \in Apps \ {a} : task'[b] = task[b]
    BY <1>1 DEF Typed, TypeOK
  <1>3. TaskShape'
    <2>1. /\ task'[a].pc = pc /\ task'[a].lane = l /\ task'[a].udid = None
          /\ task'[a].was = was /\ task'[a].fresh = n
      BY <1>2 DEF LaneTask
    <2>2. l # None /\ was # None
      BY LaneAssumption, NoLaneAssumption
    <2>3. pc \notin Starting \cup {"idle", "looking", "inventory", "spawned", "storing"}
      BY DEF Returning, Starting
    <2> QED
      BY <1>2, <2>1, <2>2, <2>3 DEF Typed, TaskShape, Starting
  <1> QED
    BY <1>2, <1>3

(* Every step keeps the types and the shapes of the tasks. *)
LEMMA TypedStep == Typed /\ [Next]_vars => Typed'
<1> SUFFICES ASSUME Typed, [Next]_vars PROVE Typed'
  OBVIOUS
<1> USE LaneAssumption
    DEF Typed, TypeOK, TaskShape, Task, Pcs, Starting, Returning, Stop, Watch, Spawn,
        StartTask, LaneTask, Serving
<1>2. ASSUME NEW a \in Apps, BeginStart(a) PROVE Typed'
  BY <1>2 DEF BeginStart
<1>3. ASSUME NEW a \in Apps, FindNoLane(a) PROVE Typed'
  BY <1>3 DEF FindNoLane
<1>4. ASSUME NEW a \in Apps, NEW u \in Udids, NEW l \in LaneIds, Reserve(a, u, l) PROVE Typed'
  BY <1>4 DEF StartTask, Reserve
<1>5. ASSUME NEW a \in Apps, NEW p \in Ports, ProbePort(a, p) PROVE Typed'
  BY <1>5 DEF StartTask, ProbePort
<1>6. ASSUME NEW a \in Apps, ClaimPort(a) PROVE Typed'
  BY <1>6 DEF StartTask, ClaimPort
<1>7. ASSUME NEW a \in Apps, NEW n \in Pids, SpawnForStart(a, n) PROVE Typed'
  BY <1>7 DEF StartTask, SpawnForStart, Spawn
<1>8. ASSUME NEW a \in Apps, StoreLane(a) PROVE Typed'
  BY <1>8 DEF Serving, StoreLane, NewLane, Lane
<1>9. ASSUME NEW a \in Apps, StartDone(a) PROVE Typed'
  BY <1>9, Ended DEF StartDone
<1>10. ASSUME NEW a \in Apps, NEW l \in LaneIds, FindLane(a, l) PROVE Typed'
  <2>1. CASE store[l].pid \in alive
    <3>1. store[l] \in Lane
      BY <1>10 DEF FindLane, Stored
    <3>2. "deciding" \in Returning
      OBVIOUS
    <3>3. task' = [task EXCEPT ![a] = LaneTask("deciding", l, store[l], None, None, FALSE)]
      BY <1>10, <2>1 DEF FindLane
    <3>4. task' \in [Apps -> Task] /\ TaskShape'
      <4> HIDE DEF TypeOK, Typed, TaskShape, Task, Pcs, Starting, Returning, LaneTask
      <4> QED
        BY <3>1, <3>2, <3>3, LaneTasks
    <3> QED
      BY <1>10, <3>4 DEF FindLane
  <2>2. CASE store[l].pid \notin alive /\ PortHeld(a, store[l].port, l)
    BY <1>10, <2>2, Ended DEF LaneTask, FindLane
  <2>3. CASE store[l].pid \notin alive /\ ~PortHeld(a, store[l].port, l)
    <3>1. store[l] \in Lane /\ store[l].port \in Ports
      BY <1>10 DEF FindLane, Stored, Lane
    <3>2. "deciding" \in Returning
      OBVIOUS
    <3>3. task' = [task EXCEPT ![a] = LaneTask("deciding", l, store[l], store[l].port, None, FALSE)]
      BY <1>10, <2>3 DEF FindLane
    <3>4. task' \in [Apps -> Task] /\ TaskShape'
      <4> HIDE DEF TypeOK, Typed, TaskShape, Task, Pcs, Starting, Returning, LaneTask
      <4> QED
        BY <3>1, <3>2, <3>3, LaneTasks
    <3> QED
      BY <1>10, <3>4 DEF FindLane
  <2> QED
    BY <2>1, <2>2, <2>3
<1>11. ASSUME NEW a \in Apps, Decide(a) PROVE Typed'
  <2>1. CASE End(a)
    BY <1>11, <2>1, Ended DEF LaneTask, Decide
  <2>2. CASE Stored(task[a].lane)
    <3>1. store[task[a].lane] \in Lane
      BY <1>11, <2>2 DEF LaneTask, Decide, Stored
    <3>2. /\ {"saving", "inspecting", "exited"} \subseteq Returning
          /\ RespawnPc(store[task[a].lane].pid) \in {"inspecting", "exited"}
          /\ task[a].lane \in LaneIds /\ task[a].port \in Ports \cup {None}
      BY <1>11 DEF Decide, RespawnPc
    <3>3. \/ End(a)
          \/ \E pc \in {"saving", "inspecting", "exited"}, p \in Ports \cup {None}, r \in BOOLEAN :
               task' = [task EXCEPT ![a] = LaneTask(pc, task[a].lane, store[task[a].lane], p, None, r)]
      BY <1>11, <3>2 DEF Decide
    <3>4. task' \in [Apps -> Task] /\ TaskShape'
      <4> HIDE DEF TypeOK, Typed, TaskShape, Task, Pcs, Starting, Returning, LaneTask
      <4>1. \A pc \in {"saving", "inspecting", "exited"} :
              pc \in Returning /\ pc \notin {"revived", "respawned", "recording"}
        BY <3>2
      <4> QED
        BY <1>11, <3>1, <3>2, <3>3, <4>1, Ended, LaneTasks
    <3> QED
      BY <1>11, <3>4 DEF Decide
  <2> QED
    BY <1>11, <2>1, <2>2 DEF LaneTask, Decide
<1>12. ASSUME NEW a \in Apps, NEW n \in Pids, Revive(a, n) PROVE Typed'
  BY <1>12 DEF LaneTask, Revive, Spawn, Lane
<1>13. ASSUME NEW a \in Apps, RecordRevive(a) PROVE Typed'
  <2>1. CASE Stored(task[a].lane)
    <3>1. task[a].lane \in LaneIds /\ task[a].was \in Lane /\ task[a].fresh \in Pids
      BY <1>13 DEF Serving, RecordRevive
    <3>2. Serving(task[a].was, task[a].fresh) \in Lane
      BY <3>1 DEF Lane, Serving
    <3>3. store' \in [LaneIds -> Lane \cup {None}]
      BY <1>13, <2>1, <3>1, <3>2 DEF RecordRevive
    <3>4. task' \in [Apps -> Task] /\ TaskShape'
      <4>1. task' = [task EXCEPT ![a].pc = "recording"] /\ task[a].pc = "revived"
        BY <1>13, <2>1 DEF RecordRevive
      <4> QED
        BY <4>1
    <3> QED
      BY <1>13, <2>1, <3>3, <3>4 DEF RecordRevive
  <2>2. CASE ~Stored(task[a].lane)
    BY <1>13, <2>2, Ended DEF Serving, RecordRevive, StopOrLeave, LaneMetros, Signal
  <2> QED
    BY <2>1, <2>2
<1>14. ASSUME NEW a \in Apps, ResumeRunning(a) PROVE Typed'
  <2>1. CASE End(a)
    BY <1>14, <2>1, Ended DEF ResumeRunning
  <2>2. CASE ~End(a)
    BY <1>14, <2>2 DEF ResumeRunning
  <2> QED
    BY <2>1, <2>2
<1>15. ASSUME NEW a \in Apps, NEW l \in LaneIds,
             NEW step \in {"ensuring", "inspecting", "halting"}, BeginRestart(a, l, step) PROVE Typed'
  BY <1>15 DEF LaneTask, BeginRestart, Stored
<1>16. ASSUME NEW a \in Apps, Ensured(a) PROVE Typed'
  BY <1>16 DEF Ensured, RespawnPc
<1>17. ASSUME NEW a \in Apps, Halt(a) PROVE Typed'
  <2>1. store' \in [LaneIds -> Lane \cup {None}]
    <3>1. CASE SameMetro(a)
      <4>1. task[a].lane \in LaneIds /\ store[task[a].lane] \in Lane
        BY <1>17, <3>1 DEF Halt, SameMetro, Stored
      <4>2. [store[task[a].lane] EXCEPT !.live = FALSE] \in Lane
        BY <4>1 DEF Lane
      <4>3. store' = [store EXCEPT ![task[a].lane] = [store[task[a].lane] EXCEPT !.live = FALSE]]
        BY <1>17, <3>1 DEF Halt
      <4> QED
        BY <4>1, <4>2, <4>3
    <3> QED
      BY <1>17, <3>1 DEF Halt
  <2> QED
    BY <1>17, <2>1, Ended DEF Halt, Signal
<1>18. ASSUME NEW a \in Apps, KillOld(a) PROVE Typed'
  BY <1>18 DEF KillOld, Signal
<1>19. ASSUME NEW a \in Apps, NEW n \in Pids, SpawnAgain(a, n) PROVE Typed'
  BY <1>19 DEF LaneTask, SpawnAgain, Spawn, OldGone, SameMetro, Stored, Lane
<1>20. ASSUME NEW a \in Apps, RespawnLost(a) PROVE Typed'
  BY <1>20, Ended DEF RespawnLost, OldGone
<1>21. ASSUME NEW a \in Apps, RecordRespawn(a) PROVE Typed'
  <2>1. CASE SameMetro(a)
    <3>1. task[a].lane \in LaneIds /\ store[task[a].lane] \in Lane /\ task[a].fresh \in Pids
      BY <1>21, <2>1 DEF LaneTask, Serving, RecordRespawn, SameMetro, Stored
    <3>2. Serving(store[task[a].lane], task[a].fresh) \in Lane
      BY <3>1 DEF Lane, Serving
    <3>3. store' = [store EXCEPT ![task[a].lane] =
                      Serving(store[task[a].lane], task[a].fresh)]
      BY <1>21, <2>1 DEF RecordRespawn
    <3>4. store' \in [LaneIds -> Lane \cup {None}] /\ store'[task[a].lane] \in Lane
      BY <3>1, <3>2, <3>3
    <3>5. task' \in [Apps -> Task] /\ TaskShape'
      <4>1. "recording" \in Returning /\ task[a].port \in Ports \cup {None} /\ task[a].resumes \in BOOLEAN
        OBVIOUS
      <4> QED
        BY <1>21, <2>1, <3>1, <3>4, <4>1, LaneTasks DEF RecordRespawn
    <3> QED
      BY <1>21, <2>1, <3>4, <3>5 DEF LaneTask, Serving, RecordRespawn
  <2>2. CASE ~SameMetro(a)
    BY <1>21, <2>2, Ended DEF LaneTask, Serving, RecordRespawn, StopOrLeave, LaneMetros, Signal
  <2> QED
    BY <2>1, <2>2
<1>22. ASSUME NEW a \in Apps, Recorded(a) PROVE Typed'
  <2>1. CASE task[a].resumes
    <3>1. /\ "saving" \in Returning /\ task[a].port \in Ports \cup {None}
          /\ task[a].was \in Lane /\ task[a].lane \in LaneIds
      BY <1>22 DEF Recorded
    <3>2. task' \in [Apps -> Task] /\ TaskShape'
      <4>1. task' = [task EXCEPT ![a] =
                       LaneTask("saving", task[a].lane, task[a].was, task[a].port, None, FALSE)]
        BY <1>22, <2>1 DEF Recorded
      <4> HIDE DEF TypeOK, Typed, TaskShape, Task, Pcs, Starting, Returning, LaneTask
      <4> QED
        BY <3>1, <4>1, LaneTasks
    <3>3. store' \in [LaneIds -> Lane \cup {None}]
      BY <1>22, <2>1, <3>1 DEF Recorded
    <3> QED
      BY <1>22, <2>1, <3>2, <3>3 DEF Recorded
  <2>2. CASE ~task[a].resumes
    BY <1>22, <2>2, Ended DEF LaneTask, Recorded
  <2> QED
    BY <2>1, <2>2
<1>23. ASSUME NEW a \in Apps, Fail(a) PROVE Typed'
  BY <1>23, Ended DEF Fail, StopOrLeave, LaneMetros, Signal
<1>24. ASSUME NEW s \in Stoppers, NEW l \in LaneIds, BeginStop(s, l) PROVE Typed'
  BY <1>24 DEF BeginStop, Stored, Lane
<1>25. ASSUME NEW s \in Stoppers, EndStop(s) PROVE Typed'
  BY <1>25 DEF EndStop
<1>26. ASSUME NEW s \in Stoppers, RefuseStop(s) PROVE Typed'
  BY <1>26 DEF RefuseStop
<1>27. ASSUME NEW w \in Watchers, NEW l \in LaneIds, BeginWatch(w, l) PROVE Typed'
  BY <1>27 DEF BeginWatch, Stored, Lane
<1>28. ASSUME NEW w \in Watchers, EndWatch(w) PROVE Typed'
  BY <1>28 DEF EndWatch, Stored, Lane
<1>29. ASSUME NEW n \in Pids, Exit(n) PROVE Typed'
  BY <1>29 DEF Exit
<1>30. CASE UNCHANGED vars
  BY <1>30 DEF vars
<1> HIDE DEF Typed
<1> QED
  BY <1>2, <1>3, <1>4, <1>5, <1>6, <1>7, <1>8, <1>9, <1>10, <1>11, <1>12, <1>13, <1>14, <1>15, <1>16, <1>17, <1>18, <1>19, <1>20, <1>21, <1>22, <1>23, <1>24, <1>25, <1>26, <1>27, <1>28, <1>29, <1>30 DEF Next, TaskStep

(* What a step that stores no lane leaves of one: nothing, or the lane with *)
(* the same app, Simulator and Metro.                                       *)
StoreFades ==
    \A l \in LaneIds :
        \/ store'[l] = None
        \/ /\ Stored(l) /\ Stored(l)'
           /\ store'[l].app = store[l].app
           /\ store'[l].udid = store[l].udid
           /\ store'[l].pid = store[l].pid

(* Simulators stay exclusive while lanes and tasks keep theirs. *)
LEMMA SameDevices ==
    ASSUME DeviceExclusive,
           \A l \in LaneIds :
             /\ Stored(l)' <=> Stored(l)
             /\ Stored(l) => store'[l].app = store[l].app /\ store'[l].udid = store[l].udid,
           \A b \in Apps : task'[b].lane = task[b].lane /\ task'[b].udid = task[b].udid
    PROVE  DeviceExclusive'
  BY DEF DeviceExclusive

(* Steps of stops, watches and processes keep the invariant. *)
LEMMA FadeKeeps ==
    ASSUME LaneInv, Typed', task' = task, StoreFades, alive' \subseteq alive
    PROVE  LaneInv'
  <1> USE LaneAssumption DEF LaneInv, Typed, TypeOK, TaskShape, Task, Pcs, Starting, Returning, Stored, StoreFades
  <1>1. NewLaneOwned'
    BY DEF NewLaneOwned
  <1>2. LaneAsRead'
    BY DEF LaneAsRead
  <1>3. DeviceExclusive'
    BY DEF DeviceExclusive
  <1> QED
    BY <1>1, <1>2, <1>3

(* So does the end of a task. *)
LEMMA EndKeeps ==
    ASSUME LaneInv, Typed', NEW a \in Apps, End(a), StoreFades, alive' \subseteq alive
    PROVE  LaneInv'
  <1>1. task'[a] = Idle /\ \A b \in Apps \ {a} : task'[b] = task[b]
    BY Ended DEF LaneInv, Typed
  <1>2. /\ task'[a].pc \notin Starting \cup Returning
        /\ task'[a].udid = None /\ task'[a].lane = None
    BY <1>1 DEF Idle, Starting, Returning
  <1>3. \A b \in Apps : task[b].pc \in Starting \cup Returning => task[b].lane \in LaneIds
    BY DEF LaneInv, TypeOK, TaskShape, Task
  <1>4. LaneInv => NewLaneOwned /\ LaneAsRead /\ DeviceExclusive
    BY DEF LaneInv
  <1>5. NewLaneOwned'
    BY <1>1, <1>2, <1>3, <1>4, LaneAssumption DEF NewLaneOwned, StoreFades, Stored
  <1>6. LaneAsRead'
    BY <1>1, <1>2, <1>3, <1>4 DEF LaneAsRead, StoreFades, Stored
  <1>7. DeviceExclusive'
    BY <1>1, <1>2, <1>4 DEF DeviceExclusive, StoreFades, Stored
  <1> QED
    BY <1>5, <1>6, <1>7 DEF LaneInv, Typed

(* And a step of a task that stores nothing and keeps the task's lane,     *)
(* Simulator and the lane it read, or reads it again.                      *)
LEMMA MoveKeeps ==
    ASSUME LaneInv, Typed', NEW a \in Apps, store' = store,
           \A b \in Apps \ {a} : task'[b] = task[b],
           task'[a].lane = task[a].lane, task'[a].udid = task[a].udid,
           task[a].pc \notin {"storing", "recording"}, task'[a].pc # "recording",
           ~task[a].resumes => ~task'[a].resumes,
           task'[a].was = task[a].was \/ (Stored(task[a].lane) /\ task'[a].was = store[task[a].lane]),
           task'[a].pc \in {"exited", "revived", "respawned"} \/ (task'[a].was # None /\ task'[a].port # None)
             => task'[a].was.pid \notin alive',
           \A k \in alive' \ alive : UnusedPid(k)
    PROVE  LaneInv'
  <1>0. \A b \in Apps : task'[b].lane = task[b].lane /\ task'[b].udid = task[b].udid
    OBVIOUS
  <1>3. DeviceExclusive'
    BY <1>0, SameDevices DEF LaneInv, Stored
  <1> USE LaneAssumption DEF LaneInv, Typed, TypeOK, TaskShape, Task, Pcs, Starting, Returning, Stored
  <1>1. NewLaneOwned'
    BY DEF NewLaneOwned
  <1>2. LaneAsRead'
    <2>1. ASSUME NEW b \in Apps \ {a}, task[b].pc \in Returning,
                 task[b].pc \in {"exited", "revived", "respawned"} \/ (task[b].port # None /\ task[b].pc # "recording")
          PROVE  task[b].was.pid \notin alive'
      BY <2>1 DEF LaneAsRead, UnusedPid
    <2> QED
      BY <2>1 DEF LaneAsRead
  <1> QED
    BY <1>1, <1>2, <1>3

(* These are such steps. *)
LEMMA MoveSteps ==
  ASSUME LaneInv, Typed', NEW a \in Apps,
         \/ BeginStart(a) \/ FindNoLane(a) \/ ClaimPort(a) \/ Ensured(a) \/ KillOld(a)
         \/ \E p \in Ports : ProbePort(a, p)
         \/ \E n \in Pids : SpawnForStart(a, n) \/ Revive(a, n) \/ SpawnAgain(a, n)
  PROVE  LaneInv'
<1>0. task[a].pc \in Returning =>
        /\ task[a].was # None
        /\ task[a].pc \in {"exited", "revived", "respawned"} \/ (task[a].port # None /\ task[a].pc # "recording")
             => task[a].was.pid \notin alive
  BY DEF LaneInv, LaneAsRead, TaskShape
<1>1. /\ task \in [Apps -> Task]
      /\ task[a].pc \in {"idle", "looking", "reserved", "probed", "preparing"} => task[a].was = None
      /\ task[a].pc \in Returning => task[a].udid = None
  BY DEF LaneInv, TypeOK, TaskShape, Returning, Starting
<1> USE DEF Task, Returning, Starting, Pcs
<1>2. CASE BeginStart(a)
  <2>1. /\ task[a].was = None /\ task[a].pc \notin {"storing", "recording"}
        /\ task'[a].was = None /\ task'[a].pc \notin {"recording", "exited", "revived", "respawned"}
        /\ store' = store /\ task'[a].lane = task[a].lane /\ task'[a].udid = task[a].udid
        /\ task'[a].resumes = task[a].resumes
        /\ \A b \in Apps \ {a} : task'[b] = task[b]
    BY <1>1, <1>2 DEF BeginStart
  <2>2. \A k \in alive' \ alive : UnusedPid(k)
    BY <1>2 DEF BeginStart
  <2> QED
    BY <2>1, <2>2, MoveKeeps
<1>3. CASE FindNoLane(a)
  <2>1. /\ task[a].was = None /\ task[a].pc \notin {"storing", "recording"}
        /\ task'[a].was = None /\ task'[a].pc \notin {"recording", "exited", "revived", "respawned"}
        /\ store' = store /\ task'[a].lane = task[a].lane /\ task'[a].udid = task[a].udid
        /\ task'[a].resumes = task[a].resumes
        /\ \A b \in Apps \ {a} : task'[b] = task[b]
    BY <1>1, <1>3 DEF FindNoLane
  <2>2. \A k \in alive' \ alive : UnusedPid(k)
    BY <1>3 DEF FindNoLane
  <2> QED
    BY <2>1, <2>2, MoveKeeps
<1>4. ASSUME NEW p \in Ports, ProbePort(a, p) PROVE LaneInv'
  <2>1. /\ task[a].was = None /\ task[a].pc \notin {"storing", "recording"}
        /\ task'[a].was = None /\ task'[a].pc \notin {"recording", "exited", "revived", "respawned"}
        /\ store' = store /\ task'[a].lane = task[a].lane /\ task'[a].udid = task[a].udid
        /\ (~task[a].resumes => ~task'[a].resumes)
        /\ \A b \in Apps \ {a} : task'[b] = task[b]
    BY <1>1, <1>4 DEF StartTask, ProbePort
  <2>2. \A k \in alive' \ alive : UnusedPid(k)
    BY <1>4 DEF StartTask, ProbePort
  <2> QED
    BY <2>1, <2>2, MoveKeeps
<1>5. CASE ClaimPort(a)
  <2>1. /\ task[a].was = None /\ task[a].pc \notin {"storing", "recording"}
        /\ task'[a].was = None /\ task'[a].pc \notin {"recording", "exited", "revived", "respawned"}
        /\ store' = store /\ task'[a].lane = task[a].lane /\ task'[a].udid = task[a].udid
        /\ (~task[a].resumes => ~task'[a].resumes)
        /\ \A b \in Apps \ {a} : task'[b] = task[b]
    BY <1>1, <1>5 DEF StartTask, ClaimPort
  <2>2. \A k \in alive' \ alive : UnusedPid(k)
    BY <1>5 DEF StartTask, ClaimPort
  <2> QED
    BY <2>1, <2>2, MoveKeeps
<1>6. ASSUME NEW n \in Pids, SpawnForStart(a, n) PROVE LaneInv'
  <2>1. /\ task[a].was = None /\ task[a].pc \notin {"storing", "recording"}
        /\ task'[a].was = None /\ task'[a].pc \notin {"recording", "exited", "revived", "respawned"}
        /\ store' = store /\ task'[a].lane = task[a].lane /\ task'[a].udid = task[a].udid
        /\ (~task[a].resumes => ~task'[a].resumes)
        /\ \A b \in Apps \ {a} : task'[b] = task[b]
    BY <1>1, <1>6 DEF StartTask, SpawnForStart
  <2>2. \A k \in alive' \ alive : UnusedPid(k)
    BY <1>6 DEF StartTask, SpawnForStart, Spawn
  <2> QED
    BY <2>1, <2>2, MoveKeeps
<1>7. ASSUME NEW n \in Pids, Revive(a, n) PROVE LaneInv'
  <2>1. /\ task'[a].was = task[a].was /\ task'[a].pc # "recording" /\ task[a].pc \notin {"storing", "recording"}
        /\ store' = store /\ task'[a].lane = task[a].lane /\ task'[a].udid = task[a].udid
        /\ task'[a].port = task[a].port /\ (~task[a].resumes => ~task'[a].resumes)
        /\ \A b \in Apps \ {a} : task'[b] = task[b]
    BY <1>1, <1>7 DEF LaneTask, Revive
  <2>2. \A k \in alive' \ alive : UnusedPid(k)
    BY <1>7 DEF LaneTask, Revive, Spawn
  <2>3. task'[a].pc \in {"exited", "revived", "respawned"} \/ task'[a].port # None => task[a].was.pid \notin alive'
    BY <1>0, <1>1, <1>7 DEF LaneTask, Revive, Spawn, UnusedPid
  <2> QED
    BY <1>0, <2>1, <2>2, <2>3, MoveKeeps
<1>8. CASE Ensured(a)
  <2>1. /\ task'[a].was = task[a].was /\ task'[a].pc # "recording" /\ task[a].pc \notin {"storing", "recording"}
        /\ store' = store /\ task'[a].lane = task[a].lane /\ task'[a].udid = task[a].udid
        /\ task'[a].port = task[a].port /\ task'[a].resumes = task[a].resumes
        /\ \A b \in Apps \ {a} : task'[b] = task[b]
    BY <1>1, <1>8 DEF Ensured, RespawnPc
  <2>2. \A k \in alive' \ alive : UnusedPid(k)
    BY <1>8 DEF Ensured
  <2>3. task'[a].pc \in {"exited", "revived", "respawned"} \/ task'[a].port # None => task[a].was.pid \notin alive'
    BY <1>0, <1>1, <1>8 DEF Ensured, RespawnPc
  <2> QED
    BY <1>0, <2>1, <2>2, <2>3, MoveKeeps
<1>9. CASE KillOld(a)
  <2>1. /\ task'[a].was = task[a].was /\ task'[a].pc # "recording" /\ task[a].pc \notin {"storing", "recording"}
        /\ store' = store /\ task'[a].lane = task[a].lane /\ task'[a].udid = task[a].udid
        /\ task'[a].port = task[a].port /\ task'[a].resumes = task[a].resumes
        /\ \A b \in Apps \ {a} : task'[b] = task[b]
    BY <1>1, <1>9 DEF KillOld
  <2>2. \A k \in alive' \ alive : UnusedPid(k)
    BY <1>9 DEF KillOld, Signal
  <2>3. task'[a].pc \in {"exited", "revived", "respawned"} \/ task'[a].port # None => task[a].was.pid \notin alive'
    BY <1>0, <1>1, <1>9 DEF KillOld, Signal
  <2> QED
    BY <1>0, <2>1, <2>2, <2>3, MoveKeeps
<1>10. ASSUME NEW n \in Pids, SpawnAgain(a, n) PROVE LaneInv'
  <2>1. /\ task'[a].was = task[a].was /\ task'[a].pc # "recording" /\ task[a].pc \notin {"storing", "recording"}
        /\ store' = store /\ task'[a].lane = task[a].lane /\ task'[a].udid = task[a].udid
        /\ task'[a].port = task[a].port /\ task'[a].resumes = task[a].resumes
        /\ \A b \in Apps \ {a} : task'[b] = task[b]
    <3>1. /\ task[a].pc \in {"exiting", "exited"} /\ store' = store
          /\ task' = [task EXCEPT ![a] = LaneTask("respawned", task[a].lane, task[a].was,
                                                 task[a].port, n, task[a].resumes)]
      BY <1>10 DEF SpawnAgain, OldGone
    <3> QED
      BY <1>1, <3>1 DEF LaneTask
  <2>2. \A k \in alive' \ alive : UnusedPid(k)
    BY <1>10 DEF LaneTask, SpawnAgain, Spawn
  <2>3. task'[a].pc \in {"exited", "revived", "respawned"} \/ task'[a].port # None => task[a].was.pid \notin alive'
    BY <1>0, <1>1, <1>10 DEF LaneTask, SpawnAgain, Spawn, UnusedPid, OldGone
  <2> QED
    BY <1>0, <2>1, <2>2, <2>3, MoveKeeps
<1> QED
  BY <1>2, <1>3, <1>4, <1>5, <1>6, <1>7, <1>8, <1>9, <1>10

(* And the decision of a resume, when it turns no backend off. *)
LEMMA DecideKeeps ==
    ASSUME ~TurnsOff, LaneInv, Typed', NEW a \in Apps, Decide(a)
    PROVE  LaneInv'
  <1>1. CASE End(a)
    <2>1. store' = store /\ alive' = alive
      BY Zenon DEF Decide
    <2> QED
      BY <1>1, <2>1, EndKeeps DEF StoreFades, Stored
  <1>2. CASE ~End(a)
    <2>1. /\ Stored(task[a].lane) /\ task[a].pc = "deciding" /\ store' = store /\ alive' = alive
          /\ task' = [task EXCEPT ![a] = LaneTask("saving", task[a].lane, store[task[a].lane],
                                                 task[a].port, None, FALSE)]
      BY <1>2 DEF Decide
    <2>2. task[a].port # None => store[task[a].lane].pid \notin alive
      BY <2>1 DEF LaneInv, LaneAsRead, TypeOK, Stored, Pcs, Returning, Starting
    <2>3. /\ task'[a].was = store[task[a].lane] /\ task'[a].pc = "saving"
          /\ task'[a].lane = task[a].lane /\ task'[a].udid = task[a].udid
          /\ task'[a].port = task[a].port /\ ~task'[a].resumes
          /\ \A b \in Apps \ {a} : task'[b] = task[b]
      BY <2>1 DEF LaneTask, LaneInv, TypeOK, TaskShape, Task, Starting
    <2>6. alive' = alive
      BY <2>1
    <2>4. task'[a].port # None => task'[a].was.pid \notin alive'
      BY <2>2, <2>3, <2>6
    <2>5. task'[a].pc \notin {"exited", "revived", "respawned", "recording"} /\ task[a].pc \notin {"storing", "recording"}
      BY <2>1, <2>3
    <2> QED
      BY <2>1, <2>3, <2>4, <2>5, MoveKeeps, Zenon
  <1> QED
    BY <1>1, <1>2

(* Every step keeps the invariant of the Simulators. *)
LEMMA LaneInvStep == ASSUME ~TurnsOff, LaneInv, [Next]_vars PROVE LaneInv'
<1>0. Typed /\ Typed'
  BY TypedStep DEF LaneInv, Typed
<1>a. /\ NewLaneOwned /\ LaneAsRead /\ DeviceExclusive
      /\ \A b \in Apps : task[b].pc \in Starting \cup Returning => task[b].lane \in LaneIds
      /\ "recording" \in Returning \ Starting
      /\ {"ensuring", "inspecting", "halting"} \subseteq Returning \ Starting
  BY DEF LaneInv, TypeOK, TaskShape, Task, Starting, Returning, Pcs
<1> USE <1>0, LaneAssumption
    DEF LaneInv, Typed, TypeOK, TaskShape, Task, Pcs, Starting, Returning, Stored
<1>1. ASSUME NEW a \in Apps, BeginStart(a) PROVE LaneInv'
  BY <1>1, MoveSteps
<1>2. ASSUME NEW a \in Apps, FindNoLane(a) PROVE LaneInv'
  BY <1>2, MoveSteps
<1>3. ASSUME NEW a \in Apps, NEW u \in Udids, NEW l \in LaneIds, Reserve(a, u, l) PROVE LaneInv'
  <2>1. NewLaneOwned'
    BY <1>3 DEF StartTask, Reserve, NewLaneOwned, Conflict, UnusedLane
  <2>2. LaneAsRead'
    <3>1. /\ task'[a].pc = "reserved" /\ store' = store /\ alive' = alive
          /\ \A b \in Apps \ {a} : task'[b] = task[b]
      BY <1>3 DEF StartTask, Reserve
    <3> QED
      BY <3>1 DEF LaneAsRead
  <2>3. DeviceExclusive'
    BY <1>3 DEF StartTask, Reserve, DeviceExclusive, Conflict, UnusedLane
  <2> QED
    BY <2>1, <2>2, <2>3
<1>4. ASSUME NEW a \in Apps, NEW p \in Ports, ProbePort(a, p) PROVE LaneInv'
  BY <1>4, MoveSteps
<1>5. ASSUME NEW a \in Apps, ClaimPort(a) PROVE LaneInv'
  BY <1>5, MoveSteps
<1>6. ASSUME NEW a \in Apps, NEW n \in Pids, SpawnForStart(a, n) PROVE LaneInv'
  BY <1>6, MoveSteps
<1>7. ASSUME NEW a \in Apps, StoreLane(a) PROVE LaneInv'
  <2>1. NewLaneOwned'
    BY <1>7 DEF Serving, StoreLane, NewLaneOwned, NewLane, NewLaneOwned
  <2>2. LaneAsRead'
    BY <1>7 DEF Serving, StoreLane, LaneAsRead, NewLane, NewLaneOwned
  <2>3. DeviceExclusive'
    BY <1>7 DEF Serving, StoreLane, DeviceExclusive, NewLane, NewLaneOwned
  <2> QED
    BY <2>1, <2>2, <2>3
<1>8. ASSUME NEW a \in Apps, StartDone(a) PROVE LaneInv'
  BY <1>8, EndKeeps DEF StartDone, StoreFades
<1>9. ASSUME NEW a \in Apps, NEW l \in LaneIds, FindLane(a, l) PROVE LaneInv'
  <2>1. CASE End(a)
    BY <1>9, <2>1, EndKeeps DEF LaneTask, FindLane, StoreFades
  <2>2. CASE ~End(a)
    <3>1. /\ task'[a].was = store[l] /\ task'[a].lane = l /\ task'[a].pc = "deciding"
          /\ task'[a].udid = None /\ ~task'[a].resumes
          /\ \A b \in Apps \ {a} : task'[b] = task[b]
          /\ store' = store /\ alive' = alive /\ store[l] # None /\ store[l].app = a
      BY <1>9, <2>2 DEF LaneTask, FindLane
    <3>2. task'[a].port # None => store[l].pid \notin alive
      BY <1>9, <2>2 DEF LaneTask, FindLane
    <3>6. "deciding" \in Returning \ Starting
      OBVIOUS
    <3> HIDE <1>0 DEF LaneInv, Typed, TypeOK, TaskShape, Task, Pcs, Starting, Returning, Stored
    <3>3. NewLaneOwned'
      BY <1>a, <3>1, <3>6 DEF NewLaneOwned, Stored
    <3>4. LaneAsRead'
      BY <1>a, <3>1, <3>2, <3>6 DEF LaneAsRead, Stored
    <3>5. DeviceExclusive'
      BY <1>a, <3>1 DEF DeviceExclusive, Stored
    <3> QED
      BY <1>0, <3>3, <3>4, <3>5 DEF LaneInv, Typed
  <2> QED
    BY <2>1, <2>2
<1>10. ASSUME NEW a \in Apps, Decide(a) PROVE LaneInv'
  BY <1>10, DecideKeeps
<1>11. ASSUME NEW a \in Apps, NEW n \in Pids, Revive(a, n) PROVE LaneInv'
  BY <1>11, MoveSteps
<1>12. ASSUME NEW a \in Apps, RecordRevive(a) PROVE LaneInv'
  <2>1. CASE Stored(task[a].lane)
    <3>1. /\ task[a].lane \in LaneIds /\ Stored(task[a].lane) /\ task[a].pc \in Returning
          /\ store[task[a].lane] \in Lane /\ task[a].was \in Lane
          /\ task[a].fresh \in Pids /\ alive' = alive
      BY <1>12, <2>1 DEF Serving, RecordRevive, SameMetro
    <3>2. LET l == task[a].lane IN
          /\ store'[l] # None /\ store'[l].app = store[l].app /\ store'[l].udid = store[l].udid
          /\ store'[l].pid = task[a].fresh /\ \A k \in LaneIds \ {l} : store'[k] = store[k]
      <4>1. task[a].was.app = store[task[a].lane].app /\ task[a].was.udid = store[task[a].lane].udid
        BY <3>1, <2>1 DEF LaneAsRead
      <4>2. store' = [store EXCEPT ![task[a].lane] =
                      Serving(task[a].was, task[a].fresh)]
        BY <1>12, <2>1 DEF Serving, RecordRevive
      <4>3. store'[task[a].lane] \in Lane
        <5>1. Serving(task[a].was, task[a].fresh) \in Lane
          BY <3>1 DEF Lane, Serving
        <5> QED
          BY <3>1, <4>2, <5>1
      <4>4. store'[task[a].lane] # None
        BY <4>3, NoLaneAssumption
      <4>5. /\ store'[task[a].lane] = Serving(task[a].was, task[a].fresh)
            /\ \A k \in LaneIds \ {task[a].lane} : store'[k] = store[k]
        BY <3>1, <4>2
      <4> QED
        BY <4>1, <4>4, <4>5 DEF Serving
    <3>3. /\ task'[a].pc = "recording" /\ task'[a].lane = task[a].lane
          /\ task'[a].was.app = a /\ task'[a].was.udid = store[task[a].lane].udid
          /\ task'[a].udid = task[a].udid /\ task'[a].fresh = task[a].fresh
          /\ task'[a].resumes = task[a].resumes
          /\ \A b \in Apps \ {a} : task'[b] = task[b]
      BY <1>12, <2>1, <3>1, <3>2 DEF Serving, RecordRevive, LaneAsRead
    <3>4. NewLaneOwned'
      <4> HIDE <1>0 DEF LaneInv, Typed, TypeOK, TaskShape, Task, Pcs, Starting, Returning, Stored
      <4> QED
        BY <1>a, <3>1, <3>2, <3>3 DEF NewLaneOwned, Stored
    <3>5. LaneAsRead'
      BY <3>1, <3>2, <3>3 DEF LaneAsRead
    <3>6. DeviceExclusive'
      <4>1. \A l \in LaneIds :
              /\ store'[l] # None <=> store[l] # None
              /\ store[l] # None => store'[l].app = store[l].app /\ store'[l].udid = store[l].udid
        BY <2>1, <3>1, <3>2
      <4>2. \A b \in Apps : task'[b].lane = task[b].lane /\ task'[b].udid = task[b].udid
        BY <3>3
      <4> QED
        BY <4>1, <4>2, SameDevices
    <3> QED
      BY <3>4, <3>5, <3>6
  <2>2. CASE ~Stored(task[a].lane)
    BY <1>12, <2>2, EndKeeps DEF Serving, RecordRevive, StopOrLeave, LaneMetros, Signal, StoreFades
  <2> QED
    BY <2>1, <2>2
<1>13. ASSUME NEW a \in Apps, ResumeRunning(a) PROVE LaneInv'
  <2>1. CASE End(a)
    BY <1>13, <2>1, EndKeeps DEF ResumeRunning, StoreFades
  <2>2. CASE ~End(a)
    <3>1. /\ task[a].pc = "saving" /\ task[a].port = None /\ store' = store /\ alive' = alive
          /\ task' = [task EXCEPT ![a].pc = "inspecting"]
      BY <1>13, <2>2 DEF ResumeRunning
    <3>2. /\ task'[a].pc = "inspecting" /\ task'[a].was = task[a].was
          /\ task'[a].lane = task[a].lane /\ task'[a].udid = task[a].udid
          /\ task'[a].port = None /\ task'[a].resumes = task[a].resumes
          /\ \A b \in Apps \ {a} : task'[b] = task[b]
      BY <3>1
    <3> HIDE DEF LaneInv, Typed, TypeOK, TaskShape, Task, Pcs, Starting, Returning, Stored
    <3> QED
      BY <1>0, <3>1, <3>2, MoveKeeps
  <2> QED
    BY <2>1, <2>2
<1>14. ASSUME NEW a \in Apps, NEW l \in LaneIds,
             NEW step \in {"ensuring", "inspecting", "halting"}, BeginRestart(a, l, step) PROVE LaneInv'
  <2>1. task' = [task EXCEPT ![a] = LaneTask(step, l, store[l], None, None, FALSE)]
    BY <1>14 DEF BeginRestart
  <2>2. /\ task'[a].pc = step /\ task'[a].was = store[l] /\ task'[a].lane = l
        /\ task'[a].port = None /\ task'[a].udid = None /\ ~task'[a].resumes
        /\ \A b \in Apps \ {a} : task'[b] = task[b]
    BY <2>1 DEF LaneTask
  <2>3. Stored(l) /\ store[l].app = a /\ store' = store /\ alive' = alive
    BY <1>14 DEF BeginRestart
  <2>4. step \in Returning \ Starting /\ step \notin {"exited", "revived", "respawned", "recording"}
    BY <1>a
  <2> HIDE <1>0 DEF LaneInv, Typed, TypeOK, TaskShape, Task, Pcs, Starting, Returning, Stored
  <2>5. NewLaneOwned'
    BY <1>a, <2>2, <2>3, <2>4 DEF NewLaneOwned, Stored
  <2>6. LaneAsRead'
    BY <1>a, <2>2, <2>3, <2>4 DEF LaneAsRead, Stored
  <2>7. DeviceExclusive'
    BY <1>a, <2>2, <2>3 DEF DeviceExclusive, Stored
  <2> QED
    BY <1>0, <2>5, <2>6, <2>7 DEF LaneInv, Typed
<1>15. ASSUME NEW a \in Apps, Ensured(a) PROVE LaneInv'
  BY <1>15, MoveSteps
<1>16. ASSUME NEW a \in Apps, Halt(a) PROVE LaneInv'
  <2>1. StoreFades
    <3>1. CASE SameMetro(a)
      <4>1. Stored(task[a].lane) /\ task[a].lane \in LaneIds /\ store[task[a].lane] \in Lane
        BY <1>16, <3>1 DEF Halt, SameMetro
      <4> QED
        BY <1>16, <3>1, <4>1 DEF Halt, StoreFades, Lane
    <3> QED
      BY <1>16, <3>1 DEF Halt, StoreFades
  <2> QED
    BY <1>16, <2>1, EndKeeps DEF Halt, Signal
<1>17. ASSUME NEW a \in Apps, KillOld(a) PROVE LaneInv'
  BY <1>17, MoveSteps
<1>18. ASSUME NEW a \in Apps, NEW n \in Pids, SpawnAgain(a, n) PROVE LaneInv'
  BY <1>18, MoveSteps
<1>19. ASSUME NEW a \in Apps, RespawnLost(a) PROVE LaneInv'
  BY <1>19, EndKeeps DEF RespawnLost, StoreFades
<1>20. ASSUME NEW a \in Apps, RecordRespawn(a) PROVE LaneInv'
  <2>1. CASE SameMetro(a)
    <3>1. /\ task[a].lane \in LaneIds /\ Stored(task[a].lane) /\ task[a].pc \in Returning
          /\ store[task[a].lane] \in Lane /\ task[a].was \in Lane
          /\ task[a].fresh \in Pids /\ alive' = alive
      BY <1>20, <2>1 DEF LaneTask, Serving, RecordRespawn, SameMetro
    <3>2. LET l == task[a].lane IN
          /\ store'[l] # None /\ store'[l].app = store[l].app /\ store'[l].udid = store[l].udid
          /\ store'[l].pid = task[a].fresh /\ \A k \in LaneIds \ {l} : store'[k] = store[k]
      <4>1. store[task[a].lane].app = a
        BY <3>1, <2>1 DEF LaneAsRead
      <4>2. store' = [store EXCEPT ![task[a].lane] = Serving(store[task[a].lane], task[a].fresh)]
        BY <1>20, <2>1 DEF RecordRespawn
      <4>3. store'[task[a].lane] \in Lane
        <5>1. Serving(store[task[a].lane], task[a].fresh) \in Lane
          BY <3>1 DEF Lane, Serving
        <5> QED
          BY <3>1, <4>2, <5>1
      <4>4. store'[task[a].lane] # None
        BY <4>3, NoLaneAssumption
      <4>5. /\ store'[task[a].lane] = Serving(store[task[a].lane], task[a].fresh)
            /\ \A k \in LaneIds \ {task[a].lane} : store'[k] = store[k]
        BY <3>1, <4>2
      <4> QED
        BY <4>1, <4>4, <4>5 DEF Serving
    <3>3. /\ task'[a].pc = "recording" /\ task'[a].lane = task[a].lane
          /\ task'[a].was.app = a /\ task'[a].was.udid = store[task[a].lane].udid
          /\ task'[a].udid = task[a].udid /\ task'[a].fresh = task[a].fresh
          /\ task'[a].resumes = task[a].resumes
          /\ \A b \in Apps \ {a} : task'[b] = task[b]
      BY <1>20, <2>1, <3>1, <3>2 DEF LaneTask, Serving, RecordRespawn, LaneAsRead
    <3>4. NewLaneOwned'
      <4> HIDE <1>0 DEF LaneInv, Typed, TypeOK, TaskShape, Task, Pcs, Starting, Returning, Stored
      <4> QED
        BY <1>a, <3>1, <3>2, <3>3 DEF NewLaneOwned, Stored
    <3>5. LaneAsRead'
      BY <3>1, <3>2, <3>3 DEF LaneAsRead
    <3>6. DeviceExclusive'
      <4>1. \A l \in LaneIds :
              /\ store'[l] # None <=> store[l] # None
              /\ store[l] # None => store'[l].app = store[l].app /\ store'[l].udid = store[l].udid
        BY <2>1, <3>1, <3>2
      <4>2. \A b \in Apps : task'[b].lane = task[b].lane /\ task'[b].udid = task[b].udid
        BY <3>3
      <4> QED
        BY <4>1, <4>2, SameDevices
    <3> QED
      BY <3>4, <3>5, <3>6
  <2>2. CASE ~SameMetro(a)
    BY <1>20, <2>2, EndKeeps DEF LaneTask, Serving, RecordRespawn, StopOrLeave, LaneMetros, Signal, StoreFades
  <2> QED
    BY <2>1, <2>2
<1>21. ASSUME NEW a \in Apps, Recorded(a) PROVE LaneInv'
  <2>1. ~task[a].resumes
    BY <1>21 DEF LaneTask, Recorded, LaneAsRead
  <2> QED
    BY <1>21, <2>1, EndKeeps DEF LaneTask, Recorded, StoreFades
<1>22. ASSUME NEW a \in Apps, Fail(a) PROVE LaneInv'
  BY <1>22, EndKeeps DEF Fail, StopOrLeave, StoreFades, Signal
<1>23. ASSUME NEW s \in Stoppers, NEW l \in LaneIds, BeginStop(s, l) PROVE LaneInv'
  BY <1>23, FadeKeeps DEF BeginStop, StoreFades, Signal
<1>24. ASSUME NEW s \in Stoppers, EndStop(s) PROVE LaneInv'
  BY <1>24, FadeKeeps DEF EndStop, StoreFades, Signal
<1>25. ASSUME NEW s \in Stoppers, RefuseStop(s) PROVE LaneInv'
  BY <1>25, FadeKeeps DEF RefuseStop, StoreFades
<1>26. ASSUME NEW w \in Watchers, NEW l \in LaneIds, BeginWatch(w, l) PROVE LaneInv'
  BY <1>26, FadeKeeps DEF BeginWatch, StoreFades
<1>27. ASSUME NEW w \in Watchers, EndWatch(w) PROVE LaneInv'
  <2>1. StoreFades
    BY <1>27 DEF EndWatch, StoreFades, Watch, Lane
  <2> QED
    BY <1>27, <2>1, FadeKeeps DEF EndWatch
<1>28. ASSUME NEW n \in Pids, Exit(n) PROVE LaneInv'
  BY <1>28, FadeKeeps DEF Exit, StoreFades
<1>29. CASE UNCHANGED vars
  BY <1>29, FadeKeeps DEF vars, StoreFades
<1> HIDE <1>0 DEF LaneInv, Typed, TypeOK, TaskShape, Task, Pcs, Starting, Returning, Stored
<1> QED
  BY <1>1, <1>2, <1>3, <1>4, <1>5, <1>6, <1>7, <1>8, <1>9, <1>10, <1>11, <1>12, <1>13, <1>14, <1>15, <1>16, <1>17, <1>18, <1>19, <1>20, <1>21, <1>22, <1>23, <1>24, <1>25, <1>26, <1>27, <1>28, <1>29 DEF Next, TaskStep

Running == alive \ (signalled \cup strays)

(* A Metro whose stop is not repeated is on its way out, a stray, or still  *)
(* a lane's.                                                                *)
LEMMA LeaveOrNot ==
    ASSUME NEW n, StopOrLeave(n)
    PROVE  n \notin Running' \/ \E l \in LaneIds : Stored(l)' /\ store'[l].pid = n
  BY DEF StopOrLeave, Signal, LaneMetros, Running

(* A task's step leaves no Metro behind if a Metro that starts is the      *)
(* task's, every Metro a lane loses has been stopped, and so has one the   *)
(* task lets go of unless a lane has it.                                   *)
LEMMA TaskKeepsMetros ==
    ASSUME FreshKept, NoOrphan, NEW a \in Apps,
           \A b \in Apps \ {a} : task'[b] = task[b],
           \A n \in Running' \ Running : task'[a].fresh = n /\ UnusedPid(n),
           \A l \in LaneIds : Stored(l) =>
             \/ Stored(l)' /\ store'[l].pid = store[l].pid
             \/ store[l].pid \notin Running'
             \/ \E k \in LaneIds : Stored(k)' /\ store'[k].pid = store[l].pid,
           \A b \in Apps \ {a} :
             (task[b].pc \in {"storing", "recording"} /\ Stored(task[b].lane))
               => store'[task[b].lane] # None,
           \/ task'[a].fresh = task[a].fresh
           \/ task[a].fresh = None
           \/ task[a].fresh \notin Running'
           \/ \E l \in LaneIds : Stored(l)' /\ store'[l].pid = task[a].fresh,
           task'[a].pc \in {"storing", "recording"}
             => store'[task'[a].lane] # None \/ task'[a].fresh \notin Running',
           None \notin Running
    PROVE  FreshKept' /\ NoOrphan'
  <1>1. FreshKept'
    <2>1. ASSUME NEW b \in Apps \ {a}, task[b].pc \in {"storing", "recording"}
          PROVE  store'[task[b].lane] # None \/ task[b].fresh \notin Running'
      BY <2>1 DEF FreshKept, UnusedPid, Running, Stored
    <2> QED
      BY <2>1 DEF FreshKept, Running, Stored
  <1>2. NoOrphan'
    <2>1. ASSUME NEW n \in Running' PROVE \/ \E l \in LaneIds : Stored(l)' /\ store'[l].pid = n
                                         \/ \E b \in Apps : task'[b].fresh = n
      <3>1. CASE n \notin Running
        BY <2>1, <3>1
      <3>2. CASE \E l \in LaneIds : Stored(l) /\ store[l].pid = n
        BY <2>1, <3>2
      <3>3. CASE n \in Running /\ \E b \in Apps : task[b].fresh = n
        BY <2>1, <3>3
      <3> QED
        BY <3>1, <3>2, <3>3 DEF NoOrphan, Running
    <2> QED
      BY <2>1 DEF NoOrphan, Running, Stored
  <1> QED
    BY <1>1, <1>2

(* So it is with the steps that spawn, store and stop nothing. *)
LEMMA QuietKeepsMetros ==
    ASSUME FreshKept, NoOrphan, NEW a \in Apps, None \notin Running,
           \A b \in Apps \ {a} : task'[b] = task[b],
           store' = store, Running' \subseteq Running,
           task'[a].fresh = task[a].fresh \/ task[a].fresh = None,
           task'[a].pc \notin {"storing", "recording"}
    PROVE  FreshKept' /\ NoOrphan'
  BY TaskKeepsMetros DEF Stored

(* Every step keeps the invariant of the Metros. *)
LEMMA InvStep == ASSUME ~TurnsOff, Inv, [Next]_vars PROVE Inv'
<1>0. /\ LaneInv' /\ NewLaneOwned /\ LaneAsRead /\ FreshKept /\ NoOrphan
      /\ task \in [Apps -> Task] /\ store \in [LaneIds -> Lane \cup {None}]
      /\ store' \in [LaneIds -> Lane \cup {None}]
      /\ TaskShape /\ alive \subseteq Pids /\ None \notin Running
      /\ stops \in [Stoppers -> Stop \cup {None}]
      /\ watches \in [Watchers -> Watch \cup {None}]
  BY LaneInvStep, LaneAssumption DEF Inv, LaneInv, TypeOK, Running
<1>a. \A b \in Apps : task[b].pc \in {"storing", "recording"} => task[b].lane \in LaneIds
  BY <1>0 DEF TaskShape, Task, Starting, Returning, Pcs
<1> USE ~TurnsOff, LaneAssumption DEF Task, TaskShape
<1>1. ASSUME NEW a \in Apps, BeginStart(a) PROVE FreshKept' /\ NoOrphan'
  <2>1. /\ store' = store /\ \A b \in Apps \ {a} : task'[b] = task[b]
        /\ task[a].fresh = None /\ task'[a].pc \notin {"storing", "recording"}
    BY <1>0, <1>1 DEF BeginStart, End, Idle
  <2>2. Running' \subseteq Running
    BY <1>1 DEF BeginStart, Running
  <2> QED
    BY <1>0, <2>1, <2>2, QuietKeepsMetros
<1>2. ASSUME NEW a \in Apps, FindNoLane(a) PROVE FreshKept' /\ NoOrphan'
  <2>1. /\ store' = store /\ \A b \in Apps \ {a} : task'[b] = task[b]
        /\ task[a].fresh = None /\ task'[a].pc \notin {"storing", "recording"}
    BY <1>0, <1>2 DEF FindNoLane, End, Idle
  <2>2. Running' \subseteq Running
    BY <1>2 DEF FindNoLane, Running
  <2> QED
    BY <1>0, <2>1, <2>2, QuietKeepsMetros
<1>3. ASSUME NEW a \in Apps, NEW u \in Udids, NEW l \in LaneIds, Reserve(a, u, l) PROVE FreshKept' /\ NoOrphan'
  <2>1. /\ store' = store /\ \A b \in Apps \ {a} : task'[b] = task[b]
        /\ task[a].fresh = None /\ task'[a].pc \notin {"storing", "recording"}
    BY <1>0, <1>3 DEF StartTask, Reserve, End, Idle
  <2>2. Running' \subseteq Running
    BY <1>3 DEF StartTask, Reserve, Running
  <2> QED
    BY <1>0, <2>1, <2>2, QuietKeepsMetros
<1>4. ASSUME NEW a \in Apps, NEW p \in Ports, ProbePort(a, p) PROVE FreshKept' /\ NoOrphan'
  <2>1. /\ store' = store /\ \A b \in Apps \ {a} : task'[b] = task[b]
        /\ task[a].fresh = None /\ task'[a].pc \notin {"storing", "recording"}
    BY <1>0, <1>4 DEF StartTask, ProbePort, End, Idle
  <2>2. Running' \subseteq Running
    BY <1>4 DEF StartTask, ProbePort, Running
  <2> QED
    BY <1>0, <2>1, <2>2, QuietKeepsMetros
<1>5. ASSUME NEW a \in Apps, ClaimPort(a) PROVE FreshKept' /\ NoOrphan'
  <2>1. /\ store' = store /\ \A b \in Apps \ {a} : task'[b] = task[b]
        /\ task[a].fresh = None /\ task'[a].pc \notin {"storing", "recording"}
    BY <1>0, <1>5 DEF StartTask, ClaimPort, End, Idle
  <2>2. Running' \subseteq Running
    BY <1>5 DEF StartTask, ClaimPort, Running
  <2> QED
    BY <1>0, <2>1, <2>2, QuietKeepsMetros
<1>6. ASSUME NEW a \in Apps, NEW n \in Pids, SpawnForStart(a, n) PROVE FreshKept' /\ NoOrphan'
  <2>1. /\ store' = store /\ \A b \in Apps \ {a} : task'[b] = task[b]
        /\ task[a].fresh = None /\ task'[a].fresh = n /\ task'[a].pc \notin {"storing", "recording"}
    BY <1>0, <1>6 DEF StartTask, SpawnForStart, OldGone
  <2>2. Running' \subseteq Running \cup {n} /\ UnusedPid(n)
    BY <1>6 DEF StartTask, SpawnForStart, Spawn, Running
  <2> QED
    BY <1>0, <2>1, <2>2, TaskKeepsMetros DEF Stored
<1>7. ASSUME NEW a \in Apps, StoreLane(a) PROVE FreshKept' /\ NoOrphan'
  <2>1. /\ task'[a].lane = task[a].lane /\ task'[a].fresh = task[a].fresh
        /\ \A b \in Apps \ {a} : task'[b] = task[b]
    BY <1>0, <1>7 DEF Serving, StoreLane
  <2>2. /\ task[a].lane \in LaneIds /\ ~Stored(task[a].lane) /\ NewLane(a) \in Lane
        /\ \A l \in LaneIds \ {task[a].lane} : store'[l] = store[l]
        /\ store'[task[a].lane] = NewLane(a)
    BY <1>0, <1>7 DEF Serving, StoreLane, NewLaneOwned, Starting, NewLane, Lane
  <2>3. Running' = Running
    BY <1>7 DEF Serving, StoreLane, Running
  <2>4. store'[task'[a].lane] # None
    BY <2>1, <2>2, NoLaneAssumption
  <2>5. \A l \in LaneIds : Stored(l) => store'[l] # None /\ store'[l].pid = store[l].pid
    BY <2>2 DEF Stored
  <2>6. \A b \in Apps \ {a} :
          (task[b].pc \in {"storing", "recording"} /\ Stored(task[b].lane))
            => store'[task[b].lane] # None
    BY <1>a, <2>5
  <2> HIDE DEF Task, TaskShape
  <2> QED
    BY <1>0, <2>1, <2>3, <2>4, <2>5, <2>6, TaskKeepsMetros DEF Stored
<1>8. ASSUME NEW a \in Apps, StartDone(a) PROVE FreshKept' /\ NoOrphan'
  <2>1. /\ store' = store /\ Running' = Running /\ task'[a] = Idle
        /\ \A b \in Apps \ {a} : task'[b] = task[b]
    BY <1>0, <1>8 DEF StartDone, End, Running
  <2>2. task[a].fresh \notin Running \/ \E l \in LaneIds : Stored(l) /\ store[l].pid = task[a].fresh
    BY <1>0, <1>8 DEF StartDone, FreshKept, NewLaneOwned, Starting, Running
  <2> QED
    BY <1>0, <2>1, <2>2, TaskKeepsMetros DEF Stored, Idle
<1>9. ASSUME NEW a \in Apps, NEW l \in LaneIds, FindLane(a, l) PROVE FreshKept' /\ NoOrphan'
  <2>1. /\ store' = store /\ \A b \in Apps \ {a} : task'[b] = task[b]
        /\ task[a].fresh = None /\ task'[a].pc \notin {"storing", "recording"}
    BY <1>0, <1>9 DEF LaneTask, FindLane, End, Idle
  <2>2. Running' \subseteq Running
    BY <1>9 DEF LaneTask, FindLane, Running
  <2> QED
    BY <1>0, <2>1, <2>2, QuietKeepsMetros
<1>10. ASSUME NEW a \in Apps, Decide(a) PROVE FreshKept' /\ NoOrphan'
  <2>1. /\ store' = store /\ \A b \in Apps \ {a} : task'[b] = task[b]
        /\ task[a].fresh = None /\ task'[a].pc \notin {"storing", "recording"}
    BY <1>0, <1>10 DEF LaneTask, Decide, RespawnPc, End, Idle
  <2>2. Running' \subseteq Running
    BY <1>10 DEF LaneTask, Decide, Running
  <2> QED
    BY <1>0, <2>1, <2>2, QuietKeepsMetros
<1>11. ASSUME NEW a \in Apps, NEW n \in Pids, Revive(a, n) PROVE FreshKept' /\ NoOrphan'
  <2>1. /\ store' = store /\ \A b \in Apps \ {a} : task'[b] = task[b]
        /\ task[a].fresh = None /\ task'[a].fresh = n /\ task'[a].pc \notin {"storing", "recording"}
    BY <1>0, <1>11 DEF LaneTask, Revive, OldGone
  <2>2. Running' \subseteq Running \cup {n} /\ UnusedPid(n)
    BY <1>11 DEF LaneTask, Revive, Spawn, Running
  <2> QED
    BY <1>0, <2>1, <2>2, TaskKeepsMetros DEF Stored
<1>12. ASSUME NEW a \in Apps, RecordRevive(a) PROVE FreshKept' /\ NoOrphan'
  <2>1. /\ \A b \in Apps \ {a} : task'[b] = task[b]
        /\ task[a].lane \in LaneIds /\ task[a].fresh \in Pids
    BY <1>0, <1>12 DEF Serving, RecordRevive, End, Starting, Returning, Pcs
  <2>2. Running' \subseteq Running
    BY <1>12 DEF Serving, RecordRevive, StopOrLeave, LaneMetros, Signal, Running
  <2>3. CASE Stored(task[a].lane)
    <3>1. /\ task'[a].fresh = task[a].fresh /\ task'[a].lane = task[a].lane
          /\ \A l \in LaneIds \ {task[a].lane} : store'[l] = store[l]
      BY <1>0, <1>12, <2>1, <2>3 DEF Serving, RecordRevive
    <3>2. store'[task[a].lane] # None
      <4>1. task[a].was \in Lane
        BY <1>0, <1>12, <2>3 DEF Serving, RecordRevive, Stored, SameMetro, Returning, Starting, Pcs
      <4>2. Serving(task[a].was, task[a].fresh) \in Lane
        BY <2>1, <4>1 DEF Lane, Serving
      <4>3. store' = [store EXCEPT ![task[a].lane] = Serving(task[a].was, task[a].fresh)]
        BY <1>12, <2>3 DEF Serving, RecordRevive
      <4> QED
        BY <1>0, <2>1, <4>2, <4>3, NoLaneAssumption
    <3>3. store[task[a].lane].pid \notin Running'
      BY <1>0, <1>12, <2>2, <2>3 DEF Serving, RecordRevive, LaneAsRead, Running, SameMetro, Returning, Starting, Pcs
    <3>4. \A b \in Apps \ {a} :
            (task[b].pc \in {"storing", "recording"} /\ Stored(task[b].lane))
              => store'[task[b].lane] # None
      BY <1>a, <3>1, <3>2 DEF Stored
    <3> QED
      BY <1>0, <2>1, <2>2, <3>1, <3>2, <3>3, <3>4, TaskKeepsMetros DEF Stored
  <2>4. CASE ~Stored(task[a].lane)
    <3>1. task'[a] = Idle /\ store' = store
      BY <1>0, <1>12, <2>4 DEF Serving, RecordRevive, End
    <3>2. \/ task[a].fresh \notin Running'
          \/ \E l \in LaneIds : Stored(l)' /\ store'[l].pid = task[a].fresh
      BY LeaveOrNot, <1>12, <2>4 DEF RecordRevive
    <3> QED
      BY <1>0, <2>1, <2>2, <3>1, <3>2, TaskKeepsMetros DEF Stored, Idle
  <2> QED
    BY <2>3, <2>4
<1>13. ASSUME NEW a \in Apps, ResumeRunning(a) PROVE FreshKept' /\ NoOrphan'
  <2>1. /\ store' = store /\ \A b \in Apps \ {a} : task'[b] = task[b]
        /\ task[a].fresh = None /\ task'[a].pc \notin {"storing", "recording"}
    BY <1>0, <1>13 DEF ResumeRunning, End, Idle
  <2>2. Running' \subseteq Running
    BY <1>13 DEF ResumeRunning, Running
  <2> QED
    BY <1>0, <2>1, <2>2, QuietKeepsMetros
<1>14. ASSUME NEW a \in Apps, NEW l \in LaneIds,
             NEW step \in {"ensuring", "inspecting", "halting"}, BeginRestart(a, l, step) PROVE FreshKept' /\ NoOrphan'
  <2>1. /\ store' = store /\ \A b \in Apps \ {a} : task'[b] = task[b]
        /\ task[a].fresh = None /\ task'[a].pc \notin {"storing", "recording"}
    BY <1>0, <1>14 DEF LaneTask, BeginRestart, End, Idle
  <2>2. Running' \subseteq Running
    BY <1>14 DEF LaneTask, BeginRestart, Running
  <2> QED
    BY <1>0, <2>1, <2>2, QuietKeepsMetros
<1>15. ASSUME NEW a \in Apps, Ensured(a) PROVE FreshKept' /\ NoOrphan'
  <2>1. /\ store' = store /\ \A b \in Apps \ {a} : task'[b] = task[b]
        /\ task[a].fresh = None /\ task'[a].pc \notin {"storing", "recording"}
    BY <1>0, <1>15 DEF Ensured, RespawnPc, End, Idle
  <2>2. Running' \subseteq Running
    BY <1>15 DEF Ensured, Running
  <2> QED
    BY <1>0, <2>1, <2>2, QuietKeepsMetros
<1>16. ASSUME NEW a \in Apps, Halt(a) PROVE FreshKept' /\ NoOrphan'
  <2>1. /\ task'[a] = Idle /\ task[a].fresh = None
        /\ \A b \in Apps \ {a} : task'[b] = task[b]
    BY <1>0, <1>16 DEF Halt, End
  <2>2. Running' \subseteq Running
    BY <1>16 DEF Halt, Signal, Running
  <2>3. \A l \in LaneIds : Stored(l) => store'[l] # None /\ store'[l].pid = store[l].pid
    <3>1. CASE SameMetro(a)
      <4>1. task[a].lane \in LaneIds /\ store[task[a].lane] \in Lane
        BY <1>0, <1>16, <3>1 DEF Halt, SameMetro, Stored
      <4>2. [store[task[a].lane] EXCEPT !.live = FALSE] \in Lane
        BY <4>1 DEF Lane
      <4>3. store' = [store EXCEPT ![task[a].lane] = [store[task[a].lane] EXCEPT !.live = FALSE]]
        BY <1>16, <3>1 DEF Halt
      <4> QED
        BY <1>0, <4>1, <4>2, <4>3, NoLaneAssumption DEF Stored, Lane
    <3> QED
      BY <1>16, <3>1 DEF Halt, Stored
  <2>4. \A b \in Apps \ {a} :
          (task[b].pc \in {"storing", "recording"} /\ Stored(task[b].lane))
            => store'[task[b].lane] # None
    BY <1>a, <2>3
  <2>5. Idle.fresh = None /\ Idle.pc = "idle"
    BY DEF Idle
  <2> HIDE DEF Task, TaskShape
  <2> QED
    BY <1>0, <2>1, <2>2, <2>3, <2>4, <2>5, TaskKeepsMetros DEF Stored
<1>17. ASSUME NEW a \in Apps, KillOld(a) PROVE FreshKept' /\ NoOrphan'
  <2>1. /\ store' = store /\ \A b \in Apps \ {a} : task'[b] = task[b]
        /\ task[a].fresh = None /\ task'[a].pc \notin {"storing", "recording"}
    BY <1>0, <1>17 DEF KillOld, Signal, End, Idle
  <2>2. Running' \subseteq Running
    BY <1>17 DEF KillOld, Running, Signal
  <2> QED
    BY <1>0, <2>1, <2>2, QuietKeepsMetros
<1>18. ASSUME NEW a \in Apps, NEW n \in Pids, SpawnAgain(a, n) PROVE FreshKept' /\ NoOrphan'
  <2>1. /\ store' = store /\ \A b \in Apps \ {a} : task'[b] = task[b]
        /\ task[a].fresh = None /\ task'[a].fresh = n /\ task'[a].pc \notin {"storing", "recording"}
    BY <1>0, <1>18 DEF LaneTask, SpawnAgain, OldGone
  <2>2. Running' \subseteq Running \cup {n} /\ UnusedPid(n)
    BY <1>18 DEF LaneTask, SpawnAgain, Spawn, Running
  <2> QED
    BY <1>0, <2>1, <2>2, TaskKeepsMetros DEF Stored
<1>19. ASSUME NEW a \in Apps, RespawnLost(a) PROVE FreshKept' /\ NoOrphan'
  <2>1. /\ store' = store /\ \A b \in Apps \ {a} : task'[b] = task[b]
        /\ task[a].fresh = None /\ task'[a].pc \notin {"storing", "recording"}
    BY <1>0, <1>19 DEF RespawnLost, OldGone, End, Idle
  <2>2. Running' \subseteq Running
    BY <1>19 DEF RespawnLost, Running
  <2> QED
    BY <1>0, <2>1, <2>2, QuietKeepsMetros
<1>20. ASSUME NEW a \in Apps, RecordRespawn(a) PROVE FreshKept' /\ NoOrphan'
  <2>1. /\ \A b \in Apps \ {a} : task'[b] = task[b]
        /\ task[a].lane \in LaneIds /\ task[a].fresh \in Pids
    BY <1>0, <1>20 DEF LaneTask, Serving, RecordRespawn, End, Starting, Returning, Pcs
  <2>2. Running' \subseteq Running
    BY <1>20 DEF LaneTask, Serving, RecordRespawn, StopOrLeave, LaneMetros, Signal, Running
  <2>3. CASE SameMetro(a)
    <3>1. /\ task'[a].fresh = task[a].fresh /\ task'[a].lane = task[a].lane
          /\ \A l \in LaneIds \ {task[a].lane} : store'[l] = store[l]
      BY <1>0, <1>20, <2>1, <2>3 DEF LaneTask, Serving, RecordRespawn
    <3>2. store'[task[a].lane] # None
      <4>1. store[task[a].lane] \in Lane
        BY <1>0, <1>20, <2>3 DEF LaneTask, Serving, RecordRespawn, Stored, SameMetro, Returning, Starting, Pcs
      <4>2. Serving(store[task[a].lane], task[a].fresh) \in Lane
        BY <2>1, <4>1 DEF Lane, Serving
      <4>3. store' = [store EXCEPT ![task[a].lane] = Serving(store[task[a].lane], task[a].fresh)]
        BY <1>20, <2>3 DEF LaneTask, Serving, RecordRespawn
      <4> QED
        BY <1>0, <2>1, <4>2, <4>3, NoLaneAssumption
    <3>3. store[task[a].lane].pid \notin Running'
      BY <1>0, <1>20, <2>2, <2>3 DEF LaneTask, Serving, RecordRespawn, LaneAsRead, Running, SameMetro, Returning, Starting, Pcs
    <3>4. \A b \in Apps \ {a} :
            (task[b].pc \in {"storing", "recording"} /\ Stored(task[b].lane))
              => store'[task[b].lane] # None
      BY <1>a, <3>1, <3>2 DEF Stored
    <3> QED
      BY <1>0, <2>1, <2>2, <3>1, <3>2, <3>3, <3>4, TaskKeepsMetros DEF Stored
  <2>4. CASE ~SameMetro(a)
    <3>1. task'[a] = Idle /\ store' = store
      BY <1>0, <1>20, <2>4 DEF LaneTask, Serving, RecordRespawn, End
    <3>2. \/ task[a].fresh \notin Running'
          \/ \E l \in LaneIds : Stored(l)' /\ store'[l].pid = task[a].fresh
      BY LeaveOrNot, <1>20, <2>4 DEF RecordRespawn
    <3> QED
      BY <1>0, <2>1, <2>2, <3>1, <3>2, TaskKeepsMetros DEF Stored, Idle
  <2> QED
    BY <2>3, <2>4
<1>21. ASSUME NEW a \in Apps, Recorded(a) PROVE FreshKept' /\ NoOrphan'
  <2>1. /\ store' = store /\ Running' = Running /\ task'[a] = Idle
        /\ \A b \in Apps \ {a} : task'[b] = task[b]
    BY <1>0, <1>21 DEF LaneTask, Recorded, LaneAsRead, Returning, Starting, Pcs, End, Running
  <2>2. task[a].fresh \notin Running \/ \E l \in LaneIds : Stored(l) /\ store[l].pid = task[a].fresh
    BY <1>0, <1>21 DEF LaneTask, Recorded, FreshKept, LaneAsRead, Returning, Starting, Pcs, Running
  <2> QED
    BY <1>0, <2>1, <2>2, TaskKeepsMetros DEF Stored, Idle
<1>22. ASSUME NEW a \in Apps, Fail(a) PROVE FreshKept' /\ NoOrphan'
  <2>1. task'[a] = Idle /\ \A b \in Apps \ {a} : task'[b] = task[b]
    BY <1>0, <1>22 DEF Fail, End
  <2>2. Running' \subseteq Running
    BY <1>22 DEF Fail, StopOrLeave, LaneMetros, Signal, Running
  <2>3. \/ task[a].fresh = None \/ task[a].fresh \notin Running'
        \/ \E l \in LaneIds : store'[l] # None /\ store'[l].pid = task[a].fresh
    <3>1. CASE task[a].pc \in {"spawned", "storing"}
      BY <1>22, <3>1, LeaveOrNot DEF Fail, Stored
    <3>2. CASE task[a].pc = "recording"
      BY <1>0, <1>22, <3>2 DEF Fail, StopOrLeave, LaneMetros, Signal, Running, FreshKept, LaneAsRead, Stored, Returning, Starting, Pcs
    <3> QED
      BY <1>0, <1>22, <3>1, <3>2 DEF Fail
  <2>4. \A l \in LaneIds : store'[l] = store[l] \/ (task[a].pc = "storing" /\ l = task[a].lane)
    BY <1>0, <1>22 DEF Fail
  <2>5. task[a].pc = "storing" =>
          /\ Stored(task[a].lane) => store[task[a].lane].pid = task[a].fresh
          /\ \A b \in Apps \ {a} : task[b].lane # task[a].lane
    BY <1>0, <1>22 DEF NewLaneOwned, Starting, Stored
  <2>6. \A b \in Apps \ {a} :
          (task[b].pc \in {"storing", "recording"} /\ Stored(task[b].lane))
            => store'[task[b].lane] # None
    BY <1>a, <2>4, <2>5 DEF Stored
  <2>7. \A l \in LaneIds : Stored(l) =>
          \/ store'[l] # None /\ store'[l].pid = store[l].pid
          \/ store[l].pid \notin Running'
          \/ \E k \in LaneIds : store'[k] # None /\ store'[k].pid = store[l].pid
    <3>1. CASE task[a].pc = "storing"
      <4>1. StopOrLeave(task[a].fresh)
        BY <1>22, <3>1 DEF Fail
      <4> QED
        BY <2>4, <2>5, <3>1, <4>1, LeaveOrNot DEF Stored
    <3>2. CASE task[a].pc # "storing"
      BY <2>4, <3>2 DEF Stored
    <3> QED
      BY <3>1, <3>2
  <2> QED
    BY <1>0, <2>1, <2>2, <2>3, <2>6, <2>7, TaskKeepsMetros DEF Stored, Idle
<1>23. ASSUME NEW s \in Stoppers, NEW l \in LaneIds, BeginStop(s, l) PROVE FreshKept' /\ NoOrphan'
  BY <1>0, <1>23 DEF BeginStop, FreshKept, NoOrphan, Stored
<1>24. ASSUME NEW s \in Stoppers, EndStop(s) PROVE FreshKept' /\ NoOrphan'
  <2>1. PICK l \in LaneIds : l = stops[s].lane
    BY <1>0, <1>24 DEF EndStop, Stop
  <2>2. /\ task' = task /\ store'[l] = None
        /\ \A k \in LaneIds : k # l => store'[k] = store[k]
        /\ alive' = alive
    BY <1>0, <1>24, <2>1 DEF EndStop
  <2>3. Running' \subseteq Running
    BY <1>24 DEF EndStop, Running
  <2>4. Stored(l) => store[l].pid \notin Running'
    BY <1>24, <2>1, <2>2 DEF EndStop, Running
  <2>5. FreshKept'
    <3>1. ASSUME NEW b \in Apps, task[b].pc \in {"storing", "recording"}, task[b].lane = l, Stored(l)
          PROVE  task[b].fresh = store[l].pid
      BY <1>0, <3>1 DEF NewLaneOwned, LaneAsRead, Starting, Returning, Pcs
    <3>2. ASSUME NEW b \in Apps, task[b].pc \in {"storing", "recording"}
          PROVE  store'[task[b].lane] # None \/ task[b].fresh \notin Running'
      <4>1. Stored(task[b].lane) \/ task[b].fresh \notin Running
        BY <1>0, <3>2 DEF FreshKept, Running
      <4>2. task[b].lane \in LaneIds
        BY <1>a, <3>2
      <4> QED
        BY <2>2, <2>3, <2>4, <3>1, <3>2, <4>1, <4>2 DEF Stored
    <3> QED
      BY <2>2, <3>2 DEF FreshKept, Running, Stored
  <2>6. NoOrphan'
    BY <1>0, <2>2, <2>3, <2>4 DEF NoOrphan, Running, Stored
  <2> QED
    BY <2>5, <2>6
<1>25. ASSUME NEW s \in Stoppers, RefuseStop(s) PROVE FreshKept' /\ NoOrphan'
  BY <1>0, <1>25 DEF RefuseStop, FreshKept, NoOrphan, Stored
<1>26. ASSUME NEW w \in Watchers, NEW l \in LaneIds, BeginWatch(w, l) PROVE FreshKept' /\ NoOrphan'
  BY <1>0, <1>26 DEF BeginWatch, FreshKept, NoOrphan, Stored
<1>27. ASSUME NEW w \in Watchers, EndWatch(w) PROVE FreshKept' /\ NoOrphan'
  <2>1. \A l \in LaneIds :
          /\ store'[l] # None <=> store[l] # None
          /\ store[l] # None => store'[l].pid = store[l].pid
    <3>1. CASE store' = store
      BY <3>1
    <3>2. CASE store' # store
      <4>1. PICK k \in LaneIds, v \in BOOLEAN : store[k] \in Lane /\ store' = [store EXCEPT ![k].live = v]
        BY <1>0, <1>27, <3>2 DEF EndWatch, Watch, Stored
      <4>2. [store[k] EXCEPT !.live = v] \in Lane /\ [store[k] EXCEPT !.live = v].pid = store[k].pid
        BY <4>1 DEF Lane
      <4> QED
        BY <1>0, <4>1, <4>2, NoLaneAssumption
    <3> QED
      BY <3>1, <3>2
  <2>2. task' = task /\ alive' = alive /\ signalled' = signalled /\ strays' = strays
    BY <1>27 DEF EndWatch
  <2> HIDE DEF Task, TaskShape
  <2>4. FreshKept'
    <3>1. ASSUME NEW b \in Apps, task[b].pc \in {"storing", "recording"}
          PROVE  store'[task[b].lane] # None \/ task[b].fresh \notin alive \ (signalled \cup strays)
      <4>1. Stored(task[b].lane) \/ task[b].fresh \notin alive \ (signalled \cup strays)
        BY <1>0, <3>1 DEF FreshKept
      <4>2. task[b].lane \in LaneIds
        BY <1>a, <3>1
      <4> QED
        BY <2>1, <4>1, <4>2 DEF Stored
    <3> QED
      BY <2>2, <3>1 DEF FreshKept, Stored
  <2>5. NoOrphan'
    <3>1. ASSUME NEW n \in alive \ (signalled \cup strays)
          PROVE  \/ \E l \in LaneIds : store'[l] # None /\ store'[l].pid = n
                 \/ \E b \in Apps : task[b].fresh = n
      <4>1. CASE \E b \in Apps : task[b].fresh = n
        BY <4>1
      <4>2. CASE \E l \in LaneIds : store[l] # None /\ store[l].pid = n
        BY <2>1, <4>2
      <4> QED
        BY <1>0, <3>1, <4>1, <4>2 DEF NoOrphan, Stored
    <3> QED
      BY <2>2, <3>1 DEF NoOrphan, Stored
  <2> QED
    BY <2>4, <2>5
<1>28. ASSUME NEW n \in Pids, Exit(n) PROVE FreshKept' /\ NoOrphan'
  BY <1>0, <1>28 DEF Exit, FreshKept, NoOrphan, Stored
<1> HIDE DEF Task, TaskShape
<1>29. ASSUME UNCHANGED vars PROVE FreshKept' /\ NoOrphan'
  <2>1. store' = store /\ task' = task /\ alive' = alive /\ signalled' = signalled /\ strays' = strays
    BY <1>29 DEF vars
  <2>2. FreshKept'
    BY <1>0, <2>1 DEF FreshKept, Stored
  <2>3. NoOrphan'
    BY <1>0, <2>1 DEF NoOrphan, Stored
  <2> QED
    BY <2>2, <2>3
<1>30. FreshKept' /\ NoOrphan'
  BY <1>1, <1>2, <1>3, <1>4, <1>5, <1>6, <1>7, <1>8, <1>9, <1>10, <1>11, <1>12, <1>13, <1>14, <1>15, <1>16, <1>17, <1>18, <1>19, <1>20, <1>21, <1>22, <1>23, <1>24, <1>25, <1>26, <1>27, <1>28, <1>29 DEF Next, TaskStep
<1> QED
  BY <1>0, <1>30 DEF Inv


-----------------------------------------------------------------------------
(* The initial state satisfies all of it. *)
LEMMA InitInv == Init => Inv
<1> SUFFICES ASSUME Init PROVE Inv
  OBVIOUS
<1>1. Idle \in Task /\ Idle.pc = "idle" /\ Idle.udid = None /\ Idle.was = None /\ Idle.lane = None
      /\ Idle.port = None /\ Idle.fresh = None
  BY DEF Idle, Task, Pcs
<1>2. \A a \in Apps : task[a] = Idle
  BY DEF Init
<1>3. TypeOK
  BY <1>1 DEF Init, TypeOK
<1>4. TaskShape
  BY <1>1, <1>2 DEF TaskShape, Starting, Returning
<1>5. NewLaneOwned /\ LaneAsRead /\ FreshKept
  BY <1>1, <1>2 DEF NewLaneOwned, LaneAsRead, FreshKept, Starting, Returning
<1>6. DeviceExclusive
  BY <1>1, <1>2 DEF Init, DeviceExclusive, Stored
<1>7. NoOrphan
  BY DEF Init, NoOrphan
<1> QED
  BY <1>3, <1>4, <1>5, <1>6, <1>7 DEF Inv, LaneInv

(* Every state is well typed, and every task has what its step needs: a     *)
(* start its reservation, any other task the lane it read, and both their   *)
(* Metro from its spawn until a lane has it.                                *)
THEOREM WellTyped == Spec => [](TypeOK /\ TaskShape)
<1>1. Init => Typed
  BY InitInv DEF Inv, LaneInv, Typed
<1> QED
  BY <1>1, TypedStep, PTL DEF Spec, Typed

(* While no resume turns a backend off, however starts, restarts, late      *)
(* attaches, stops, launches and probes interleave and Metros exit, a       *)
(* Simulator belongs to one lane or to one start.                           *)
THEOREM DevicesAreExclusive == ASSUME ~TurnsOff PROVE Spec => []DeviceExclusive
<1>1. Init => LaneInv
  BY InitInv DEF Inv
<1>2. LaneInv /\ [Next]_vars => LaneInv'
  BY LaneInvStep
<1>3. LaneInv => DeviceExclusive
  BY DEF LaneInv
<1> QED
  BY <1>1, <1>2, <1>3, PTL DEF Spec

(* And tasks own the lanes and the Metros they are about to record: what    *)
(* every step of lane-service.ts keeps while no resume turns a backend off. *)
THEOREM InvInvariant == ASSUME ~TurnsOff PROVE Spec => []Inv
<1>1. Inv /\ [Next]_vars => Inv'
  BY InvStep
<1> QED
  BY <1>1, InitInv, PTL DEF Spec

(* So a running Metro is always some lane's or some task's, but for those   *)
(* that a stop nobody repeats, or a stop that was overtaken, left running.  *)
THEOREM NoMetroIsOrphaned == ASSUME ~TurnsOff PROVE Spec => []NoOrphan
<1>1. Inv => NoOrphan
  BY DEF Inv
<1> QED
  BY <1>1, InvInvariant, PTL

(* Only a start of its own stores a lane that is not stored.                *)
LEMMA StoredByStart ==
    ASSUME ~TurnsOff, LaneInv, [Next]_vars, NEW l \in LaneIds, store[l] = None, store'[l] # None
    PROVE  \E a \in Apps : task[a].pc = "spawned" /\ task[a].lane = l
<1>1. /\ store \in [LaneIds -> Lane \cup {None}]
      /\ \A a \in Apps : task[a].pc = "recording" => ~task[a].resumes
  BY DEF LaneInv, TypeOK, LaneAsRead, Returning, Starting, Pcs
<1>2. ASSUME NEW a \in Apps, StoreLane(a) PROVE task[a].pc = "spawned" /\ task[a].lane = l
  BY <1>1, <1>2 DEF StoreLane
<1>3. ASSUME NEW a \in Apps, RecordRevive(a) \/ RecordRespawn(a) \/ Halt(a) PROVE FALSE
  BY <1>1, <1>3 DEF RecordRevive, RecordRespawn, Halt, SameMetro, Stored
<1>4. ASSUME NEW a \in Apps, Recorded(a) \/ Fail(a) PROVE FALSE
  BY <1>1, <1>4 DEF Recorded, Fail
<1>5. ASSUME NEW a \in Apps,
             \/ BeginStart(a) \/ FindNoLane(a) \/ ClaimPort(a) \/ StartDone(a) \/ Decide(a)
             \/ ResumeRunning(a) \/ Ensured(a) \/ KillOld(a) \/ RespawnLost(a)
             \/ \E u \in Udids, k \in LaneIds : Reserve(a, u, k)
             \/ \E p \in Ports : ProbePort(a, p)
             \/ \E n \in Pids : SpawnForStart(a, n) \/ Revive(a, n) \/ SpawnAgain(a, n)
             \/ \E k \in LaneIds : FindLane(a, k)
             \/ \E k \in LaneIds, step \in {"ensuring", "inspecting", "halting"} :
                  BeginRestart(a, k, step)
      PROVE  FALSE
  BY <1>5 DEF BeginStart, FindNoLane, ClaimPort, StartDone, Decide, ResumeRunning, Ensured,
     KillOld, RespawnLost, Reserve, ProbePort, SpawnForStart, Revive, SpawnAgain, FindLane,
     BeginRestart
<1>6. ASSUME NEW s \in Stoppers, EndStop(s) \/ RefuseStop(s) \/ \E k \in LaneIds : BeginStop(s, k)
      PROVE  FALSE
  BY <1>1, <1>6 DEF EndStop, RefuseStop, BeginStop
<1>7. ASSUME NEW w \in Watchers, EndWatch(w) \/ \E k \in LaneIds : BeginWatch(w, k)
      PROVE  FALSE
  BY <1>1, <1>7 DEF EndWatch, BeginWatch, Stored
<1>8. ASSUME (\E n \in Pids : Exit(n)) \/ UNCHANGED vars PROVE FALSE
  BY <1>8 DEF Exit, vars
<1> QED
  BY <1>2, <1>3, <1>4, <1>5, <1>6, <1>7, <1>8 DEF Next, TaskStep

(* While no resume turns a backend off, a lane that was stopped is stored   *)
(* again by no resume, restart, late attach, launch or probe that read it.  *)
THEOREM StoppedLanesStayStopped == ASSUME ~TurnsOff PROVE Spec => StoppedStays
<1> DEFINE NothingBack ==
      \A l \in LaneIds :
         (store[l] = None /\ store'[l] # None)
             => \E a \in Apps : task[a].pc = "spawned" /\ task[a].lane = l
<1>1. Init => LaneInv
  BY InitInv DEF Inv
<1>2. LaneInv /\ [Next]_vars => LaneInv'
  BY LaneInvStep
<1>3. LaneInv /\ [Next]_vars => [NothingBack]_vars
  BY StoredByStart
<1> QED
  BY <1>1, <1>2, <1>3, PTL DEF Spec, StoppedStays

-----------------------------------------------------------------------------
(* A step that lets a task have the port it had, or none, or one that is    *)
(* not held, keeps the claims apart.                                        *)
LEMMA ClaimsStep ==
    ASSUME Typed, PortClaimsExclusive, NEW a \in Apps,
           \A b \in Apps \ {a} : task'[b] = task[b],
           \/ Claimed(a)' \in {Claimed(a), None}
           \/ \E l \in LaneIds \cup {None} : ~PortHeld(a, Claimed(a)', l)
    PROVE  PortClaimsExclusive'
<1>1. \A b \in Apps \ {a} : Claimed(b)' = Claimed(b)
  BY DEF Claimed
<1>2. (\E l \in LaneIds \cup {None} : ~PortHeld(a, Claimed(a)', l))
         => \A b \in Apps \ {a} : Claimed(b) # Claimed(a)'
  BY DEF PortHeld
<1> QED
  BY <1>1, <1>2 DEF PortClaimsExclusive

LEMMA PortClaimsStep ==
    ASSUME Typed, PortClaimsExclusive, [Next]_vars
    PROVE  PortClaimsExclusive'
<1>0. /\ task \in [Apps -> Task]
      /\ \A a \in Apps : task[a].pc \in {"idle", "looking", "inventory", "reserved"} => task[a].port = None
  BY DEF Typed, TypeOK, TaskShape
<1>1. ASSUME NEW a \in Apps, End(a) PROVE PortClaimsExclusive'
  <2>1. Claimed(a)' = None /\ \A b \in Apps \ {a} : task'[b] = task[b]
    BY <1>0, <1>1 DEF End, Claimed, Idle
  <2> QED
    BY <2>1, ClaimsStep
<1>2. ASSUME NEW a \in Apps, ClaimPort(a) PROVE PortClaimsExclusive'
  <2>1. CASE PortHeld(a, task[a].port, None)
    <3>1. Claimed(a)' = None /\ \A b \in Apps \ {a} : task'[b] = task[b]
      BY <1>0, <1>2, <2>1 DEF ClaimPort, StartTask, Claimed
    <3> QED
      BY <3>1, ClaimsStep
  <2>2. CASE ~PortHeld(a, task[a].port, None)
    <3>1. Claimed(a)' = task[a].port /\ \A b \in Apps \ {a} : task'[b] = task[b]
      BY <1>0, <1>2, <2>2 DEF ClaimPort, Claimed
    <3> QED
      BY <2>2, <3>1, ClaimsStep
  <2> QED
    BY <2>1, <2>2
<1>3. ASSUME NEW a \in Apps, NEW l \in LaneIds, FindLane(a, l), ~End(a) PROVE PortClaimsExclusive'
  <2>1. CASE store[l].pid \in alive
    <3>1. Claimed(a)' = None /\ \A b \in Apps \ {a} : task'[b] = task[b]
      BY <1>0, <1>3, <2>1 DEF FindLane, LaneTask, Claimed
    <3> QED
      BY <3>1, ClaimsStep
  <2>2. CASE store[l].pid \notin alive
    <3>1. ~PortHeld(a, store[l].port, l)
      BY <1>3, <2>2 DEF FindLane
    <3>2. Claimed(a)' = store[l].port /\ \A b \in Apps \ {a} : task'[b] = task[b]
      BY <1>0, <1>3, <2>2 DEF FindLane, LaneTask, Claimed
    <3> QED
      BY <3>1, <3>2, ClaimsStep
  <2> QED
    BY <2>1, <2>2
<1>4. ASSUME NEW a \in Apps,
             \/ BeginStart(a) \/ FindNoLane(a) \/ StoreLane(a) \/ Ensured(a) \/ KillOld(a)
      PROVE  PortClaimsExclusive'
  <2>1. Claimed(a)' = Claimed(a) /\ \A b \in Apps \ {a} : task'[b] = task[b]
    <3>1. /\ task[a].pc # "probed" /\ task'[a].pc # "probed" /\ task'[a].port = task[a].port
          /\ \A b \in Apps \ {a} : task'[b] = task[b]
      BY <1>0, <1>4 DEF BeginStart, FindNoLane, StoreLane, Ensured, RespawnPc, KillOld, Task
    <3> QED
      BY <3>1 DEF Claimed
  <2> QED
    BY <2>1, ClaimsStep
<1>5. ASSUME NEW a \in Apps,
             \/ \E u \in Udids, l \in LaneIds : Reserve(a, u, l)
             \/ \E p \in Ports : ProbePort(a, p)
             \/ \E n \in Pids : SpawnForStart(a, n)
      PROVE  PortClaimsExclusive'
  <2>1. Claimed(a)' \in {Claimed(a), None} /\ \A b \in Apps \ {a} : task'[b] = task[b]
    BY <1>0, <1>5 DEF Reserve, ProbePort, SpawnForStart, StartTask, Claimed
  <2> QED
    BY <2>1, ClaimsStep
<1>6. ASSUME NEW a \in Apps, ~End(a),
             \/ Decide(a)
             \/ \E n \in Pids : Revive(a, n) \/ SpawnAgain(a, n)
             \/ \E l \in LaneIds, step \in {"ensuring", "inspecting", "halting"} : BeginRestart(a, l, step)
      PROVE  PortClaimsExclusive'
  <2>1. Claimed(a)' \in {Claimed(a), None} /\ \A b \in Apps \ {a} : task'[b] = task[b]
    BY <1>0, <1>6 DEF Decide, RespawnPc, Revive, SpawnAgain, OldGone, BeginRestart, LaneTask, Claimed
  <2> QED
    BY <2>1, ClaimsStep
<1>7. ASSUME NEW a \in Apps, ~End(a),
             RecordRevive(a) \/ ResumeRunning(a) \/ RecordRespawn(a) \/ Recorded(a)
      PROVE  PortClaimsExclusive'
  <2>1. Claimed(a)' = Claimed(a) /\ \A b \in Apps \ {a} : task'[b] = task[b]
    <3>1. /\ task[a].pc # "probed" /\ task'[a].pc # "probed" /\ task'[a].port = task[a].port
          /\ \A b \in Apps \ {a} : task'[b] = task[b]
      <4>1. CASE RecordRevive(a) \/ ResumeRunning(a)
        BY <1>0, <1>7, <4>1 DEF RecordRevive, ResumeRunning, Task
      <4>2. CASE RecordRespawn(a)
        BY <1>0, <1>7, <4>2 DEF RecordRespawn, LaneTask
      <4>3. CASE Recorded(a)
        BY <1>0, <1>7, <4>3 DEF Recorded, LaneTask
      <4> QED
        BY <1>7, <4>1, <4>2, <4>3
    <3> QED
      BY <3>1 DEF Claimed
  <2> QED
    BY <2>1, ClaimsStep
<1>8. ASSUME NEW a \in Apps, StartDone(a) \/ Halt(a) \/ RespawnLost(a) \/ Fail(a) PROVE End(a)
  BY <1>8 DEF StartDone, Halt, RespawnLost, Fail
<1>9. ASSUME task' = task PROVE PortClaimsExclusive'
  BY <1>9 DEF PortClaimsExclusive, Claimed
<1>10. ASSUME \/ \E s \in Stoppers : EndStop(s) \/ RefuseStop(s) \/ \E l \in LaneIds : BeginStop(s, l)
              \/ \E w \in Watchers : EndWatch(w) \/ \E l \in LaneIds : BeginWatch(w, l)
              \/ \E n \in Pids : Exit(n)
              \/ UNCHANGED vars
       PROVE  task' = task
  BY <1>10 DEF EndStop, RefuseStop, BeginStop, EndWatch, BeginWatch, Exit, vars
<1>11. ASSUME NEW a \in Apps, TaskStep(a) PROVE PortClaimsExclusive'
  BY <1>1, <1>2, <1>3, <1>4, <1>5, <1>6, <1>7, <1>8, <1>11 DEF TaskStep
<1> QED
  BY <1>1, <1>4, <1>6, <1>9, <1>10, <1>11 DEF Next

(* Whatever crashes, is stopped slowly or has its backend turned off, no    *)
(* two starts or resumes in progress have claimed one port.                 *)
THEOREM PortClaimsAreExclusive == Spec => []PortClaimsExclusive
<1>1. Init => Typed /\ PortClaimsExclusive
  <2>1. Init => \A a \in Apps : Claimed(a) = None
    BY DEF Init, Idle, Claimed
  <2> QED
    BY <2>1, InitInv DEF Inv, LaneInv, Typed, PortClaimsExclusive
<1>2. Typed /\ PortClaimsExclusive /\ [Next]_vars => (Typed /\ PortClaimsExclusive)'
  BY TypedStep, PortClaimsStep
<1> QED
  BY <1>1, <1>2, PTL DEF Spec
=============================================================================
