----------------------------- MODULE LaneService -----------------------------
(***************************************************************************)
(* Lanes: an app directory, a Simulator, a port and a detached Metro       *)
(* process, started, resumed, restarted and stopped by agents and by the   *)
(* operator (apps/desktop/src/main/lane-service.ts).                       *)
(*                                                                         *)
(* Starts, Metro restarts and late backend attaches of one app run one     *)
(* after the other (#serialize), so each app has at most one task; stops,  *)
(* launches and reconcile passes run beside them.  An action is the code   *)
(* between two awaits that let other work in.  What Metro is given (the    *)
(* backend's values), the Simulator's boot and slimming, and who may use a *)
(* device decide only whether a task goes on, so they are left open.       *)
(***************************************************************************)
EXTENDS Naturals, FiniteSets

CONSTANTS Apps, Udids, Ports,
          LaneIds,      \* lane ids, reused once nothing refers to them
          Pids,         \* process ids, reused once nothing refers to them
          Stoppers,     \* concurrent stopLane calls
          Watchers,     \* concurrent launches and reconcile probes
          None,
          MetroCrash,   \* Metro may exit on its own
          TurnsOff      \* a resume may turn a running lane's backend off

Lane == [app : Apps, udid : Udids, port : Ports, pid : Pids, live : BOOLEAN]

ASSUME LaneAssumption ==
    /\ None \notin Apps \cup Udids \cup Ports \cup LaneIds \cup Pids
    /\ {MetroCrash, TurnsOff} \subseteq BOOLEAN

ASSUME NoLaneAssumption == None \notin Lane

VARIABLES store,      \* LaneStore: the lane of each id, or None
          task,       \* the task running for each app, with its reservation
          stops,      \* stopLane calls inspecting their process
          watches,    \* launches and probes waiting on a Metro
          alive,      \* running Metro processes
          signalled,  \* those among them that were sent SIGTERM
          at,         \* the port each process was spawned on
          strays      \* history: those left by a failed or overtaken stop

vars == <<store, task, stops, watches, alive, signalled, at, strays>>

Pcs == {"idle", "looking", "inventory", "reserved", "probed", "preparing", "spawned",
        "storing", "deciding", "saving", "revived", "ensuring", "halting",
        "inspecting", "exiting", "exited", "respawned", "recording"}

(* udid and port are the task's reservation, except that a port is only    *)
(* looked at while "probed"; was is the lane as the task last read it;     *)
(* resumes: the respawn in progress returns to a resume.                   *)
Task == [pc : Pcs, lane : LaneIds \cup {None}, udid : Udids \cup {None},
         port : Ports \cup {None}, was : Lane \cup {None},
         fresh : Pids \cup {None}, resumes : BOOLEAN]

Idle == [pc |-> "idle", lane |-> None, udid |-> None, port |-> None,
         was |-> None, fresh |-> None, resumes |-> FALSE]

(* A start that has reserved Simulator u and, if not None, port p, and has *)
(* spawned n; a task of the stored lane l as it was read. *)
StartTask(pc, l, u, p, n) ==
    [pc |-> pc, lane |-> l, udid |-> u, port |-> p, was |-> None, fresh |-> n,
     resumes |-> FALSE]

LaneTask(pc, l, was, p, n, resumes) ==
    [pc |-> pc, lane |-> l, udid |-> None, port |-> p, was |-> was, fresh |-> n,
     resumes |-> resumes]

(* The lane once it has Metro n. *)
Serving(lane, n) ==
    [app |-> lane.app, udid |-> lane.udid, port |-> lane.port, pid |-> n, live |-> TRUE]

Stop == [lane : LaneIds, pid : Pids]
Watch == [lane : LaneIds, pid : Pids, live : BOOLEAN]

TypeOK ==
    /\ store \in [LaneIds -> Lane \cup {None}]
    /\ task \in [Apps -> Task]
    /\ stops \in [Stoppers -> Stop \cup {None}]
    /\ watches \in [Watchers -> Watch \cup {None}]
    /\ alive \in SUBSET Pids
    /\ signalled \in SUBSET alive
    /\ at \in [Pids -> Ports \cup {None}]
    /\ strays \in SUBSET alive

Init ==
    /\ store = [l \in LaneIds |-> None]
    /\ task = [a \in Apps |-> Idle]
    /\ stops = [s \in Stoppers |-> None]
    /\ watches = [w \in Watchers |-> None]
    /\ alive = {}
    /\ signalled = {}
    /\ at = [n \in Pids |-> None]
    /\ strays = {}

-----------------------------------------------------------------------------
Stored(l) == store[l] # None

(* The lane of a task is stored and still has the Metro the task read. *)
SameMetro(a) ==
    LET t == task[a] IN Stored(t.lane) /\ store[t.lane].pid = t.was.pid

(* Nothing refers to the id: newLaneId and the system's process ids. *)
UnusedLane(l) ==
    /\ ~Stored(l)
    /\ \A a \in Apps : task[a].lane # l
    /\ \A s \in Stoppers : stops[s] # None => stops[s].lane # l
    /\ \A w \in Watchers : watches[w] # None => watches[w].lane # l

UnusedPid(n) ==
    /\ n \notin alive
    /\ \A l \in LaneIds : Stored(l) => store[l].pid # n
    /\ \A a \in Apps : task[a].fresh # n /\ (task[a].was # None => task[a].was.pid # n)
    /\ \A s \in Stoppers : stops[s] # None => stops[s].pid # n
    /\ \A w \in Watchers : watches[w] # None => watches[w].pid # n

Conflict_LanesOnly(a, u) ==
    \E l \in LaneIds : Stored(l) /\ (store[l].app = a \/ store[l].udid = u)

(* findLaneConflict: the app or the Simulator belongs to a lane, or the    *)
(* Simulator to another start.  (The app has no other start in its turn.)  *)
Conflict(a, u) ==
    \/ \E l \in LaneIds : Stored(l) /\ (store[l].app = a \/ store[l].udid = u)
    \/ \E b \in Apps \ {a} : task[b].udid = u

Claimed(a) == IF task[a].pc = "probed" THEN None ELSE task[a].port

PortHeld_LanesOnly(a, p, l) ==
    \E k \in LaneIds \ {l} : Stored(k) /\ store[k].live /\ store[k].port = p

(* #portHolder: a live lane other than l, or another start, has the port. *)
PortHeld(a, p, l) ==
    \/ \E k \in LaneIds \ {l} : Stored(k) /\ store[k].live /\ store[k].port = p
    \/ \E b \in Apps \ {a} : Claimed(b) = p

(* isPortFree: no process is bound to the port. *)
PortFree(p) == \A n \in alive : at[n] # p

End(a) == task' = [task EXCEPT ![a] = Idle]

(* metro.start *)
Spawn(n, p) ==
    /\ UnusedPid(n)
    /\ alive' = alive \cup {n}
    /\ at' = [at EXCEPT ![n] = p]
    /\ UNCHANGED <<signalled, strays>>

(* metro.stop, once it has proven the process: SIGTERM if it still runs. *)
Signal(n) ==
    /\ signalled' = signalled \cup ({n} \cap alive)
    /\ UNCHANGED <<alive, at, strays>>

LaneMetros == {store[l].pid : l \in {k \in LaneIds : Stored(k)}}

(* metro.stop of a Metro whose task is over, its error swallowed: the      *)
(* process could not be inspected or signalled, and goes on running.       *)
StopOrLeave(n) ==
    \/ Signal(n)
    \/ /\ strays' = strays \cup (({n} \cap alive) \ LaneMetros')
       /\ UNCHANGED <<alive, signalled, at>>

-----------------------------------------------------------------------------
(* #startLane in its turn: resolves the worktree. *)
BeginStart(a) ==
    /\ task[a].pc = "idle"
    /\ task' = [task EXCEPT ![a].pc = "looking"]
    /\ UNCHANGED <<store, stops, watches, alive, signalled, at, strays>>

(* The app has no lane: the start asks for the Simulator inventory. *)
FindNoLane(a) ==
    /\ task[a].pc = "looking"
    /\ \A l \in LaneIds : Stored(l) => store[l].app # a
    /\ task' = [task EXCEPT ![a].pc = "inventory"]
    /\ UNCHANGED <<store, stops, watches, alive, signalled, at, strays>>

(* The device is picked, checked and reserved in one step. *)
Reserve(a, u, l) ==
    /\ task[a].pc = "inventory"
    /\ ~Conflict(a, u)
    /\ UnusedLane(l)
    /\ task' = [task EXCEPT ![a] = StartTask("reserved", l, u, None, None)]
    /\ UNCHANGED <<store, stops, watches, alive, signalled, at, strays>>

(* allocateLanePort: the bind probe of a candidate port passes... *)
ProbePort(a, p) ==
    /\ task[a].pc = "reserved"
    /\ PortFree(p)
    /\ task' = [task EXCEPT ![a] = StartTask("probed", @.lane, @.udid, p, None)]
    /\ UNCHANGED <<store, stops, watches, alive, signalled, at, strays>>

(* ...and the port is claimed unless someone holds it by now. *)
ClaimPort(a) ==
    /\ task[a].pc = "probed"
    /\ task' = IF PortHeld(a, task[a].port, None)
               THEN [task EXCEPT ![a] = StartTask("reserved", @.lane, @.udid, None, None)]
               ELSE [task EXCEPT ![a].pc = "preparing"]
    /\ UNCHANGED <<store, stops, watches, alive, signalled, at, strays>>

(* Booted, slimmed, and the backend decided: Metro is spawned. *)
SpawnForStart(a, n) ==
    /\ task[a].pc = "preparing"
    /\ Spawn(n, task[a].port)
    /\ task' = [task EXCEPT ![a] = StartTask("spawned", @.lane, @.udid, @.port, n)]
    /\ UNCHANGED <<store, stops, watches>>

NewLane(a) == Serving([app |-> a, udid |-> task[a].udid, port |-> task[a].port], task[a].fresh)

StoreLane(a) ==
    /\ task[a].pc = "spawned"
    /\ store' = [store EXCEPT ![task[a].lane] = NewLane(a)]
    /\ task' = [task EXCEPT ![a].pc = "storing"]
    /\ UNCHANGED <<stops, watches, alive, signalled, at, strays>>

(* The write of the store succeeds and the reservation ends. *)
StartDone(a) ==
    /\ task[a].pc = "storing"
    /\ End(a)
    /\ UNCHANGED <<store, stops, watches, alive, signalled, at, strays>>

-----------------------------------------------------------------------------
(* The app has a lane: #resumeLane.  If its Metro is gone the lane's port  *)
(* is claimed first, or the resume fails.                                  *)
FindLane(a, l) ==
    /\ task[a].pc = "looking"
    /\ Stored(l)
    /\ store[l].app = a
    /\ IF store[l].pid \in alive
       THEN task' = [task EXCEPT ![a] = LaneTask("deciding", l, store[l], None, None, FALSE)]
       ELSE IF PortHeld(a, store[l].port, l)
       THEN End(a)
       ELSE task' = [task EXCEPT
                     ![a] = LaneTask("deciding", l, store[l], store[l].port, None, FALSE)]
    /\ UNCHANGED <<store, stops, watches, alive, signalled, at, strays>>

(* A respawn of the lane as the task read it begins: the old Metro, if it  *)
(* runs, is inspected before it is stopped.                                *)
RespawnPc(n) == IF n \in alive THEN "inspecting" ELSE "exited"

(* The backend is decided.  A lane stopped meanwhile ends the resume;      *)
(* turning the backend off restarts a running Metro without its values.    *)
Decide(a) ==
    LET l == task[a].lane IN
    /\ task[a].pc = "deciding"
    /\ \/ ~Stored(l) /\ End(a)
       \/ /\ Stored(l)
          /\ task' = [task EXCEPT ![a] = LaneTask("saving", l, store[l], @.port, None, FALSE)]
       \/ /\ TurnsOff
          /\ Stored(l)
          /\ task[a].port = None
          /\ task' = [task EXCEPT
               ![a] = LaneTask(RespawnPc(store[l].pid), l, store[l], None, None, TRUE)]
    /\ UNCHANGED <<store, stops, watches, alive, signalled, at, strays>>

(* The lane's policy is written: a Metro that was gone is spawned, whether *)
(* or not the lane is still stored... *)
Revive(a, n) ==
    /\ task[a].pc = "saving"
    /\ task[a].port # None
    /\ Spawn(n, task[a].was.port)
    /\ task' = [task EXCEPT ![a] = LaneTask("revived", @.lane, @.was, @.port, n, FALSE)]
    /\ UNCHANGED <<store, stops, watches>>

RecordRevive_Unchecked(a) ==
    LET t == task[a] IN
    /\ t.pc = "revived"
    /\ store' = [store EXCEPT ![t.lane] = Serving(t.was, t.fresh)]
    /\ task' = [task EXCEPT ![a].pc = "recording"]
    /\ UNCHANGED <<stops, watches, alive, signalled, at, strays>>

(* ...and kept only by a lane that is. *)
RecordRevive(a) ==
    LET t == task[a] IN
    /\ t.pc = "revived"
    /\ IF Stored(t.lane)
       THEN /\ store' = [store EXCEPT ![t.lane] = Serving(t.was, t.fresh)]
            /\ task' = [task EXCEPT ![a].pc = "recording"]
            /\ UNCHANGED <<alive, signalled, at, strays>>
       ELSE /\ UNCHANGED store
            /\ StopOrLeave(t.fresh)
            /\ End(a)
    /\ UNCHANGED <<stops, watches>>

(* #attachEnv: a running Metro whose backend values changed is respawned;  *)
(* otherwise the resume is done.                                           *)
ResumeRunning(a) ==
    /\ task[a].pc = "saving"
    /\ task[a].port = None
    /\ \/ End(a)
       \/ /\ task[a].was.pid \in alive
          /\ task' = [task EXCEPT ![a].pc = "inspecting"]
    /\ UNCHANGED <<store, stops, watches, alive, signalled, at, strays>>

-----------------------------------------------------------------------------
(* restartMetro, or a late attach of backend values, for a lane whose      *)
(* Metro runs: the backend is asked first, or the Metro is stopped at once *)
(* to be respawned, or because its backend is required and failed.         *)
BeginRestart(a, l, step) ==
    /\ task[a].pc = "idle"
    /\ Stored(l)
    /\ store[l].app = a
    /\ store[l].pid \in alive
    /\ task' = [task EXCEPT ![a] = LaneTask(step, l, store[l], None, None, FALSE)]
    /\ UNCHANGED <<store, stops, watches, alive, signalled, at, strays>>

Ensured(a) ==
    /\ task[a].pc = "ensuring"
    /\ task' = [task EXCEPT ![a].pc = RespawnPc(task[a].was.pid)]
    /\ UNCHANGED <<store, stops, watches, alive, signalled, at, strays>>

(* #stopMetroWithoutBackend: the lane of a required backend that failed    *)
(* stays stored, with its Metro stopped.                                   *)
Halt(a) ==
    LET t == task[a] IN
    /\ t.pc = "halting"
    /\ Signal(t.was.pid)
    /\ store' = IF SameMetro(a) THEN [store EXCEPT ![t.lane].live = FALSE] ELSE store
    /\ End(a)
    /\ UNCHANGED <<stops, watches>>

(* #respawnMetro: the old Metro is told to stop... *)
KillOld(a) ==
    /\ task[a].pc = "inspecting"
    /\ Signal(task[a].was.pid)
    /\ task' = [task EXCEPT ![a].pc = "exiting"]
    /\ UNCHANGED <<store, stops, watches>>

OldGone_NotAwaited(a) == task[a].pc \in {"exiting", "exited"}

(* ...it has exited and its port is free again (a Metro that was not       *)
(* running is not waited for)...                                           *)
OldGone(a) ==
    LET t == task[a] IN
    \/ t.pc = "exited"
    \/ t.pc = "exiting" /\ t.was.pid \notin alive /\ PortFree(t.was.port)

(* ...and the new one is spawned for a lane that still has the old one... *)
SpawnAgain(a, n) ==
    /\ OldGone(a)
    /\ SameMetro(a)
    /\ Spawn(n, store[task[a].lane].port)
    /\ task' = [task EXCEPT ![a] = LaneTask("respawned", @.lane, @.was, @.port, n, @.resumes)]
    /\ UNCHANGED <<store, stops, watches>>

RespawnLost(a) ==
    /\ OldGone(a)
    /\ ~SameMetro(a)
    /\ End(a)
    /\ UNCHANGED <<store, stops, watches, alive, signalled, at, strays>>

RecordRespawn_LeavesMetro(a) ==
    LET t == task[a] IN
    /\ t.pc = "respawned"
    /\ IF SameMetro(a)
       THEN /\ store' = [store EXCEPT ![t.lane] = Serving(@, t.fresh)]
            /\ task' = [task EXCEPT ![a] =
                   LaneTask("recording", t.lane, store'[t.lane], t.port, t.fresh, t.resumes)]
       ELSE End(a) /\ UNCHANGED store
    /\ UNCHANGED <<stops, watches, alive, signalled, at, strays>>

(* ...and recorded if the lane still has it; if not, the new one goes. *)
RecordRespawn(a) ==
    LET t == task[a] IN
    /\ t.pc = "respawned"
    /\ IF SameMetro(a)
       THEN /\ store' = [store EXCEPT ![t.lane] = Serving(@, t.fresh)]
            /\ task' = [task EXCEPT ![a] =
                   LaneTask("recording", t.lane, store'[t.lane], t.port, t.fresh, t.resumes)]
            /\ UNCHANGED <<alive, signalled, at, strays>>
       ELSE /\ UNCHANGED store
            /\ StopOrLeave(t.fresh)
            /\ End(a)
    /\ UNCHANGED <<stops, watches>>

(* The write of the new Metro succeeds.  A resume goes on and writes the   *)
(* lane it got from the respawn.                                           *)
Recorded(a) ==
    LET t == task[a] IN
    /\ t.pc = "recording"
    /\ IF t.resumes
       THEN /\ store' = [store EXCEPT ![t.lane] = t.was]
            /\ task' = [task EXCEPT
                 ![a] = LaneTask("saving", t.lane, t.was, t.port, None, FALSE)]
       ELSE End(a) /\ UNCHANGED store
    /\ UNCHANGED <<stops, watches, alive, signalled, at, strays>>

-----------------------------------------------------------------------------
Fail_NoExitTimeout(a) ==
    /\ task[a].pc \notin {"idle", "revived", "respawned", "exiting"}
    /\ End(a)
    /\ UNCHANGED <<store, stops, watches, alive, signalled, at, strays>>

(* A task fails: a check refuses, a wait is aborted or runs out, a command *)
(* or a write fails.  A Metro spawned for it goes (#discardMetro), with    *)
(* the lane a failed write left in memory.                                 *)
Fail(a) ==
    LET t == task[a]
        discards == t.pc \in {"spawned", "storing"} \/ (t.pc = "recording" /\ t.port # None)
    IN
    /\ t.pc \notin {"idle", "revived", "respawned"}
    /\ store' = IF t.pc = "storing" THEN [store EXCEPT ![t.lane] = None] ELSE store
    /\ IF discards THEN StopOrLeave(t.fresh) ELSE UNCHANGED <<alive, signalled, at, strays>>
    /\ End(a)
    /\ UNCHANGED <<stops, watches>>

(* stopLane, and the release of an abandoned lane by #reconcile: the Metro *)
(* of the lane as it is read is inspected and told to stop...              *)
BeginStop(s, l) ==
    /\ stops[s] = None
    /\ Stored(l)
    /\ stops' = [stops EXCEPT ![s] = [lane |-> l, pid |-> store[l].pid]]
    /\ UNCHANGED <<store, task, watches, alive, signalled, at, strays>>

(* ...and the lane is removed, whatever Metro it has by then. *)
EndStop(s) ==
    /\ stops[s] # None
    /\ store' = [store EXCEPT ![stops[s].lane] = None]
    /\ signalled' = signalled \cup ({stops[s].pid} \cap alive)
    /\ strays' = strays \cup {n \in alive \ {stops[s].pid} :
                                 Stored(stops[s].lane) /\ store[stops[s].lane].pid = n}
    /\ stops' = [stops EXCEPT ![s] = None]
    /\ UNCHANGED <<task, watches, alive, at>>

(* The process cannot be proven to be the lane's: the lane is kept. *)
RefuseStop(s) ==
    /\ stops[s] # None
    /\ stops' = [stops EXCEPT ![s] = None]
    /\ UNCHANGED <<store, task, watches, alive, signalled, at, strays>>

(* launchLane or a #reconcile probe reads a lane and waits on its Metro... *)
BeginWatch(w, l) ==
    /\ watches[w] = None
    /\ Stored(l)
    /\ watches' = [watches EXCEPT
            ![w] = [lane |-> l, pid |-> store[l].pid, live |-> store[l].pid \in alive]]
    /\ UNCHANGED <<store, task, stops, alive, signalled, at, strays>>

(* ...and writes the status it saw onto the lane if it has that Metro yet. *)
EndWatch(w) ==
    LET seen == watches[w] IN
    /\ seen # None
    /\ store' = IF Stored(seen.lane) /\ store[seen.lane].pid = seen.pid
                THEN [store EXCEPT ![seen.lane].live = seen.live]
                ELSE store
    /\ watches' = [watches EXCEPT ![w] = None]
    /\ UNCHANGED <<task, stops, alive, signalled, at, strays>>

(* A Metro that was told to stop exits, or one crashes. *)
Exit(n) ==
    /\ n \in alive
    /\ MetroCrash \/ n \in signalled
    /\ alive' = alive \ {n}
    /\ signalled' = signalled \ {n}
    /\ strays' = strays \ {n}
    /\ UNCHANGED <<store, task, stops, watches, at>>

TaskStep(a) ==
    \/ FindNoLane(a)
    \/ \E u \in Udids, l \in LaneIds : Reserve(a, u, l)
    \/ \E p \in Ports : ProbePort(a, p)
    \/ ClaimPort(a)
    \/ \E n \in Pids : SpawnForStart(a, n)
    \/ StoreLane(a)
    \/ StartDone(a)
    \/ \E l \in LaneIds : FindLane(a, l)
    \/ Decide(a)
    \/ \E n \in Pids : Revive(a, n)
    \/ RecordRevive(a)
    \/ ResumeRunning(a)
    \/ Ensured(a)
    \/ Halt(a)
    \/ KillOld(a)
    \/ \E n \in Pids : SpawnAgain(a, n)
    \/ RespawnLost(a)
    \/ RecordRespawn(a)
    \/ Recorded(a)
    \/ Fail(a)

Next ==
    \/ \E a \in Apps : BeginStart(a) \/ TaskStep(a)
    \/ \E a \in Apps, l \in LaneIds, step \in {"ensuring", "inspecting", "halting"} :
         BeginRestart(a, l, step)
    \/ \E s \in Stoppers, l \in LaneIds : BeginStop(s, l)
    \/ \E s \in Stoppers : EndStop(s) \/ RefuseStop(s)
    \/ \E w \in Watchers, l \in LaneIds : BeginWatch(w, l)
    \/ \E w \in Watchers : EndWatch(w)
    \/ \E n \in Pids : Exit(n)

Spec == Init /\ [][Next]_vars

(* Every await of a task ends: commands have timeouts, and so has the wait *)
(* for a Metro's exit (METRO_EXIT_TIMEOUT_MS).                             *)
FairSpec == Spec /\ \A a \in Apps : WF_vars(TaskStep(a))

-----------------------------------------------------------------------------
(* A Simulator belongs to one lane or to one start, and an app to one lane *)
(* ("Concurrent starts never share a device or a port").                   *)
DeviceExclusive ==
    /\ \A k, l \in LaneIds :
         (Stored(k) /\ Stored(l) /\ k # l)
             => store[k].udid # store[l].udid /\ store[k].app # store[l].app
    /\ \A a \in Apps, l \in LaneIds :
         (task[a].udid # None /\ Stored(l) /\ l # task[a].lane)
             => store[l].udid # task[a].udid /\ store[l].app # a
    /\ \A a, b \in Apps :
         (a # b /\ task[a].udid # None) => task[a].udid # task[b].udid

(* No two starts or resumes in progress have claimed one port, whatever    *)
(* was probed, stopped or restarted while they did.                        *)
PortClaimsExclusive ==
    \A a, b \in Apps : (a # b /\ Claimed(a) # None) => Claimed(a) # Claimed(b)

(* A Metro that no lane and no task will ever stop ("that Metro, which no  *)
(* lane would ever stop, goes") is left running by two events only: the    *)
(* stop of a Metro whose task is over fails and is not tried again, or a   *)
(* lane is removed after its Metro was replaced during the stop's await.   *)
NoOrphan ==
    \A n \in alive \ (signalled \cup strays) :
        \/ \E l \in LaneIds : Stored(l) /\ store[l].pid = n
        \/ \E a \in Apps : task[a].fresh = n

(* The running Metros of two lanes never have one port ("the lane stays    *)
(* stored the whole time, so its port stays leased").                      *)
PortsExclusive ==
    \A k, l \in LaneIds :
        (k # l /\ Stored(k) /\ Stored(l) /\ {store[k].pid, store[l].pid} \subseteq alive \ signalled)
            => at[store[k].pid] # at[store[l].pid]

(* A lane that was stopped stays stopped: only a start of its own stores a *)
(* lane that is not stored.                                                *)
StoppedStays ==
    [][\A l \in LaneIds :
         (store[l] = None /\ store'[l] # None)
             => \E a \in Apps : task[a].pc = "spawned" /\ task[a].lane = l]_vars

(* No task keeps its app's queue for ever. *)
EveryTaskEnds ==
    \A a \in Apps : (task[a].pc # "idle") ~> (task[a].pc = "idle")

-----------------------------------------------------------------------------
(* Why these hold.  What a task has at each step: a start its lane's id    *)
(* and its Simulator, then a port; a resume, restart or attach the lane it *)
(* read; and both a Metro of their own between spawning and recording it.  *)
Starting == {"reserved", "probed", "preparing", "spawned", "storing"}
Returning == Pcs \ (Starting \cup {"idle", "looking", "inventory"})

TaskShape ==
    \A a \in Apps :
        /\ (task[a].udid # None) <=> (task[a].pc \in Starting)
        /\ (task[a].was # None) <=> (task[a].pc \in Returning)
        /\ (task[a].lane # None) <=> (task[a].pc \in Starting \cup Returning)
        /\ task[a].pc \in Starting \ {"reserved"} => task[a].port # None
        /\ task[a].pc \in {"idle", "looking", "inventory", "reserved"} => task[a].port = None
        /\ (task[a].fresh # None)
             <=> (task[a].pc \in {"spawned", "storing", "revived", "respawned", "recording"})

(* The lane of a start is its own until it is stored, and then is what the *)
(* start made it...                                                        *)
NewLaneOwned ==
    \A a \in Apps : task[a].pc \in Starting =>
        /\ \A b \in Apps \ {a} : task[b].lane # task[a].lane
        /\ Stored(task[a].lane) =>
             /\ task[a].pc = "storing"
             /\ store[task[a].lane].app = a
             /\ store[task[a].lane].udid = task[a].udid
             /\ store[task[a].lane].pid = task[a].fresh

(* ...and the lane of any other task, while it is stored, is the one the   *)
(* task read, with the Metro it read or recorded: only tasks of the lane's *)
(* app change its Metro, and the app has one task at a time.               *)
LaneAsRead ==
    \A a \in Apps : task[a].pc \in Returning =>
        /\ ~task[a].resumes
        /\ (\/ task[a].pc \in {"exited", "revived", "respawned"}
            \/ task[a].port # None /\ task[a].pc # "recording")
           => task[a].was.pid \notin alive
        /\ Stored(task[a].lane) =>
             /\ store[task[a].lane].app = a
             /\ task[a].was.app = a
             /\ store[task[a].lane].udid = task[a].was.udid
             /\ store[task[a].lane].pid =
                  (IF task[a].pc = "recording" THEN task[a].fresh ELSE task[a].was.pid)

(* A task with a Metro of its own is about to hand it to a lane or to stop *)
(* it, or the lane has it, or the stop of the lane has stopped or left it. *)
FreshKept ==
    \A a \in Apps : task[a].pc \in {"storing", "recording"} =>
        Stored(task[a].lane) \/ task[a].fresh \notin alive \ (signalled \cup strays)

(* The inductive invariants, when no resume turns a backend off: of the    *)
(* Simulators, and of the Metros.                                          *)
LaneInv == TypeOK /\ TaskShape /\ NewLaneOwned /\ LaneAsRead /\ DeviceExclusive

Inv == LaneInv /\ FreshKept /\ NoOrphan
=============================================================================
