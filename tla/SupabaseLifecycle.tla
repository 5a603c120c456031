-------------------------- MODULE SupabaseLifecycle --------------------------
(***************************************************************************)
(* Lifecycle jobs of the Supabase engine (main/supabase/service-engine.ts, *)
(* service-operations.ts, engine-support.ts, admission.ts): starts, stops, *)
(* restarts, recreations and destroys of local stacks take a gate and then *)
(* the locks of their stacks, starts ask for room and may stop another     *)
(* stack for it, the feature is turned off and on, and the desktop may     *)
(* quit or crash while the CLI children it spawned run on.                 *)
(*                                                                         *)
(* An action is what a job does between two awaits that others can notice: *)
(* joining a line, its turn, an admission decision, the end of a CLI child.*)
(***************************************************************************)
EXTENDS Naturals, Sequences, FiniteSets

CONSTANTS Stacks,          \* managed stacks, numbered as their ids sort
          Jobs,            \* identities of concurrent jobs
          Requests,        \* bound: the kinds of job asked for, and "hold"
          Cap,             \* supabaseRunningCap
          LifecycleSlots,  \* SUPABASE_LIFECYCLE_CONCURRENCY
          MaxStops,        \* MAX_ADMISSION_STOPS
          MaxCrashes,      \* bound: how often the desktop goes down
          MaxStray,        \* bound: what unseen children may yet do
          None

Gates == {"creation", "lifecycle"}
Kinds == {"create", "resume", "recreate", "restart", "stop", "due", "room",
          "destroy", "disable"}

ASSUME LifecycleAssumption ==
    /\ Stacks \subseteq Nat /\ IsFiniteSet(Stacks) /\ IsFiniteSet(Jobs)
    /\ {Cap, LifecycleSlots} \subseteq Nat \ {0}
    /\ {MaxStops, MaxCrashes, MaxStray} \subseteq Nat
    /\ None \notin Jobs \cup Stacks /\ None \notin Kinds \cup Gates

VARIABLES
    enabled,  \* the policy's switch
    saving,   \* a turn-off's policy is being saved
    turning,  \* what that turn-off saw running before
    down,     \* ghost: stacks the turn-off has stopped since
    up,       \* stacks whose processes run
    stray,    \* what children the desktop lost sight of may yet do
    shown,    \* stacks the list and statuses show running
    held,     \* those of them with a pin, a live hold or a keeper
    kind,     \* what each job is
    on,       \* the stacks it names
    pc,       \* where it is
    at,       \* the stack it works on or whose lock it awaits
    left,     \* stacks whose locks it takes, or which it stops, after that
    maker,    \* the start that awaits this stop for room
    round,    \* stops an admission has asked for
    aborted,  \* jobs cancelled before their turn
    line,     \* those that wait for a slot of each gate
    lock,     \* the keyed lock: each stack's holder, then those that wait
    crashes,  \* how often the desktop went down
    loose     \* ghost: a stack may have come up uncounted

engineVars == <<enabled, saving, turning, down>>
stackVars == <<up, stray, shown, held>>
jobVars == <<kind, on, pc, at, left, maker, round, aborted>>
vars == <<engineVars, stackVars, jobVars, line, lock, crashes, loose>>

StartingKinds_NoRestart == {"create", "resume", "recreate"}

(* STARTING_JOB_KINDS: jobs that can bring a stack up. *)
StartingKinds == {"create", "resume", "recreate", "restart"}

(* Kinds whose jobs begin before they have a turn. *)
EagerKinds == {"stop", "destroy", "disable"}

(* The kinds admission counts as starting. *)
CountedKinds == {"create", "resume", "recreate"}

GateOf_RoomGated(k) == IF k \in {"create", "recreate"} THEN "creation" ELSE "lifecycle"

GateOf(k) ==
    CASE k \in {"create", "recreate"} -> "creation"
      [] k \in {"resume", "restart", "stop", "due"} -> "lifecycle"
      [] OTHER -> None

Slots == [creation |-> 1, lifecycle |-> LifecycleSlots]

Init ==
    /\ enabled = TRUE
    /\ saving = FALSE /\ turning = {}
    /\ down = {}
    /\ up = {} /\ stray = {} /\ shown = {} /\ held = {}
    /\ kind = [j \in Jobs |-> None]
    /\ on = [j \in Jobs |-> {}]
    /\ pc = [j \in Jobs |-> "none"]
    /\ at = [j \in Jobs |-> None]
    /\ left = [j \in Jobs |-> {}]
    /\ maker = [j \in Jobs |-> None]
    /\ round = [j \in Jobs |-> 0]
    /\ aborted = {}
    /\ line = [g \in Gates |-> <<>>]
    /\ lock = [s \in Stacks |-> <<>>]
    /\ crashes = 0
    /\ loose = FALSE

-----------------------------------------------------------------------------
(* What the list and the statuses show from now on. *)
Shows(S) == shown' = S /\ held' = held \cap S

(* The jobs the store lists. *)
Active == {j \in Jobs : pc[j] \notin {"none", "asked"}}
Adopted == {j \in Jobs : pc[j] \in {"adopted start", "adopted stop"}}
InFlight(s) == \E j \in Active : s \in on[j]

(* Status running, not queued. *)
Begun(j) == j \in Active /\ (kind[j] \in EagerKinds \/ pc[j] \notin {"gate", "lock"})

(* Jobs that have a slot of the gate. *)
Inside(g) == {j \in Active \ Adopted : GateOf(kind[j]) = g /\ pc[j] # "gate"}

Holds(j, s) == lock[s] # <<>> /\ Head(lock[s]) = j
HasLock(j) == Holds(j, at[j])

First(S) == CHOOSE s \in S : \A t \in S : s <= t

(* Where a new job waits first. *)
Entry(k) ==
    IF k = "disable" THEN "settling" ELSE IF GateOf(k) = None THEN "lock" ELSE "gate"

(* The job joins its gate's line, or that of its first stack's lock. *)
Joins(j, k, S) ==
    /\ line' = IF Entry(k) = "gate" THEN [line EXCEPT ![GateOf(k)] = Append(@, j)] ELSE line
    /\ lock' = IF Entry(k) = "lock" THEN [lock EXCEPT ![First(S)] = Append(@, j)] ELSE lock
    /\ kind' = [kind EXCEPT ![j] = k]
    /\ on' = [on EXCEPT ![j] = S]
    /\ at' = [at EXCEPT ![j] = First(S)]
    /\ left' = [left EXCEPT ![j] = S \ {First(S)}]

(* startJob: the store lists the job at once. *)
NewJob(j, k, S) ==
    /\ pc[j] = "none"
    /\ pc' = [pc EXCEPT ![j] = Entry(k)]
    /\ Joins(j, k, S)
    /\ UNCHANGED <<maker, round, aborted>>

(* The end of a job's work gives back its slot and its locks and makes it  *)
(* terminal; the admission that awaited a stop decides again, or is called *)
(* off as the stop was.                                                    *)
Ended(j, calledOff) ==
    /\ pc' = [i \in Jobs |->
                IF i = j THEN "none"
                ELSE IF maker[j] = i THEN IF calledOff THEN "denied" ELSE "admit"
                ELSE pc[i]]
    /\ kind' = [kind EXCEPT ![j] = None]
    /\ on' = [on EXCEPT ![j] = {}]
    /\ at' = [at EXCEPT ![j] = None]
    /\ left' = [left EXCEPT ![j] = {}]
    /\ maker' = [maker EXCEPT ![j] = None]
    /\ round' = [round EXCEPT ![j] = 0]
    /\ aborted' = aborted \ {j}
    /\ lock' = [s \in Stacks |-> IF Holds(j, s) THEN Tail(lock[s]) ELSE lock[s]]

Ends(j, calledOff) == Ended(j, calledOff) /\ UNCHANGED line

Becomes(j, where) ==
    /\ pc' = [pc EXCEPT ![j] = where]
    /\ UNCHANGED <<kind, on, at, left, maker, round, aborted, line, lock>>

-----------------------------------------------------------------------------
(* Requests that become jobs.                                              *)

(* ensureStack, past its reads of a fresh list: the stack does not run, and*)
(* this is the one flight of its identity.                                 *)
Ensure(j, s, k) ==
    /\ enabled
    /\ k \in Requests \cap {"create", "resume"}
    /\ s \notin up
    /\ \A i \in Active \ Adopted : s \in on[i] => kind[i] \notin {"create", "resume"}
    /\ NewJob(j, k, {s})
    /\ Shows(up)
    /\ UNCHANGED <<engineVars, up, stray, crashes, loose>>

(* The operator's stop of a stack. *)
Stop(j, s) ==
    /\ enabled /\ "stop" \in Requests
    /\ NewJob(j, "stop", {s})
    /\ UNCHANGED <<engineVars, stackVars, crashes, loose>>

(* The operator's recreate and restart (or stop-and-start, or Studio), once*)
(* preflight let it pass: HEAD and the worktree's facts are read first.    *)
Ask(j, s, k) ==
    /\ enabled
    /\ k \in Requests \cap {"recreate", "restart"}
    /\ pc[j] = "none"
    /\ kind' = [kind EXCEPT ![j] = k]
    /\ on' = [on EXCEPT ![j] = {s}]
    /\ pc' = [pc EXCEPT ![j] = "asked"]
    /\ UNCHANGED <<engineVars, stackVars, at, left, maker, round, aborted, line, lock, crashes, loose>>

(* Then it becomes a job, whether or not the feature is still on, or it is *)
(* refused because HEAD moved.                                             *)
Operate(j) ==
    /\ pc[j] = "asked"
    /\ \/ /\ pc' = [pc EXCEPT ![j] = Entry(kind[j])]
          /\ Joins(j, kind[j], on[j])
          /\ UNCHANGED <<maker, round, aborted>>
       \/ Ends(j, FALSE)
    /\ UNCHANGED <<engineVars, stackVars, crashes, loose>>

(* Destroy, or a prune of several: the locks in the order of the ids. *)
Destroy(j, S) ==
    /\ enabled /\ "destroy" \in Requests
    /\ S # {}
    /\ NewJob(j, "destroy", S)
    /\ UNCHANGED <<engineVars, stackVars, crashes, loose>>

(* reconcileHolds: the linger of an unheld stack has run out. *)
StopWhenDue(j, s) ==
    /\ enabled /\ "due" \in Requests
    /\ s \in shown \ held
    /\ ~InFlight(s)
    /\ NewJob(j, "due", {s})
    /\ UNCHANGED <<engineVars, stackVars, crashes, loose>>

(* cancelJob before the job's turn; later it only makes the CLI fail.  In  *)
(* a gate's line the job leaves at once.                                   *)
Cancel(j) ==
    /\ kind[j] \in {"create", "resume"}
    /\ \/ /\ pc[j] = "gate"
          /\ \E i \in DOMAIN line[GateOf(kind[j])] :
               /\ line[GateOf(kind[j])][i] = j
               /\ line' = [line EXCEPT ![GateOf(kind[j])] =
                                SubSeq(@, 1, i - 1) \o SubSeq(@, i + 1, Len(@))]
          /\ Ended(j, TRUE)
       \/ /\ pc[j] = "lock"
          /\ aborted' = aborted \cup {j}
          /\ UNCHANGED <<kind, on, pc, at, left, maker, round, line, lock>>
    /\ UNCHANGED <<engineVars, stackVars, crashes, loose>>

-----------------------------------------------------------------------------
(* Turns.                                                                  *)

(* A slot of the gate is free or passed on: on to the lock of the stack. *)
TakeSlot(j) ==
    /\ pc[j] = "gate"
    /\ LET g == GateOf(kind[j]) IN
         /\ line[g] # <<>> /\ Head(line[g]) = j
         /\ Cardinality(Inside(g)) < Slots[g]
         /\ line' = [line EXCEPT ![g] = Tail(@)]
    /\ pc' = [pc EXCEPT ![j] = "lock"]
    /\ lock' = [lock EXCEPT ![at[j]] = Append(@, j)]
    /\ UNCHANGED <<engineVars, stackVars, kind, on, at, left, maker, round, aborted, crashes, loose>>

(* A destroy of several stacks takes the next lock inside the ones it has. *)
NextLock(j) ==
    /\ pc[j] = "lock" /\ kind[j] = "destroy" /\ HasLock(j)
    /\ left[j] # {}
    /\ LET s == First(left[j]) IN
         /\ at' = [at EXCEPT ![j] = s]
         /\ left' = [left EXCEPT ![j] = @ \ {s}]
         /\ lock' = [lock EXCEPT ![s] = Append(@, j)]
    /\ UNCHANGED <<engineVars, stackVars, kind, on, pc, maker, round, aborted, line, crashes, loose>>

HasTurn_Unlocked(j) == pc[j] = "lock"

(* It holds every lock it needs. *)
HasTurn(j) ==
    /\ pc[j] = "lock" /\ HasLock(j)
    /\ kind[j] = "destroy" => left[j] = {}

CalledOff_Aborted(j) == j \in aborted

(* calledOff, and the signal of a start cancelled while it waited.  Only   *)
(* the turn-off's own stops are not called off.                            *)
CalledOff(j) == (kind[j] # "disable" /\ ~enabled) \/ j \in aborted

CallOff(j) ==
    /\ HasTurn(j)
    /\ CalledOff(j)
    /\ Ends(j, TRUE)
    /\ UNCHANGED <<engineVars, stackVars, crashes, loose>>

(* ifStillDue: "In use again". *)
SkipStop(j) ==
    /\ HasTurn(j) /\ ~CalledOff(j)
    /\ kind[j] = "due" /\ at[j] \in held
    /\ Ends(j, FALSE)
    /\ UNCHANGED <<engineVars, stackVars, crashes, loose>>

(* What the work begins with; a stack that is not shown is not stopped to  *)
(* be recreated.                                                           *)
FirstStep(j) ==
    IF kind[j] \in {"create", "resume"} THEN "admit"
    ELSE IF kind[j] = "destroy" \/ (kind[j] = "recreate" /\ at[j] \notin shown)
         THEN "destroying" ELSE "stopping"

Begin(j) ==
    /\ HasTurn(j) /\ ~CalledOff(j)
    /\ ~(kind[j] = "due" /\ at[j] \in held)
    /\ Becomes(j, FirstStep(j))
    /\ loose' = (loose \/ (kind[j] = "restart" /\ at[j] \notin up))
    /\ UNCHANGED <<engineVars, stackVars, crashes>>

-----------------------------------------------------------------------------
(* Admission.                                                              *)

Occupied_ShownOnly(j) == Cardinality(shown \ on[j])

(* Running stacks and starts in flight, other than this job's own. *)
Occupied(j) ==
    Cardinality(shown \ on[j]) +
    Cardinality({i \in Active : /\ kind[i] \in CountedKinds /\ Begun(i)
                                /\ on[i] \cap on[j] = {}})

(* Running stacks of others that nothing holds and no job names. *)
Candidates(j) == {s \in (shown \ on[j]) \ held : ~InFlight(s)}

(* Every stack that runs, or may after a restart, is shown running or has  *)
(* a begun start.                                                          *)
CountIsComplete ==
    LET counted == UNION {on[i] : i \in {i \in Active : kind[i] \in CountedKinds /\ Begun(i)}}
        restarting == UNION {on[i] : i \in {i \in Active : kind[i] = "restart" /\ Begun(i)}}
    IN  up \cup restarting \subseteq shown \cup counted

Allow(j) ==
    /\ pc[j] = "admit" /\ enabled
    /\ Occupied(j) < Cap
    /\ Becomes(j, "starting")
    /\ loose' = (loose \/ ~CountIsComplete)
    /\ UNCHANGED <<engineVars, stackVars, crashes>>

(* The least recently used candidate, whichever that is, is stopped by a   *)
(* job of its own that passes no gate, as this one is inside it already.   *)
(* Full, or short of Postgres segments.                                    *)
MakeRoom(j, s, k) ==
    /\ pc[j] = "admit" /\ enabled
    /\ round[j] < MaxStops
    /\ s \in Candidates(j)
    /\ pc[k] = "none"
    /\ Joins(k, "room", {s})
    /\ pc' = [i \in Jobs |-> IF i = j THEN "making" ELSE IF i = k THEN Entry("room") ELSE pc[i]]
    /\ maker' = [maker EXCEPT ![k] = j]
    /\ round' = [round EXCEPT ![j] = @ + 1]
    /\ UNCHANGED <<engineVars, stackVars, aborted, crashes, loose>>

(* No candidate, or too many rounds; critical memory pressure refuses at   *)
(* any time; and off, nothing is admitted.                                 *)
Refuse(j) ==
    /\ pc[j] \in {"admit", "denied"}
    /\ Ends(j, FALSE)
    /\ UNCHANGED <<engineVars, stackVars, crashes, loose>>

-----------------------------------------------------------------------------
(* CLI children.  A start that fails, is interrupted or refused leaves the *)
(* stack down: the CLI cleans up after itself.                             *)

Starts(j) ==
    /\ pc[j] = "starting"
    /\ up' = up \cup {at[j]}
    /\ Becomes(j, "verifying")
    /\ UNCHANGED <<engineVars, stray, shown, held, crashes, loose>>

StartFails(j) ==
    /\ pc[j] = "starting"
    /\ Ends(j, FALSE)
    /\ UNCHANGED <<engineVars, stackVars, crashes, loose>>

(* verifyAfterStart: only on 127.0.0.1, or it is stopped; then the list and*)
(* the status are read, unless the feature is off.                         *)
Verified(j) ==
    /\ pc[j] = "verifying"
    /\ up' \in {up, up \ {at[j]}}
    /\ Shows(IF enabled THEN up' ELSE {})
    /\ Ends(j, FALSE)
    /\ UNCHANGED <<engineVars, stray, crashes, loose>>

(* A disable goes on with its next stack once it gave this one's lock back.*)
NextToDisable(j) ==
    /\ kind[j] = "disable" /\ left[j] # {}
    /\ LET s == First(left[j]) IN
         /\ at' = [at EXCEPT ![j] = s]
         /\ left' = [left EXCEPT ![j] = @ \ {s}]
         /\ lock' = [t \in Stacks |-> IF t = s THEN Append(lock[t], j)
                                       ELSE IF Holds(j, t) THEN Tail(lock[t]) ELSE lock[t]]
    /\ pc' = [pc EXCEPT ![j] = "lock"]
    /\ UNCHANGED <<kind, on, maker, round, aborted, line>>

AfterStop(j) ==
    \/ kind[j] = "restart" /\ Becomes(j, "starting")
    \/ kind[j] = "recreate" /\ Becomes(j, "destroying")
    \/ NextToDisable(j)
    \/ /\ kind[j] \notin {"restart", "recreate"}
       /\ kind[j] = "disable" => left[j] = {}
       /\ Ends(j, FALSE)

(* stopStep, with the reads that follow a stop. *)
Stops(j) ==
    /\ pc[j] = "stopping"
    /\ up' = up \ {at[j]}
    /\ Shows(shown \ {at[j]})
    /\ down' = IF kind[j] = "disable" /\ ~enabled THEN down \cup {at[j]} ELSE down
    /\ AfterStop(j)
    /\ UNCHANGED <<enabled, saving, turning, stray, crashes, loose>>

StopFails(j) ==
    /\ pc[j] = "stopping"
    /\ \/ NextToDisable(j)
       \/ (kind[j] = "disable" => left[j] = {}) /\ Ends(j, FALSE)
    /\ UNCHANGED <<engineVars, stackVars, crashes, loose>>

(* destroyStep reads a fresh list, and refuses a stack that runs and, while*)
(* off, every stack; a recreation then asks for room.                      *)
Destroys(j) ==
    /\ pc[j] = "destroying"
    /\ Shows(IF enabled THEN up ELSE {})
    /\ \/ kind[j] = "recreate" /\ enabled /\ at[j] \notin up /\ Becomes(j, "admit")
       \/ Ends(j, FALSE)
    /\ UNCHANGED <<engineVars, up, stray, crashes, loose>>

-----------------------------------------------------------------------------
(* Turning off and on (service-operations.ts setEnabled).                  *)

TurnOff ==
    /\ enabled /\ ~saving
    /\ saving' = TRUE
    /\ turning' = shown
    /\ UNCHANGED <<enabled, down, stackVars, jobVars, line, lock, crashes, loose>>

(* The policy is saved.  With "stop managed stacks" the stacks that ran    *)
(* then, and those of starts that have begun, are stopped by a job.        *)
TurnedOff(j) ==
    LET begun == {i \in Active : kind[i] \in StartingKinds /\ Begun(i)}
        stacks == turning \cup UNION {on[i] : i \in begun}
    IN  /\ saving
        /\ enabled' = FALSE
        /\ saving' = FALSE /\ turning' = {}
        /\ down' = {}
        /\ \/ UNCHANGED <<jobVars, line, lock>>
           \/ /\ stacks # {} /\ "disable" \in Requests
              /\ NewJob(j, "disable", stacks)
        /\ Shows({})
        /\ UNCHANGED <<up, stray, crashes, loose>>

(* No start is queued or runs. *)
StartsSettled == \A i \in Active : kind[i] \notin StartingKinds

(* whenStartsSettled. *)
Disable(j) ==
    /\ pc[j] = "settling"
    /\ StartsSettled
    /\ pc' = [pc EXCEPT ![j] = "lock"]
    /\ lock' = [lock EXCEPT ![at[j]] = Append(@, j)]
    /\ UNCHANGED <<engineVars, stackVars, kind, on, at, left, maker, round, aborted, line, crashes, loose>>

(* A turn-off that stops stacks is in progress. *)
Disabling == \E j \in Active \ Adopted : kind[j] = "disable"

(* Not before a turn-off's last stop.  The first list is still to be read. *)
TurnOn ==
    /\ ~enabled /\ ~Disabling
    /\ enabled' = TRUE
    /\ down' = {}
    /\ UNCHANGED <<saving, turning, stackVars, jobVars, line, lock, crashes, loose>>

-----------------------------------------------------------------------------
(* The rest of the world.                                                  *)

Refresh ==
    /\ enabled /\ shown # up
    /\ Shows(up)
    /\ UNCHANGED <<engineVars, up, stray, jobVars, line, lock, crashes, loose>>

(* A stack is shown running: a lane, session or agent attaches to it, or   *)
(* the operator pins it (#attachRunning makes no job).                     *)
Hold(s) ==
    /\ enabled /\ "hold" \in Requests
    /\ s \in shown \ held
    /\ held' = held \cup {s}
    /\ UNCHANGED <<engineVars, up, stray, shown, jobVars, line, lock, crashes, loose>>

Unhold(s) ==
    /\ s \in held
    /\ held' = held \ {s}
    /\ UNCHANGED <<engineVars, up, stray, shown, jobVars, line, lock, crashes, loose>>

(* What the CLI child of a job may yet do to its stack.  `stack restart`   *)
(* is one child that may do either.                                        *)
Children == {j \in Jobs : pc[j] \in {"starting", "stopping", "destroying",
                                     "adopted start", "adopted stop"}}
MayDo(j) ==
    (IF pc[j] \in {"starting", "adopted start"} \/ kind[j] = "restart"
        THEN {<<at[j], "up">>} ELSE {})
    \cup (IF pc[j] \in {"starting", "adopted start"} THEN {} ELSE {<<at[j], "down">>})

(* The desktop goes down and comes back: jobs in flight are lost, except   *)
(* that a recorded CLI child is adopted with its job and followed by pid,  *)
(* without gate or lock.  A child whose record was not written, or of      *)
(* which ps shows nothing or another command, runs on unseen.              *)
ComesBack(adopted) ==
    /\ crashes < MaxCrashes
    /\ crashes' = crashes + 1
    /\ pc' = [j \in Jobs |->
                IF j \notin adopted THEN "none"
                ELSE IF pc[j] \in {"starting", "adopted start"}
                     THEN "adopted start" ELSE "adopted stop"]
    /\ kind' = [j \in Jobs |-> IF j \in adopted THEN kind[j] ELSE None]
    /\ on' = [j \in Jobs |-> IF j \in adopted THEN on[j] ELSE {}]
    /\ at' = [j \in Jobs |-> IF j \in adopted THEN at[j] ELSE None]
    /\ left' = [j \in Jobs |-> {}]
    /\ maker' = [j \in Jobs |-> None]
    /\ round' = [j \in Jobs |-> 0]
    /\ aborted' = {}
    /\ line' = [g \in Gates |-> <<>>]
    /\ lock' = [s \in Stacks |-> <<>>]
    /\ saving' = FALSE /\ turning' = {}
    /\ stray' = stray \cup UNION {MayDo(j) : j \in Children \ adopted}
    /\ Cardinality(stray') <= MaxStray
    /\ Shows({})
    /\ UNCHANGED <<enabled, down, up, loose>>

Crash == \E adopted \in SUBSET Children : ComesBack(adopted)

(* #followAdopted: the child is gone, or the time to follow it is up, and  *)
(* the job ends before the list is read again.                             *)
AdoptedEnds(j) ==
    /\ j \in Adopted
    /\ \/ up' = up /\ stray' \in {stray, stray \cup MayDo(j)}
          /\ Cardinality(stray') <= MaxStray
       \/ <<at[j], "up">> \in MayDo(j) /\ up' = up \cup {at[j]} /\ UNCHANGED stray
       \/ <<at[j], "down">> \in MayDo(j) /\ up' = up \ {at[j]} /\ UNCHANGED stray
    /\ Ends(j, FALSE)
    /\ UNCHANGED <<engineVars, shown, held, crashes, loose>>

(* A child nobody follows does its work, now or never.  Several that may   *)
(* do the same to a stack are one entry.                                   *)
StrayActs(s, way) ==
    /\ <<s, way>> \in stray
    /\ stray' \in {stray, stray \ {<<s, way>>}}
    /\ \/ way = "up" /\ up' = up \cup {s} /\ down' = down \ {s}
       \/ way = "down" /\ up' = up \ {s} /\ UNCHANGED down
    /\ loose' = (loose \/ ~(up' \subseteq up))
    /\ UNCHANGED <<enabled, saving, turning, shown, held, jobVars, line, lock, crashes>>

-----------------------------------------------------------------------------
Request(j) ==
    \/ \E s \in Stacks, k \in Kinds : Ensure(j, s, k) \/ Ask(j, s, k)
    \/ \E s \in Stacks : Stop(j, s) \/ StopWhenDue(j, s)
    \/ \E S \in SUBSET Stacks : Destroy(j, S)
    \/ Cancel(j)

(* What a job does by itself once it can. *)
Work(j) ==
    \/ Operate(j) \/ TakeSlot(j) \/ NextLock(j) \/ CallOff(j) \/ SkipStop(j) \/ Begin(j)
    \/ Allow(j) \/ Refuse(j) \/ \E s \in Stacks, k \in Jobs : MakeRoom(j, s, k)
    \/ Starts(j) \/ StartFails(j) \/ Verified(j)
    \/ Stops(j) \/ StopFails(j) \/ Destroys(j)
    \/ Disable(j) \/ AdoptedEnds(j)

World ==
    \/ TurnOff \/ TurnOn \/ Refresh \/ Crash
    \/ \E s \in Stacks : Hold(s) \/ Unhold(s)
    \/ \E s \in Stacks, way \in {"up", "down"} : StrayActs(s, way)
    \/ \E j \in Jobs : TurnedOff(j)

Next == World \/ \E j \in Jobs : Request(j) \/ Work(j)

Spec == Init /\ [][Next]_vars

(* Promise reactions run, every CLI call has a budget after which it is    *)
(* killed, and an adopted child is followed until a deadline.              *)
Fairness == \A j \in Jobs : WF_vars(Work(j))

FairSpec == Spec /\ Fairness

-----------------------------------------------------------------------------
Places == {"none", "asked", "gate", "lock", "admit", "making", "denied", "starting", "verifying",
           "stopping", "destroying", "settling", "adopted start", "adopted stop"}

TypeOK ==
    /\ enabled \in BOOLEAN
    /\ saving \in BOOLEAN /\ turning \in SUBSET Stacks
    /\ down \in SUBSET Stacks /\ up \in SUBSET Stacks
    /\ stray \in SUBSET (Stacks \X {"up", "down"})
    /\ shown \in SUBSET Stacks /\ held \in SUBSET Stacks
    /\ kind \in [Jobs -> Kinds \cup {None}]
    /\ on \in [Jobs -> SUBSET Stacks]
    /\ pc \in [Jobs -> Places]
    /\ at \in [Jobs -> Stacks \cup {None}]
    /\ left \in [Jobs -> SUBSET Stacks]
    /\ maker \in [Jobs -> Jobs \cup {None}]
    /\ round \in [Jobs -> 0..MaxStops]
    /\ aborted \in SUBSET Jobs
    /\ line \in [Gates -> Seq(Jobs)]
    /\ lock \in [Stacks -> Seq(Jobs)]
    /\ crashes \in 0..MaxCrashes
    /\ loose \in BOOLEAN

(* A job that works on stacks, and on which. *)
AtWork(j) == pc[j] \in {"admit", "making", "denied", "starting", "verifying", "stopping", "destroying"}
WorksOn(j) == IF kind[j] = "destroy" THEN on[j] ELSE {at[j]}

(* Every job that works on a stack is at the head of its lock's line, and  *)
(* a destroy that takes several locks keeps those it has.                  *)
WorkersHoldLocks ==
    \A j \in Jobs :
        /\ AtWork(j) => \A s \in WorksOn(j) : Holds(j, s)
        /\ kind[j] = "destroy" /\ pc[j] = "lock"
              => \A s \in on[j] \ (left[j] \cup {at[j]}) : Holds(j, s)

(* Every job has a kind and a stack and waits where its kind does, and a   *)
(* stop for room has one maker, which waits for it and for no other.       *)
Placed(j) ==
    /\ pc[j] # "none" => kind[j] \in Kinds /\ on[j] # {}
    /\ pc[j] \notin {"none", "asked"} => at[j] \in Stacks
    /\ pc[j] = "gate" => GateOf(kind[j]) \in Gates
    /\ pc[j] = "settling" => kind[j] = "disable"
JobsArePlaced == \A j \in Jobs : Placed(j)
MakersWait ==
    \A j \in Jobs :
        maker[j] # None => /\ pc[maker[j]] = "making"
                           /\ \A i \in Jobs : maker[i] = maker[j] => i = j

(* No more jobs are inside a gate than it has slots: "New stacks are       *)
(* created one at a time" (admission.ts).                                  *)
SlotsRespected == \A g \in Gates : Cardinality(Inside(g)) <= Slots[g]

(* Jobs that start a stack are of a kind a turn-off waits for, and once it *)
(* stops stacks none of them has begun.                                    *)
StartersAreKnown ==
    \A j \in Jobs : pc[j] \in {"admit", "making", "denied", "starting", "verifying", "adopted start"}
                      => kind[j] \in StartingKinds
NoStartBegun == \A i \in Active : kind[i] \in StartingKinds => pc[i] \in {"gate", "lock"}
DisablesWhileOff ==
    \A j \in Jobs :
        /\ kind[j] = "disable" => pc[j] \in {"settling", "lock", "stopping", "adopted stop"}
        /\ kind[j] = "disable" /\ pc[j] # "adopted stop" => ~enabled
        /\ kind[j] = "disable" /\ pc[j] \in {"lock", "stopping"} => NoStartBegun
StoppedWhileOff == (~enabled /\ down # {}) => NoStartBegun

Inv ==
    /\ TypeOK /\ JobsArePlaced /\ MakersWait /\ WorkersHoldLocks /\ SlotsRespected
    /\ StartersAreKnown /\ DisablesWhileOff /\ StoppedWhileOff

(* No two jobs that the desktop runs itself ever have commands at work on  *)
(* one stack, whatever gates they passed or whoever asked for them: stops  *)
(* for room and of a turn-off are jobs of their own.  Children of an       *)
(* earlier desktop are no part of it: they run without the lock, adopted   *)
(* or not, beside the commands of new jobs.                                *)
OneWorkerPerStack ==
    \A i, j \in Jobs : (i # j /\ AtWork(i) /\ AtWork(j)) => WorksOn(i) \cap WorksOn(j) = {}

(* A stack that turning off has stopped stays down while the feature is    *)
(* off: no start that was queued, running, restarted or adopted brings it  *)
(* up again afterwards.  Only a child that the desktop has lost sight of   *)
(* can, as nothing waits for it; what it starts leaves the ghost `down`.   *)
OffStaysOff == ~enabled => up \cap down = {}

(* Admission counts well: as long as every start was admitted on a         *)
(* complete count, no restart brought up a stack that did not run, and no  *)
(* child the desktop lost sight of brought one up (then `loose` is TRUE),  *)
(* the stacks that run or are being started are never more than the cap,   *)
(* whatever starts decide, fail, make room or are adopted at once.         *)
Coming == {s \in Stacks : \E i \in Active : s \in on[i] /\ pc[i] \in {"starting", "adopted start"}}
WithinCap == ~loose => Cardinality(up \cup Coming) <= Cap

(* "held, pinned and external stacks are never stopped to make room"       *)
(* (admission.ts).                                                         *)
HeldKeepRunning ==
    [][\A j \in Jobs : (kind[j] = "room" /\ pc[j] = "lock" /\ pc'[j] = "stopping")
            => at[j] \notin held]_vars

(* "the stacks to stop are the managed stacks the state showed running or  *)
(* starting ... at the switch" (DESIGN.md).                                *)
SwitchStopsAllShown ==
    [][\A j \in Jobs : (pc[j] = "none" /\ pc'[j] = "settling") => shown \subseteq on'[j]]_vars

(* Gates, locks, the stops that starts wait for and the starts a turn-off  *)
(* waits for never form a circle: every job ends.                          *)
EveryJobEnds == \A j \in Jobs : (pc[j] # "none") ~> (pc[j] = "none")
=============================================================================
