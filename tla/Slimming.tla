------------------------------ MODULE Slimming ------------------------------
(***************************************************************************)
(* Slimming of Simulators (main/slimming-service.ts, slimming-persistence. *)
(* ts): jobs that change which launchd services a Simulator disables, the  *)
(* record of a change written before the helper is let loose and settled   *)
(* after it, the emergency restore point that record keeps when the change *)
(* did not end well, and the refresh that reconciles records left behind.  *)
(*                                                                         *)
(* A job runs under the lease of its Simulator, here the abstract lease    *)
(* that MutationCoordinator implements, and inside it takes its turn in    *)
(* the service's own mutation queue. What a failed job still has to record *)
(* it records after it gave up both.                                       *)
(***************************************************************************)
EXTENDS Naturals, Sequences

CONSTANTS Simulators,
          Jobs,         \* identities of the jobs ever asked for
          Requests,     \* bound: the kinds of job asked for
          Batches,      \* the target lists they are asked for with
          Cancellable,  \* bound: the jobs somebody cancels
          Visited,      \* bound: Simulators whose lease a lane or recipe asks for
          Refresh,      \* the refresh as a holder of a lease
          Guest,        \* a lane or recipe as a holder of a lease
          MaxCrashes,   \* bound: how often the desktop dies
          MaxFailures,  \* bound: how many writes the disk refuses
          None

Kinds == {"apply", "restore", "undo", "forget"}

ASSUME SlimmingAssumption ==
    /\ Requests \subseteq Kinds
    /\ Batches \subseteq Seq(Simulators) \ {<<>>}
    /\ \A b \in Batches : \A i, k \in DOMAIN b : b[i] = b[k] => i = k
    /\ Cancellable \subseteq Jobs /\ Visited \subseteq Simulators
    /\ {MaxCrashes, MaxFailures} \subseteq Nat
    /\ None \notin Jobs \cup Simulators
    /\ Refresh \notin Jobs \cup {None, Guest} /\ Guest \notin Jobs \cup {None}

(* What a Simulator disables: nothing, what the profile says, or whatever  *)
(* was reached when a change broke off.                                    *)
ServiceSets == {"clean", "slim", "partial"}

Recoveries == [id : Jobs, before : ServiceSets]
Records ==
    [id : Jobs, before : ServiceSets, after : ServiceSets, recovery : {None} \cup Recoveries]

ASSUME NoneAssumption == None \notin Kinds \cup ServiceSets \cup Recoveries \cup Records

VARIABLES
    services,    \* what each Simulator disables
    pending,     \* durable: its unsettled change
    checkpoint,  \* durable: what Undo of its last completed change restores
    holder,      \* who holds its mutation lease
    line,        \* who waits for that
    turns,       \* #mutationQueue: jobs inside it or waiting for it
    writes,      \* #writeQueue of the persistence
    kind,        \* of each job
    targets,     \* of each job
    place,       \* the target a job is at
    phase,       \* where it is with that target
    goal,        \* the service set it is to reach
    record,      \* the record its attempt settles
    cancelled,   \* jobs whose signal fired
    healthy,     \* #persistenceHealthy
    ready,       \* the helper answered the last refresh
    stopped,     \* stop was called
    refresh,     \* where the refresh is
    todo,        \* records it has yet to look at
    at,          \* the Simulator whose lease it took
    seen,        \* the record and recovery it took it for
    restartDue,  \* #restartReconciliationDue
    restartPass, \* this is the pass after a start
    guest,       \* what a lane or recipe does
    guestAt,     \* with which Simulator
    crashes,
    failures,
    forgotten    \* ghost: Simulators whose record the operator dropped

leaseVars == <<holder, line>>
storeVars == <<pending, checkpoint, failures, forgotten>>
taskVars == <<kind, targets, place, goal, record>>
serviceVars == <<healthy, ready, stopped, crashes>>
refreshVars == <<refresh, todo, at, seen, restartDue, restartPass>>
guestVars == <<guest, guestAt>>
vars == <<services, storeVars, leaseVars, turns, writes, taskVars, phase, cancelled,
          serviceVars, refreshVars, guestVars>>

Lease == INSTANCE SimulatorLease
             WITH Calls <- Jobs \cup {Refresh, Guest}, Udids <- Simulators

Init ==
    /\ services = [s \in Simulators |-> "clean"]
    /\ pending = [s \in Simulators |-> None]
    /\ checkpoint = [s \in Simulators |-> None]
    /\ Lease!LeaseInit
    /\ turns = <<>> /\ writes = <<>>
    /\ kind = [j \in Jobs |-> None]
    /\ targets = [j \in Jobs |-> <<>>]
    /\ place = [j \in Jobs |-> 1]
    /\ phase = [j \in Jobs |-> "unused"]
    /\ goal = [j \in Jobs |-> None]
    /\ record = [j \in Jobs |-> None]
    /\ cancelled = {}
    /\ healthy = TRUE /\ ready = FALSE /\ stopped = FALSE
    /\ refresh = "idle" /\ todo = {} /\ at = None /\ seen = <<>>
    /\ restartDue = TRUE /\ restartPass = FALSE
    /\ guest = "away" /\ guestAt = None
    /\ crashes = 0 /\ failures = 0
    /\ forgotten = {}

-----------------------------------------------------------------------------
(* The store. A record names the job that began it, what the Simulator     *)
(* disabled before (its emergency restore point) and what it is to disable;*)
(* a recovery names the job that undoes it and where that one began.       *)

Write(by, s, what, id, before, after) ==
    [by |-> by, sim |-> s, what |-> what, id |-> id, before |-> before, after |-> after]

(* Whether an update finds the store as its caller left it. *)
Fits(w) ==
    \/ w.what = "note"
    \/ w.what = "begin" /\ pending[w.sim] = None
    \/ /\ w.what \notin {"note", "begin"}
       /\ pending[w.sim] # None
       /\ pending[w.sim].id = w.id

Recorded_Overwrites(w) ==
    IF w.what \in {"begin", "recover"}
    THEN [id |-> w.id, before |-> w.before, after |-> w.after, recovery |-> None]
    ELSE IF w.what \in {"complete", "promote", "clear"} THEN None
    ELSE pending[w.sim]

(* The Simulator's record after the update. *)
Recorded(w) ==
    IF w.what = "begin"
    THEN [id |-> w.id, before |-> w.before, after |-> w.after, recovery |-> None]
    ELSE IF w.what = "recover"
    THEN [pending[w.sim] EXCEPT !.recovery = [id |-> w.by, before |-> w.before]]
    ELSE IF w.what = "unrecover" THEN [pending[w.sim] EXCEPT !.recovery = None]
    ELSE IF w.what \in {"complete", "promote", "clear"} THEN None
    ELSE pending[w.sim]

Store(w) ==
    /\ pending' = [pending EXCEPT ![w.sim] = Recorded(w)]
    /\ checkpoint' = IF w.what = "promote"
                     THEN [checkpoint EXCEPT ![w.sim] = pending[w.sim].before]
                     ELSE checkpoint
    /\ forgotten' = IF w.what = "clear" THEN forgotten \cup {w.sim} ELSE forgotten

-----------------------------------------------------------------------------
(* Jobs. *)
Target(j) == targets[j][place[j]]
Active(j) == phase[j] \notin {"unused", "done"}
HasActiveJob_Leased(s) == \E j \in Jobs : Active(j) /\ holder[s] = j

HasActiveJob(s) == \E j \in Jobs : Active(j) /\ \E i \in DOMAIN targets[j] : targets[j][i] = s
SomeActive == \E j \in Jobs : Active(j)

(* The job undoes somebody's unsettled change. *)
Emergency(j) == record[j] \notin {None, j}

(* runAction, enqueueAction. *)
RunAction(j, k, b) ==
    /\ phase[j] = "unused"
    /\ ready /\ ~stopped /\ healthy
    /\ k = "forget" => \A i \in DOMAIN b : pending[b[i]] # None
    /\ kind' = [kind EXCEPT ![j] = k]
    /\ targets' = [targets EXCEPT ![j] = b]
    /\ phase' = [phase EXCEPT ![j] = "line"]
    /\ Lease!Claim(b[1], j)
    /\ UNCHANGED <<services, storeVars, turns, writes, place, goal, record, cancelled,
                   serviceVars, refreshVars, guestVars>>

Cancel(j) ==
    /\ Active(j)
    /\ j \notin cancelled
    /\ cancelled' = cancelled \cup {j}
    /\ UNCHANGED <<services, storeVars, leaseVars, turns, writes, taskVars, phase,
                   serviceVars, refreshVars, guestVars>>

Grant(s) ==
    /\ Lease!Grant(s)
    /\ UNCHANGED <<services, storeVars, turns, writes, taskVars, phase, cancelled,
                   serviceVars, refreshVars, guestVars>>

Outcome_Settles(j, safe) ==
    IF pending[Target(j)] = None THEN "note"
    ELSE IF Emergency(j) THEN "unrecover" ELSE "complete"

Outcome_AnyRecovery(j, safe) ==
    LET p == pending[Target(j)] IN
    IF p = None THEN "note"
    ELSE IF Emergency(j) \/ p.recovery # None THEN "unrecover"
    ELSE IF safe THEN "complete" ELSE "keep"

(* What a failed job records: it settles a record whose change provably    *)
(* left no trace, and keeps every other.                                   *)
Outcome(j, safe) ==
    LET p == pending[Target(j)] IN
    IF p = None THEN "note"
    ELSE IF Emergency(j) \/ (p.recovery # None /\ safe) THEN "unrecover"
    ELSE IF safe THEN "complete" ELSE "keep"

Bookkeeping(j, safe) ==
    LET p == pending[Target(j)] IN
    Write(j, Target(j), Outcome(j, safe), IF p = None THEN None ELSE p.id, None, None)

(* The attempt throws: the job gives up queue and lease and, a forget      *)
(* apart, records the failure behind the updates in q.                     *)
Throws(j, safe, q) ==
    /\ IF holder[Target(j)] = j THEN Lease!Release(Target(j)) ELSE Lease!GiveUp(Target(j), j)
    /\ turns' = IF phase[j] = "line" THEN turns ELSE Tail(turns)
    /\ IF kind[j] = "forget"
       THEN /\ phase' = [phase EXCEPT ![j] = "next"]
            /\ writes' = q
       ELSE /\ phase' = [phase EXCEPT ![j] = "noting"]
            /\ writes' = Append(q, Bookkeeping(j, safe))
    /\ UNCHANGED <<taskVars, cancelled>>

(* A cancelled job stops waiting for the lease. *)
LeaveLine(j) ==
    /\ phase[j] = "line"
    /\ j \in cancelled
    /\ Throws(j, FALSE, writes)
    /\ UNCHANGED <<services, storeVars, serviceVars, refreshVars, guestVars>>

(* With the lease, the job queues for its turn. *)
TakeTurn(j) ==
    /\ phase[j] = "line"
    /\ holder[Target(j)] = j
    /\ j \notin cancelled
    /\ phase' = [phase EXCEPT ![j] = "turn"]
    /\ turns' = Append(turns, j)
    /\ UNCHANGED <<services, storeVars, leaseVars, writes, taskVars, cancelled,
                   serviceVars, refreshVars, guestVars>>

HasTurn_Unqueued(j) == phase[j] = "turn"

HasTurn(j) == phase[j] = "turn" /\ Head(turns) = j

(* A record is in the way of everything but its own undoing. *)
Blocked(j) ==
    LET s == Target(j) IN
    \/ kind[j] = "forget" /\ pending[s] = None
    \/ kind[j] = "undo" /\ pending[s] = None /\ checkpoint[s] = None
    \/ kind[j] \in {"apply", "restore"} /\ pending[s] # None

(* Cancelled in the queue, blocked, or stopped by the compatibility gates  *)
(* before the first helper call.                                           *)
TurnRefused(j) ==
    /\ HasTurn(j)
    /\ j \in cancelled \/ kind[j] # "forget" \/ Blocked(j)
    /\ Throws(j, FALSE, writes)
    /\ UNCHANGED <<services, storeVars, serviceVars, refreshVars, guestVars>>

(* pending.forget drops the record. *)
Forget(j) ==
    /\ HasTurn(j) /\ j \notin cancelled
    /\ kind[j] = "forget" /\ ~Blocked(j)
    /\ phase' = [phase EXCEPT ![j] = "settling"]
    /\ writes' = Append(writes, Write(j, Target(j), "clear", pending[Target(j)].id, None, None))
    /\ UNCHANGED <<services, storeVars, leaseVars, turns, taskVars, cancelled,
                   serviceVars, refreshVars, guestVars>>

(* Undo restores what an unsettled change found, or else what the last     *)
(* completed one found.                                                    *)
GoalOf(j) ==
    LET s == Target(j) IN
    IF kind[j] = "apply" THEN "slim"
    ELSE IF kind[j] = "restore" THEN "clean"
    ELSE IF pending[s] # None THEN pending[s].before ELSE checkpoint[s]

RecordOf(j) ==
    IF kind[j] = "undo" /\ pending[Target(j)] # None THEN pending[Target(j)].id ELSE j

Prepare(j) ==
    /\ HasTurn(j) /\ j \notin cancelled
    /\ kind[j] # "forget" /\ ~Blocked(j)
    /\ goal' = [goal EXCEPT ![j] = GoalOf(j)]
    /\ record' = [record EXCEPT ![j] = RecordOf(j)]
    /\ phase' = [phase EXCEPT ![j] = "preparing"]
    /\ UNCHANGED <<services, storeVars, leaseVars, turns, writes, kind, targets, place,
                   cancelled, serviceVars, refreshVars, guestVars>>

Changes(j) == services[Target(j)] # goal[j]

(* The update that has to be on disk before the helper may change anything.*)
Journal(j) ==
    Write(j, Target(j), IF Emergency(j) THEN "recover" ELSE "begin", record[j],
          services[Target(j)], goal[j])

(* prepareMutation answered; a change is recorded before it is made. *)
Prepared(j) ==
    /\ phase[j] = "preparing"
    /\ IF Changes(j)
       THEN /\ phase' = [phase EXCEPT ![j] = "beginning"]
            /\ writes' = Append(writes, Journal(j))
       ELSE /\ phase' = [phase EXCEPT ![j] = "mutating"]
            /\ UNCHANGED writes
    /\ UNCHANGED <<services, storeVars, leaseVars, turns, taskVars, cancelled,
                   serviceVars, refreshVars, guestVars>>

(* It failed, with a code that proves nothing was changed or without, or   *)
(* the refreshed tuple is no longer allowed.                               *)
PrepareFails(j) ==
    /\ phase[j] = "preparing"
    /\ \E safe \in BOOLEAN : Throws(j, safe, writes)
    /\ UNCHANGED <<services, storeVars, serviceVars, refreshVars, guestVars>>

Settlement_PromotesAll(j) ==
    Write(j, Target(j), IF Changes(j) THEN "promote" ELSE IF Emergency(j) THEN "complete" ELSE "note",
          record[j], None, None)

(* The update that settles a verified change. *)
Settlement(j) ==
    Write(j, Target(j),
          IF Emergency(j) THEN "complete" ELSE IF Changes(j) THEN "promote" ELSE "note",
          record[j], None, None)

(* The helper made the change and verified it. *)
Mutated(j) ==
    /\ phase[j] = "mutating"
    /\ services' = [services EXCEPT ![Target(j)] = goal[j]]
    /\ phase' = [phase EXCEPT ![j] = "settling"]
    /\ writes' = Append(writes, Settlement(j))
    /\ UNCHANGED <<storeVars, leaseVars, turns, taskVars, cancelled,
                   serviceVars, refreshVars, guestVars>>

(* It refused, or rolled the change back. *)
RolledBack(j) ==
    /\ phase[j] = "mutating"
    /\ Throws(j, TRUE, writes)
    /\ UNCHANGED <<services, storeVars, serviceVars, refreshVars, guestVars>>

(* What a helper that breaks off may leave. *)
Remains(j) ==
    IF Changes(j) THEN {services[Target(j)], goal[j], "partial"} ELSE {goal[j]}

(* It failed, timed out, was killed by the cancellation or could not       *)
(* verify the result.                                                      *)
BreaksOff(j) ==
    /\ phase[j] = "mutating"
    /\ \E x \in Remains(j) : services' = [services EXCEPT ![Target(j)] = x]
    /\ Throws(j, FALSE, writes)
    /\ UNCHANGED <<storeVars, serviceVars, refreshVars, guestVars>>

(* The loop of runJob: on to the next target, unless cancelled. *)
NextTarget(j) ==
    /\ phase[j] = "next"
    /\ record' = [record EXCEPT ![j] = None]
    /\ goal' = [goal EXCEPT ![j] = None]
    /\ IF j \in cancelled \/ place[j] = Len(targets[j])
       THEN /\ phase' = [phase EXCEPT ![j] = "done"]
            /\ kind' = [kind EXCEPT ![j] = None]
            /\ targets' = [targets EXCEPT ![j] = <<>>]
            /\ place' = [place EXCEPT ![j] = 1]
            /\ cancelled' = cancelled \ {j}
            /\ UNCHANGED leaseVars
       ELSE /\ phase' = [phase EXCEPT ![j] = "line"]
            /\ place' = [place EXCEPT ![j] = @ + 1]
            /\ Lease!Claim(targets[j][place[j] + 1], j)
            /\ UNCHANGED <<kind, targets, cancelled>>
    /\ UNCHANGED <<services, storeVars, turns, writes, serviceVars, refreshVars, guestVars>>

-----------------------------------------------------------------------------
(* The refresh and its reconciliation of records nobody settled. *)

(* A poll or a window asks; running jobs own their Simulators. *)
StartRefresh ==
    /\ refresh = "idle" /\ ~SomeActive /\ ~stopped
    /\ refresh' = "looking"
    /\ UNCHANGED <<services, storeVars, leaseVars, turns, writes, taskVars, phase, cancelled,
                   serviceVars, todo, at, seen, restartDue, restartPass, guestVars>>

(* The refresh ends, and with it the wait of a guest that asked for it. *)
EndsRefresh ==
    /\ refresh' = "idle"
    /\ at' = None /\ seen' = <<>> /\ todo' = {} /\ restartPass' = FALSE
    /\ guest' = IF guest = "refreshing" THEN "back" ELSE guest
    /\ UNCHANGED guestAt

(* The helper answered with its inventory and the statuses. *)
Looked ==
    /\ refresh = "looking"
    /\ ready' = TRUE
    /\ refresh' = "walking"
    /\ todo' = {s \in Simulators : pending[s] # None}
    /\ restartPass' = restartDue
    /\ restartDue' = FALSE
    /\ UNCHANGED <<services, storeVars, leaseVars, turns, writes, taskVars, phase, cancelled,
                   healthy, stopped, crashes, at, seen, guestVars>>

LookFails ==
    /\ refresh = "looking"
    /\ ready' = FALSE
    /\ EndsRefresh
    /\ UNCHANGED <<services, storeVars, leaseVars, turns, writes, taskVars, phase, cancelled,
                   healthy, stopped, crashes, restartDue>>

LeaseFree_Waits(s) == TRUE

LeaseFree(s) == holder[s] = None /\ line[s] = <<>>

(* reconcileWhenFree leaves the record for a later pass: a job owns it, it *)
(* is gone, somebody has the lease, or, except after a start, the Simulator*)
(* is shut down or the record not due again.                               *)
Passes(s) ==
    \/ HasActiveJob(s)
    \/ pending[s] = None
    \/ ~restartPass
    \/ ~LeaseFree(s)

PassOver(s) ==
    /\ refresh = "walking" /\ ~stopped
    /\ s \in todo /\ Passes(s)
    /\ todo' = todo \ {s}
    /\ UNCHANGED <<services, storeVars, leaseVars, turns, writes, taskVars, phase, cancelled,
                   serviceVars, refresh, at, seen, restartDue, restartPass, guestVars>>

Identity(s) ==
    IF pending[s] = None THEN <<>>
    ELSE <<pending[s].id, IF pending[s].recovery = None THEN None ELSE pending[s].recovery.id>>

(* tryRunExclusive: only a lease nobody has or awaits is claimed. *)
TryLease(s) ==
    /\ refresh = "walking" /\ ~stopped
    /\ s \in todo /\ ~HasActiveJob(s) /\ pending[s] # None
    /\ LeaseFree(s)
    /\ Lease!Claim(s, Refresh)
    /\ refresh' = "trying"
    /\ at' = s /\ seen' = Identity(s) /\ todo' = todo \ {s}
    /\ UNCHANGED <<services, storeVars, turns, writes, taskVars, phase, cancelled,
                   serviceVars, restartDue, restartPass, guestVars>>

(* A job may have started, or settled the record, before the lease. *)
StillFree == ~HasActiveJob(at) /\ pending[at] # None /\ Identity(at) = seen

HasLease_Claimed == refresh = "trying"

HasLease == refresh = "trying" /\ holder[at] = Refresh

Inspect ==
    /\ HasLease /\ ~stopped
    /\ StillFree
    /\ refresh' = "inspecting"
    /\ UNCHANGED <<services, storeVars, leaseVars, turns, writes, taskVars, phase, cancelled,
                   serviceVars, todo, at, seen, restartDue, restartPass, guestVars>>

LeaveAlone ==
    /\ HasLease /\ ~stopped
    /\ ~StillFree
    /\ Lease!Release(at)
    /\ refresh' = "walking"
    /\ at' = None /\ seen' = <<>>
    /\ UNCHANGED <<services, storeVars, turns, writes, taskVars, phase, cancelled,
                   serviceVars, todo, restartDue, restartPass, guestVars>>

(* What an inspection, if it proves anything, says of the change. *)
Verdict(s) ==
    LET p == pending[s] IN
    IF services[s] = p.before THEN "complete"
    ELSE IF p.recovery # None /\ services[s] = p.recovery.before THEN "unrecover"
    ELSE IF services[s] = p.after THEN "promote" ELSE "keep"

(* The helper inspected the Simulator. Without proof the record stays, and *)
(* that is recorded, but once.                                             *)
Reconcile ==
    /\ refresh = "inspecting"
    /\ \E what \in {Verdict(at), "keep"} :
         writes' = Append(writes, Write(Refresh, at, what, pending[at].id, None, None))
    /\ refresh' = "settling"
    /\ UNCHANGED <<services, storeVars, leaseVars, turns, taskVars, phase, cancelled,
                   serviceVars, todo, at, seen, restartDue, restartPass, guestVars>>

(* No job on it, nor was this the first time: nothing to write. *)
AlreadyKept ==
    /\ refresh = "inspecting"
    /\ Lease!Release(at)
    /\ refresh' = "walking"
    /\ at' = None /\ seen' = <<>>
    /\ UNCHANGED <<services, storeVars, turns, writes, taskVars, phase, cancelled,
                   serviceVars, todo, restartDue, restartPass, guestVars>>

(* stop fired the signal of the claim before the lease came. *)
ClaimAborted ==
    /\ refresh = "trying" /\ stopped
    /\ IF holder[at] = Refresh THEN Lease!Release(at) ELSE Lease!GiveUp(at, Refresh)
    /\ ready' = FALSE
    /\ EndsRefresh
    /\ UNCHANGED <<services, storeVars, turns, writes, taskVars, phase, cancelled,
                   healthy, stopped, crashes, restartDue>>

EndRefresh ==
    /\ refresh = "walking"
    /\ todo = {} \/ stopped
    /\ EndsRefresh
    /\ UNCHANGED <<services, storeVars, leaseVars, turns, writes, taskVars, phase, cancelled,
                   serviceVars, restartDue>>

-----------------------------------------------------------------------------
(* The persistence writes one update at a time, and its caller goes on. *)
Stored ==
    /\ writes # <<>> /\ Fits(Head(writes))
    /\ Store(Head(writes))
    /\ writes' = Tail(writes)
    /\ LET w == Head(writes) IN
       IF w.by = Refresh
       THEN /\ Lease!Release(at)
            /\ refresh' = "walking" /\ at' = None /\ seen' = <<>>
            /\ UNCHANGED <<turns, phase>>
       ELSE /\ IF phase[w.by] = "settling"
               THEN Lease!Release(w.sim) /\ turns' = Tail(turns)
               ELSE UNCHANGED <<leaseVars, turns>>
            /\ phase' = [phase EXCEPT ![w.by] = IF @ = "beginning" THEN "mutating" ELSE "next"]
            /\ UNCHANGED <<refresh, at, seen>>
    /\ UNCHANGED <<services, failures, taskVars, cancelled, serviceVars, todo, restartDue,
                   restartPass, guestVars>>

(* An update that does not fit the store, or that the disk refuses. *)
Refused ==
    /\ writes # <<>>
    /\ \/ ~Fits(Head(writes)) /\ UNCHANGED failures
       \/ Fits(Head(writes)) /\ failures < MaxFailures /\ failures' = failures + 1
    /\ UNCHANGED <<services, pending, checkpoint, forgotten, stopped, crashes, restartDue>>

(* The refresh gives up; its caller sees the helper unavailable. *)
RefreshRefused ==
    /\ Refused
    /\ Head(writes).by = Refresh
    /\ writes' = Tail(writes)
    /\ Lease!Release(at)
    /\ ready' = FALSE
    /\ EndsRefresh
    /\ UNCHANGED <<healthy, turns, taskVars, phase, cancelled>>

(* A job that could not begin or settle its record has failed. *)
AttemptRefused(j) ==
    /\ Refused
    /\ Head(writes).by = j /\ phase[j] # "noting"
    /\ Throws(j, FALSE, Tail(writes))
    /\ UNCHANGED <<healthy, ready, refresh, todo, at, seen, restartPass, guestVars>>

(* A failure that cannot be recorded blocks mutations from here on. *)
NoteRefused(j) ==
    /\ Refused
    /\ Head(writes).by = j /\ phase[j] = "noting"
    /\ writes' = Tail(writes)
    /\ healthy' = FALSE
    /\ phase' = [phase EXCEPT ![j] = "next"]
    /\ UNCHANGED <<ready, leaseVars, turns, taskVars, cancelled, refresh, todo, at, seen,
                   restartPass, guestVars>>

-----------------------------------------------------------------------------
(* A lane or recipe refreshes from inside its own lease. *)
GuestClaims(s) ==
    /\ guest = "away"
    /\ Lease!Claim(s, Guest)
    /\ guest' = "line" /\ guestAt' = s
    /\ UNCHANGED <<services, storeVars, turns, writes, taskVars, phase, cancelled,
                   serviceVars, refreshVars>>

(* refresh returns at once while a job runs, and else joins the one that   *)
(* is under way.                                                           *)
GuestRefreshes ==
    /\ guest = "line" /\ holder[guestAt] = Guest
    /\ IF SomeActive
       THEN guest' = "back" /\ UNCHANGED refresh
       ELSE guest' = "refreshing" /\ refresh' = IF refresh = "idle" THEN "looking" ELSE refresh
    /\ UNCHANGED <<services, storeVars, leaseVars, turns, writes, taskVars, phase, cancelled,
                   serviceVars, todo, at, seen, restartDue, restartPass, guestAt>>

GuestReleases ==
    /\ guest = "back"
    /\ Lease!Release(guestAt)
    /\ guest' = "away" /\ guestAt' = None
    /\ UNCHANGED <<services, storeVars, turns, writes, taskVars, phase, cancelled,
                   serviceVars, refreshVars>>

(* stop: nothing new, and every job's signal fires. *)
Stop ==
    /\ ~stopped
    /\ stopped' = TRUE
    /\ cancelled' = cancelled \cup {j \in Jobs : Active(j)}
    /\ UNCHANGED <<services, storeVars, leaseVars, turns, writes, taskVars, phase,
                   healthy, ready, crashes, refreshVars, guestVars>>

(* The desktop dies, whatever it was at, and starts again with what is on  *)
(* disk; a change under way breaks off.                                    *)
Crash ==
    /\ crashes < MaxCrashes
    /\ crashes' = crashes + 1
    /\ IF \E j \in Jobs : phase[j] = "mutating"
       THEN \E j \in Jobs : /\ phase[j] = "mutating"
                            /\ \E x \in Remains(j) : services' = [services EXCEPT ![Target(j)] = x]
       ELSE UNCHANGED services
    /\ phase' = [j \in Jobs |-> IF phase[j] = "unused" THEN "unused" ELSE "done"]
    /\ kind' = [j \in Jobs |-> None]
    /\ targets' = [j \in Jobs |-> <<>>]
    /\ place' = [j \in Jobs |-> 1]
    /\ record' = [j \in Jobs |-> None]
    /\ goal' = [j \in Jobs |-> None]
    /\ cancelled' = {}
    /\ holder' = [s \in Simulators |-> None]
    /\ line' = [s \in Simulators |-> <<>>]
    /\ turns' = <<>> /\ writes' = <<>>
    /\ healthy' = TRUE /\ ready' = FALSE /\ stopped' = FALSE
    /\ refresh' = "idle" /\ todo' = {} /\ at' = None /\ seen' = <<>>
    /\ restartDue' = TRUE /\ restartPass' = FALSE
    /\ guest' = "away" /\ guestAt' = None
    /\ UNCHANGED storeVars

-----------------------------------------------------------------------------
Works(j) ==
    \/ LeaveLine(j) \/ TakeTurn(j) \/ TurnRefused(j) \/ Forget(j) \/ Prepare(j)
    \/ Prepared(j) \/ PrepareFails(j) \/ Mutated(j) \/ RolledBack(j) \/ BreaksOff(j)
    \/ NextTarget(j)

Persists == Stored \/ RefreshRefused \/ \E j \in Jobs : AttemptRefused(j) \/ NoteRefused(j)

Refreshes ==
    \/ Looked \/ LookFails \/ Inspect \/ LeaveAlone \/ Reconcile \/ AlreadyKept
    \/ ClaimAborted \/ EndRefresh
    \/ \E s \in Simulators : PassOver(s) \/ TryLease(s)

Next ==
    \/ \E j \in Cancellable : Cancel(j)
    \/ \E j \in Jobs : Works(j) \/ \E k \in Requests, b \in Batches : RunAction(j, k, b)
    \/ Persists \/ Refreshes \/ StartRefresh
    \/ GuestRefreshes \/ GuestReleases
    \/ \E s \in Simulators : Grant(s)
    \/ \E s \in Visited : GuestClaims(s)
    \/ Stop \/ Crash

Spec == Init /\ [][Next]_vars

(* Helper calls have time budgets, disk writes end, promises settle; that  *)
(* anybody asks for a job, a refresh or a lease is not assumed.            *)
Fairness ==
    /\ \A j \in Jobs : WF_vars(Works(j))
    /\ \A s \in Simulators : WF_vars(Grant(s))
    /\ WF_vars(Persists) /\ WF_vars(Refreshes)
    /\ WF_vars(GuestRefreshes) /\ WF_vars(GuestReleases)

FairSpec == Spec /\ Fairness

-----------------------------------------------------------------------------
(* Properties. *)

Whats == {"note", "begin", "recover", "unrecover", "complete", "promote", "keep", "clear"}

Updates ==
    [by : Jobs \cup {Refresh}, sim : Simulators, what : Whats, id : Jobs \cup {None},
     before : ServiceSets \cup {None}, after : ServiceSets \cup {None}]

Phases == {"unused", "line", "turn", "preparing", "beginning", "mutating", "settling",
           "noting", "next", "done"}

(* Jobs between the grant of the lease and giving it up. *)
Working(j) == phase[j] \in {"turn", "preparing", "beginning", "mutating", "settling"}

TypeOK ==
    /\ services \in [Simulators -> ServiceSets]
    /\ pending \in [Simulators -> Records \cup {None}]
    /\ checkpoint \in [Simulators -> ServiceSets \cup {None}]
    /\ writes \in Seq(Updates)
    /\ turns \in Seq(Jobs)
    /\ kind \in [Jobs -> Kinds \cup {None}]
    /\ targets \in [Jobs -> Batches \cup {<<>>}]
    /\ \A j \in Jobs : Active(j) => place[j] \in DOMAIN targets[j]
    /\ phase \in [Jobs -> Phases]
    /\ goal \in [Jobs -> ServiceSets \cup {None}]
    /\ record \in [Jobs -> Jobs \cup {None}]
    /\ refresh \in {"idle", "looking", "walking", "trying", "inspecting", "settling"}
    /\ at \in Simulators \cup {None}
    /\ guest \in {"away", "line", "refreshing", "back"}

(* A job works under the lease of its Simulator, alone in the mutation     *)
(* queue once past its turn, and the reconciler under the one it took.     *)
LeaseHeld ==
    /\ \A j \in Jobs : Working(j) => holder[Target(j)] = j
    /\ \A j \in Jobs : Working(j) /\ phase[j] # "turn" => turns # <<>> /\ Head(turns) = j
    /\ refresh \in {"inspecting", "settling"} => holder[at] = Refresh

Inv == TypeOK /\ LeaseHeld

(* #executeTarget, #recordFailedMutation, reconcilePendingMutation: when a *)
(* change breaks off, by a failure, a cancellation or the death of the     *)
(* desktop, and its rollback is not proved, the store keeps the record of  *)
(* it until the Simulator is proved whole again, whoever else fails, undoes*)
(* or reconciles meanwhile; only the operator can have it forgotten.       *)
NoChangeForgotten ==
    \A s \in Simulators :
        services[s] = "partial" /\ s \notin forgotten => pending[s] # None

(* beginPendingMutation, beginPendingRecovery: while the helper changes a  *)
(* Simulator, the store names that very attempt and what it found. A retry *)
(* of Undo, or the late bookkeeping of an earlier job on the Simulator,    *)
(* never takes that away.                                                  *)
EveryChangeIsJournaled ==
    \A j \in Jobs : phase[j] = "mutating" /\ Changes(j) =>
        LET p == pending[Target(j)] IN
        /\ p # None
        /\ \/ p.id = j /\ p.before = services[Target(j)]
           \/ p.recovery # None /\ p.recovery.id = j /\ p.recovery.before = services[Target(j)]

(* Undo never leads back into a state a broken change left: no restore     *)
(* point, emergency or regular, was taken of one, though recoveries start  *)
(* from such states and are themselves recorded.                           *)
RestorePointsAreWhole ==
    \A s \in Simulators : s \notin forgotten =>
        /\ checkpoint[s] # "partial"
        /\ pending[s] # None => pending[s].before # "partial"

(* "A job on the Simulator owns the record until the job ends, including   *)
(* the failure bookkeeping it does after its lease" (slimming-service.ts): *)
(* when the reconciler settles a record, nobody has settled it before it.  *)
ReconcilerIsAlone ==
    writes # <<>> /\ Head(writes).by = Refresh => Fits(Head(writes))

(* The restore point of a change becomes what Undo uses only when the      *)
(* Simulator is in the state that change was to reach: neither a recovery  *)
(* nor a change that did not happen replaces the restore point of the last *)
(* one that did.                                                           *)
PromotedOnlyWhenDone ==
    [][\A s \in Simulators : checkpoint'[s] # checkpoint[s] =>
          pending[s] # None /\ services[s] = pending[s].after]_vars

(* tryRunExclusive, #withMutationQueue, #update, stop: leases, the mutation*)
(* queue within them, the write queue, and the wait of a lane or recipe for*)
(* a refresh it asks for from inside its own lease never form a circle.    *)
(* The service comes to rest again and again: every job ends, a cancelled  *)
(* one and those that quitting waits for too, and the lane gets its answer *)
(* though the refresh may have that very Simulator's record to reconcile.  *)
ComesToRest == []<>(~SomeActive /\ guest = "away")

(* "Safety metadata could not be persisted. Further mutations are blocked."*)
(* (#recordFailedMutation) is shown when the disk refused a write.         *)
WarningIsTrue == ~healthy /\ ~stopped => failures > 0
=============================================================================
