------------------------------ MODULE Recipes ------------------------------
(***************************************************************************)
(* Recipe runs (main/recipe-service.ts, recipe-store.ts, quit-sequence.ts):*)
(* a run claims its Simulators, drives each under the Simulator's mutation *)
(* lease with a few workers, runs a teardown on each whatever happened     *)
(* before, and records how it went; cancelling, quitting, a write the disk *)
(* refuses and the death of the app cut into it anywhere.                  *)
(*                                                                         *)
(* The lease is the abstract one that MutationCoordinator implements. A    *)
(* step is a job awaited to its end; Slimming steps take their turn in one *)
(* queue for all Simulators, inside the lease.                             *)
(***************************************************************************)
EXTENDS Naturals, Sequences, FiniteSets

CONSTANTS Runs,         \* the requests for a run ever made, by action id
          Simulators,
          Plan,         \* of each: its targets, steps, teardown, workers, approval
          MaxActive,    \* MAX_ACTIVE_RUNS
          Guest,        \* a lane or a job of its own that takes leases too
          Visited,      \* bound: the Simulators it takes the lease of
          Doubled,      \* bound: the Simulators two connected instances may claim
          MaxFaults,    \* bound: how many writes the disk refuses
          MaxRestarts,  \* bound: how often the app ends and starts again
          MaxTroubles,  \* bound: how often either happens
          None

StepKinds == {"app", "slimming"}

ASSUME RecipesAssumption ==
    /\ DOMAIN Plan = Runs
    /\ \A r \in Runs :
          /\ Plan[r].targets \in Seq(Simulators) /\ Plan[r].targets # <<>>
          /\ Plan[r].steps \in Seq(StepKinds) /\ Plan[r].steps # <<>>
          /\ Plan[r].teardown \in Seq(StepKinds)
          /\ Plan[r].workers \in 1..Len(Plan[r].targets)
          /\ Plan[r].approval \in BOOLEAN
    /\ {MaxActive, MaxFaults, MaxRestarts, MaxTroubles} \subseteq Nat
    /\ Visited \subseteq Simulators /\ Doubled \subseteq Simulators
    /\ None \notin Runs \cup Simulators

Targets(r) == {Plan[r].targets[i] : i \in DOMAIN Plan[r].targets}

(* The execution of a run on one of its targets. *)
Works == UNION {{<<r, u>> : u \in Targets(r)} : r \in Runs}
WorksOf(r) == {w \in Works : w[1] = r}

(* needsConnectedDevice: some step needs the app connected. *)
NeedsApp(r) ==
    \E script \in {Plan[r].steps, Plan[r].teardown} :
        \E i \in DOMAIN script : script[i] = "app"

Unfinished == {"queued", "running", "cancelling"}
Ended == {"complete", "failed", "cancelled", "interrupted"}

ASSUME NoneAssumption ==
    /\ None \notin Unfinished \cup Ended /\ None \notin Works
    /\ Guest \notin Works /\ Guest # None

VARIABLES
    call,        \* where a call of runRecipe is: it awaits the inventory, or a save
    claimed,     \* #claimedTargets
    run,         \* the status in the record of each run
    stored,      \* durable: the status in its file
    task,        \* its #executeRun, which is in #active until it is over
    aborted,     \* runs whose signal fired
    cancelSaves, \* saves that cancelRun began and nobody awaits
    at,          \* where the execution on a target is
    again,       \* those in the second attempt at the teardown
    step,        \* how many steps of the script are done
    outcome,     \* the status of the target
    cleanup,     \* the status of its teardown
    turns,       \* #slimmingQueue: who is in it or waits for it
    holder,      \* who holds each Simulator's mutation lease
    line,        \* who waits for it
    stopped,     \* stop was called
    waits,       \* the tasks it awaits
    late,        \* the services went down because the budget of the quit was used up
    services,    \* the services that steps need are up
    faults,
    restarts

callVars == <<call, claimed>>
runVars == <<run, task, aborted>>
storeVars == <<stored, cancelSaves>>
workVars == <<at, again, step, outcome, cleanup, turns>>
leaseVars == <<holder, line>>
quitVars == <<stopped, waits, late, services>>
boundVars == <<faults, restarts>>
vars == <<callVars, runVars, storeVars, workVars, leaseVars, quitVars, boundVars>>

Lease == INSTANCE SimulatorLease WITH Calls <- Works \cup {Guest}, Udids <- Simulators

Init ==
    /\ call = [r \in Runs |-> "none"]
    /\ claimed = [u \in Simulators |-> None]
    /\ task = [r \in Runs |-> "none"]
    /\ aborted = {} /\ cancelSaves = {}
    /\ at = [w \in Works |-> "todo"]
    /\ again = {}
    /\ step = [w \in Works |-> 0]
    /\ outcome = [w \in Works |-> "queued"]
    /\ cleanup = [w \in Works |-> "not-started"]
    /\ turns = <<>>
    /\ Lease!LeaseInit
    /\ stopped = FALSE /\ waits = {} /\ late = FALSE /\ services = TRUE
    /\ run = [r \in Runs |-> None] /\ stored = [r \in Runs |-> None]
    /\ faults = 0 /\ restarts = 0

Active == {r \in Runs : task[r] # "none"}

(* A write the disk refuses, or a record too large to be written. *)
SaveFails ==
    /\ faults < MaxFaults /\ faults + restarts < MaxTroubles
    /\ faults' = faults + 1
    /\ UNCHANGED restarts

(* #save, and RecipeStore.saveRun: the record as it is when the write runs.*)
Save(r) == stored' = [stored EXCEPT ![r] = run[r]]

-----------------------------------------------------------------------------
(* Asking for a run. *)

(* Nothing is recorded for this action id, or a run that awaits approval.  *)
Askable(r) == stored[r] = None \/ (stored[r] = "needs-approval" /\ run[r] = "needs-approval")

(* runRecipe up to its first await; the operator confirmed it or did not.  *)
RunRecipe(r, confirmed) ==
    /\ call[r] = "none" /\ Askable(r)
    /\ ~stopped
    /\ Cardinality(Active) < MaxActive
    /\ confirmed \/ Plan[r].approval
    /\ call' = [call EXCEPT ![r] = IF confirmed THEN "confirmed" ELSE "asked"]
    /\ UNCHANGED <<claimed, runVars, storeVars, workVars, leaseVars, quitVars, boundVars>>

Unclaimed_First(r) == claimed[Plan[r].targets[1]] = None

(* No target is another run's. *)
Unclaimed(r) == \A u \in Targets(r) : claimed[u] = None

(* The inventory failed or lacks a target, a target is claimed, or the     *)
(* approved request is not the one that awaits approval.                   *)
Reject(r) ==
    /\ call[r] \in {"asked", "confirmed"}
    /\ call' = [call EXCEPT ![r] = "none"]
    /\ UNCHANGED <<claimed, runVars, storeVars, workVars, leaseVars, quitVars, boundVars>>

(* The inventory is fresh, and the run has to be approved first. *)
AskApproval(r) ==
    /\ call[r] = "asked" /\ Unclaimed(r)
    /\ call' = [call EXCEPT ![r] = "asking"]
    /\ run' = [run EXCEPT ![r] = "needs-approval"]
    /\ UNCHANGED <<claimed, task, aborted, storeVars, workVars, leaseVars, quitVars, boundVars>>

ApprovalAsked(r) ==
    /\ call[r] = "asking"
    /\ call' = [call EXCEPT ![r] = "none"]
    /\ \/ Save(r) /\ UNCHANGED boundVars
       \/ SaveFails /\ UNCHANGED stored
    /\ UNCHANGED <<claimed, runVars, cancelSaves, workVars, leaseVars, quitVars>>

(* ... or it claims its targets, without another await in between. *)
Claim(r) ==
    /\ call[r] = "confirmed" /\ Unclaimed(r)
    /\ call' = [call EXCEPT ![r] = "saving"]
    /\ claimed' = [u \in Simulators |-> IF u \in Targets(r) THEN r ELSE claimed[u]]
    /\ run' = [run EXCEPT ![r] = "queued"]
    /\ UNCHANGED <<task, aborted, storeVars, workVars, leaseVars, quitVars, boundVars>>

(* The queued run is saved: its task begins, and saves in turn. *)
Launch(r) ==
    /\ call[r] = "saving"
    /\ call' = [call EXCEPT ![r] = "none"]
    /\ stored' = [stored EXCEPT ![r] = "queued"]
    /\ run' = [run EXCEPT ![r] = "running"]
    /\ task' = [task EXCEPT ![r] = "starting"]
    /\ outcome' = [w \in Works |-> IF w[1] = r THEN "resolving" ELSE outcome[w]]
    /\ UNCHANGED <<claimed, aborted, cancelSaves, at, again, step, cleanup, turns, leaseVars,
                   quitVars, boundVars>>

(* It could not be saved: runRecipe rejects, and its claims stay. *)
LaunchFails(r) ==
    /\ call[r] = "saving"
    /\ SaveFails
    /\ call' = [call EXCEPT ![r] = "none"]
    /\ UNCHANGED <<claimed, runVars, storeVars, workVars, leaseVars, quitVars>>

(* cancelRun *)
CancelRun(r) ==
    /\ r \in Active \ aborted
    /\ run' = [run EXCEPT ![r] = "cancelling"]
    /\ aborted' = aborted \cup {r}
    /\ cancelSaves' = cancelSaves \cup {r}
    /\ UNCHANGED <<callVars, task, stored, workVars, leaseVars, quitVars, boundVars>>

CancelSaved(r) ==
    /\ r \in cancelSaves
    /\ cancelSaves' = cancelSaves \ {r}
    /\ \/ Save(r) /\ UNCHANGED boundVars
       \/ SaveFails /\ UNCHANGED stored
    /\ UNCHANGED <<callVars, runVars, workVars, leaseVars, quitVars>>

-----------------------------------------------------------------------------
(* #executeRun *)
Final == {"complete", "failed", "cancelled"}

FinalStatus_StepsOnly(r) ==
    IF r \in aborted THEN "cancelled"
    ELSE IF \E w \in WorksOf(r) : outcome[w] = "failed" THEN "failed" ELSE "complete"

(* What the run is found to be from what its targets are. *)
FinalStatus(r) ==
    IF r \in aborted THEN "cancelled"
    ELSE IF \E w \in WorksOf(r) : outcome[w] = "failed" \/ cleanup[w] \in {"failed", "abandoned"}
         THEN "failed"
    ELSE "complete"

EndsRun(r) ==
    /\ run' = [run EXCEPT ![r] = FinalStatus(r)]
    /\ task' = [task EXCEPT ![r] = "ending"]
    /\ UNCHANGED <<callVars, aborted, cancelSaves, workVars, leaseVars, quitVars>>

Start(r) ==
    /\ task[r] = "starting"
    /\ Save(r)
    /\ task' = [task EXCEPT ![r] = "working"]
    /\ UNCHANGED <<callVars, run, aborted, cancelSaves, workVars, leaseVars, quitVars, boundVars>>

(* The save before the workers start is refused: the run ends at once. *)
StartFails(r) ==
    /\ task[r] = "starting"
    /\ SaveFails
    /\ EndsRun(r)
    /\ UNCHANGED stored

(* Every worker returned, or one of them threw. *)
EndRun(r) ==
    /\ task[r] = "working"
    /\ \/ \A w \in WorksOf(r) : at[w] = "done"
       \/ \E w \in WorksOf(r) : at[w] = "dead"
    /\ EndsRun(r)
    /\ UNCHANGED <<stored, boundVars>>

(* The last save ends the task, refused or not, and frees the targets; what*)
(* was found on those that are done is of no use from then on.             *)
Finish(r) ==
    /\ task[r] = "ending"
    /\ \/ Save(r) /\ UNCHANGED boundVars
       \/ SaveFails /\ UNCHANGED stored
    /\ task' = [task EXCEPT ![r] = "none"]
    /\ claimed' = [u \in Simulators |-> IF claimed[u] = r THEN None ELSE claimed[u]]
    /\ outcome' = [w \in Works |-> IF w[1] = r /\ at[w] = "done" THEN "queued" ELSE outcome[w]]
    /\ cleanup' = [w \in Works |-> IF w[1] = r /\ at[w] = "done" THEN "not-started" ELSE cleanup[w]]
    /\ UNCHANGED <<call, run, aborted, cancelSaves, at, again, step, turns, leaseVars, quitVars>>

-----------------------------------------------------------------------------
(* #executeTarget *)
Cleaning(w) == outcome[w] \in Final
Script(w) == IF Cleaning(w) THEN Plan[w[1]].teardown ELSE Plan[w[1]].steps
More(w) == step[w] < Len(Script(w))
Broken(w) == IF w[1] \in aborted THEN "cancelled" ELSE "failed"

(* A worker takes the next target, also when another worker's failure has  *)
(* ended the run already.                                                  *)
Take(r, i) ==
    LET w == <<r, Plan[r].targets[i]>> IN
    /\ task[r] = "working" \/ \E v \in WorksOf(r) : at[v] # "todo"
    /\ at[w] = "todo" /\ \A k \in 1..(i - 1) : at[<<r, Plan[r].targets[k]>>] # "todo"
    /\ Cardinality({v \in WorksOf(r) : at[v] \notin {"todo", "done"}}) < Plan[r].workers
    /\ at' = [at EXCEPT ![w] = "line"]
    /\ Lease!Claim(w[2], w)
    /\ UNCHANGED <<callVars, runVars, storeVars, again, step, outcome, cleanup, turns,
                   quitVars, boundVars>>

Grant(u) ==
    /\ Lease!Grant(u)
    /\ UNCHANGED <<callVars, runVars, storeVars, workVars, quitVars, boundVars>>

GivesUpLease(w) == IF holder[w[2]] = w THEN Lease!Release(w[2]) ELSE Lease!GiveUp(w[2], w)

GaveUp_Done == "done"

(* Where a first attempt is that ended without its teardown's end. *)
GaveUp == "lost"

(* Cancelled before it had the lease. *)
LeaveLine(w) ==
    /\ at[w] = "line" /\ w \notin again
    /\ w[1] \in aborted
    /\ GivesUpLease(w)
    /\ at' = [at EXCEPT ![w] = GaveUp]
    /\ outcome' = [outcome EXCEPT ![w] = "cancelled"]
    /\ UNCHANGED <<callVars, runVars, storeVars, again, step, cleanup, turns, quitVars, boundVars>>

(* The catch: a lease nobody can abort, for the teardown alone. *)
TakeAgain(w) ==
    /\ at[w] = "lost"
    /\ at' = [at EXCEPT ![w] = "line"]
    /\ again' = again \cup {w}
    /\ Lease!Claim(w[2], w)
    /\ UNCHANGED <<callVars, runVars, storeVars, step, outcome, cleanup, turns, quitVars, boundVars>>

HasLease_Queued(w) == at[w] = "line" /\ \E i \in DOMAIN line[w[2]] : line[w[2]][i] = w

HasLease(w) == at[w] = "line" /\ holder[w[2]] = w

(* #executeTargetWithLease: its steps begin, or, without the connected app *)
(* they need, its teardown; the second attempt is a teardown alone.        *)
Begin(w) ==
    /\ HasLease(w)
    /\ w \in again \/ w[1] \notin aborted
    /\ at' = [at EXCEPT ![w] = "lease"]
    /\ step' = [step EXCEPT ![w] = 0]
    /\ \/ w \in again /\ UNCHANGED outcome
       \/ w \notin again /\ outcome' = [outcome EXCEPT ![w] = "running"]
       \/ w \notin again /\ NeedsApp(w[1]) /\ outcome' = [outcome EXCEPT ![w] = "failed"]
    /\ cleanup' = [cleanup EXCEPT ![w] = IF outcome'[w] = "running" THEN @ ELSE "running"]
    /\ UNCHANGED <<callVars, runVars, storeVars, again, turns, leaseVars, quitVars, boundVars>>

(* A step starts its job, a Slimming step when its turn comes. *)
StartStep(w) ==
    /\ at[w] = "lease" /\ More(w)
    /\ Cleaning(w) \/ w[1] \notin aborted
    /\ IF Script(w)[step[w] + 1] = "slimming"
       THEN at' = [at EXCEPT ![w] = "turn"] /\ turns' = Append(turns, w)
       ELSE at' = [at EXCEPT ![w] = "job"] /\ UNCHANGED turns
    /\ UNCHANGED <<callVars, runVars, storeVars, again, step, outcome, cleanup, leaseVars,
                   quitVars, boundVars>>

HasTurn_Any(w) == at[w] = "turn"

HasTurn(w) == at[w] = "turn" /\ Head(turns) = w

TurnComes(w) ==
    /\ HasTurn(w)
    /\ Cleaning(w) \/ w[1] \notin aborted
    /\ at' = [at EXCEPT ![w] = "job"]
    /\ UNCHANGED <<callVars, runVars, storeVars, again, step, outcome, cleanup, turns, leaseVars,
                   quitVars, boundVars>>

InSlimming(w) == at[w] = "job" /\ Script(w)[step[w] + 1] = "slimming"

TurnsAfter_NotAborted(w) == IF InSlimming(w) THEN Tail(turns) ELSE turns

(* The Slimming queue once w has left it. *)
TurnsAfter(w) == IF InSlimming(w) \/ at[w] = "turn" THEN Tail(turns) ELSE turns

(* Done, and the progress saved; the last step completes the target and    *)
(* its teardown begins.                                                    *)
StepDone(w) ==
    LET completes == ~Cleaning(w) /\ step[w] + 1 = Len(Script(w)) IN
    /\ at[w] = "job" /\ services
    /\ at' = [at EXCEPT ![w] = "lease"]
    /\ turns' = TurnsAfter(w)
    /\ step' = [step EXCEPT ![w] = IF completes THEN 0 ELSE @ + 1]
    /\ outcome' = [outcome EXCEPT ![w] = IF completes THEN "complete" ELSE @]
    /\ cleanup' = [cleanup EXCEPT ![w] = IF completes THEN "running" ELSE @]
    /\ Save(w[1])
    /\ UNCHANGED <<callVars, runVars, cancelSaves, again, leaseVars, quitVars, boundVars>>

(* Its job failed, was cancelled or took too long, or the run was cancelled*)
(* before it: a step ends the steps, a teardown step only spoils the       *)
(* teardown.                                                               *)
StepFails(w) ==
    /\ \/ at[w] = "job" \/ HasTurn(w)
       \/ at[w] = "lease" /\ More(w) /\ ~Cleaning(w) /\ w[1] \in aborted
    /\ at' = [at EXCEPT ![w] = "lease"]
    /\ turns' = TurnsAfter(w)
    /\ step' = [step EXCEPT ![w] = IF Cleaning(w) THEN @ + 1 ELSE 0]
    /\ outcome' = [outcome EXCEPT ![w] = IF Cleaning(w) THEN @ ELSE Broken(w)]
    /\ cleanup' = [cleanup EXCEPT ![w] = IF Cleaning(w) THEN "spoilt" ELSE "running"]
    /\ Save(w[1])
    /\ UNCHANGED <<callVars, runVars, cancelSaves, again, leaseVars, quitVars, boundVars>>

Cleaned(w) == at[w] = "lease" /\ ~More(w) /\ Cleaning(w)

CleanupOf(w) == IF cleanup[w] = "spoilt" THEN "failed" ELSE "complete"

(* The teardown came to its end: the first attempt saves that inside its   *)
(* lease, the second one after it.                                         *)
TeardownDone(w) ==
    /\ Cleaned(w)
    /\ at' = [at EXCEPT ![w] = IF w \in again THEN "noting" ELSE "done"]
    /\ step' = [step EXCEPT ![w] = 0]
    /\ cleanup' = [cleanup EXCEPT ![w] = CleanupOf(w)]
    /\ IF w \in again THEN UNCHANGED stored ELSE Save(w[1])
    /\ Lease!Release(w[2])
    /\ UNCHANGED <<callVars, runVars, cancelSaves, again, outcome, turns, quitVars, boundVars>>

(* An attempt ends without its teardown's end. The first goes to the catch,*)
(* and so to the second, which overwrites what it recorded of the teardown;*)
(* the second records that the teardown failed: "abandoned" stands for     *)
(* "failed" with the message that says so.                                 *)
BreaksOff(w) ==
    /\ Lease!Release(w[2])
    /\ step' = [step EXCEPT ![w] = 0]
    /\ \/ /\ w \in again
          /\ at' = [at EXCEPT ![w] = "noting"]
          /\ cleanup' = [cleanup EXCEPT ![w] = "abandoned"]
          /\ UNCHANGED outcome
       \/ /\ w \notin again
          /\ at' = [at EXCEPT ![w] = GaveUp]
          /\ outcome' = [outcome EXCEPT ![w] = Broken(w)]
          /\ UNCHANGED cleanup
    /\ UNCHANGED <<callVars, runVars, storeVars, again, turns, quitVars>>

(* A save of the teardown is refused. *)
TeardownBreaks(w) ==
    /\ at[w] = "lease" /\ Cleaning(w)
    /\ SaveFails
    /\ BreaksOff(w)

(* exactConnectedDevice throws, as two connected instances claim the       *)
(* Simulator: before anything else in an attempt, or before the teardown of*)
(* a first attempt that had begun with none connected and needed none.     *)
Ambiguous(w) ==
    /\ w[2] \in Doubled
    /\ \/ HasLease(w) /\ (w \in again \/ w[1] \notin aborted)
       \/ /\ at[w] = "lease" /\ Cleaning(w) /\ step[w] = 0
          /\ w \notin again /\ ~NeedsApp(w[1])
    /\ BreaksOff(w)
    /\ UNCHANGED boundVars

(* The last save of a second attempt. Refused, it ends the worker, and with*)
(* it the run, whatever the other workers are at.                          *)
Noted(w) ==
    /\ at[w] = "noting"
    /\ \/ /\ Save(w[1]) /\ UNCHANGED boundVars
          /\ at' = [at EXCEPT ![w] = "done"]
          /\ again' = again \ {w}
       \/ /\ SaveFails /\ UNCHANGED <<stored, again>>
          /\ at' = [at EXCEPT ![w] = "dead"]
    /\ UNCHANGED <<callVars, runVars, cancelSaves, step, outcome, cleanup, turns, leaseVars,
                   quitVars>>

-----------------------------------------------------------------------------
(* A lane or a job of its own. *)
GuestClaims(u) ==
    /\ \A v \in Simulators : \A i \in DOMAIN line[v] : line[v][i] # Guest
    /\ Lease!Claim(u, Guest)
    /\ UNCHANGED <<callVars, runVars, storeVars, workVars, quitVars, boundVars>>

GuestReleases(u) ==
    /\ holder[u] = Guest
    /\ Lease!Release(u)
    /\ UNCHANGED <<callVars, runVars, storeVars, workVars, quitVars, boundVars>>

(* RecipeService.stop, as the app quits. *)
Stop ==
    /\ ~stopped
    /\ stopped' = TRUE
    /\ aborted' = aborted \cup Active
    /\ waits' = Active
    /\ UNCHANGED <<callVars, run, task, storeVars, workVars, leaseVars, late, services, boundVars>>

RunsStopped_Aborted == waits \subseteq aborted

RunsStopped == waits \cap Active = {}

(* stopForQuit: the runs it awaited are over, or its budget is.            *)
StopServices ==
    /\ stopped /\ services
    /\ services' = FALSE
    /\ \E over \in BOOLEAN : (RunsStopped \/ over) /\ late' = over
    /\ UNCHANGED <<callVars, runVars, storeVars, workVars, leaseVars, stopped, waits, boundVars>>

(* The app dies or has quit, and starts again: #recoverInterruptedRuns.    *)
Restart ==
    /\ restarts < MaxRestarts /\ faults + restarts < MaxTroubles
    /\ restarts' = restarts + 1
    /\ call' = [r \in Runs |-> "none"]
    /\ claimed' = [u \in Simulators |-> None]
    /\ task' = [r \in Runs |-> "none"]
    /\ aborted' = {} /\ cancelSaves' = {}
    /\ at' = [w \in Works |-> "todo"]
    /\ again' = {}
    /\ step' = [w \in Works |-> 0]
    /\ outcome' = [w \in Works |-> "queued"]
    /\ cleanup' = [w \in Works |-> "not-started"]
    /\ turns' = <<>>
    /\ holder' = [u \in Simulators |-> None]
    /\ line' = [u \in Simulators |-> <<>>]
    /\ stopped' = FALSE /\ waits' = {} /\ late' = FALSE /\ services' = TRUE
    /\ stored' = [r \in Runs |-> IF stored[r] \in Unfinished THEN "interrupted" ELSE stored[r]]
    /\ run' = stored'
    /\ UNCHANGED faults

-----------------------------------------------------------------------------
CallStep(r) ==
    Reject(r) \/ AskApproval(r) \/ ApprovalAsked(r) \/ Claim(r) \/ Launch(r) \/ LaunchFails(r)

RunStep(r) == Start(r) \/ StartFails(r) \/ EndRun(r) \/ Finish(r)

WorkStep(w) ==
    \/ LeaveLine(w) \/ TakeAgain(w) \/ Begin(w) \/ StartStep(w) \/ TurnComes(w)
    \/ StepDone(w) \/ StepFails(w) \/ TeardownDone(w) \/ TeardownBreaks(w) \/ Ambiguous(w)
    \/ Noted(w)

Next ==
    \/ \E r \in Runs : \/ \E confirmed \in BOOLEAN : RunRecipe(r, confirmed)
                       \/ CallStep(r) \/ CancelRun(r) \/ CancelSaved(r) \/ RunStep(r)
                       \/ \E i \in DOMAIN Plan[r].targets : Take(r, i)
    \/ \E w \in Works : WorkStep(w)
    \/ \E u \in Simulators : Grant(u)
    \/ \E u \in Visited : GuestClaims(u) \/ GuestReleases(u)
    \/ Stop \/ StopServices \/ Restart

Spec == Init /\ [][Next]_vars

(* Steps have time limits, writes end, other holders of a lease give it    *)
(* back; nobody has to ask, cancel or quit.                                *)
Fairness ==
    /\ \A r \in Runs : /\ WF_vars(CallStep(r)) /\ WF_vars(RunStep(r))
                       /\ WF_vars(\E i \in DOMAIN Plan[r].targets : Take(r, i))
    /\ \A w \in Works : WF_vars(WorkStep(w))
    /\ \A u \in Simulators : WF_vars(Grant(u))
    /\ \A u \in Visited : WF_vars(GuestReleases(u))

FairSpec == Spec /\ Fairness
-----------------------------------------------------------------------------
(* Properties. *)
Calls == {"none", "asked", "confirmed", "asking", "saving"}
Tasks == {"none", "starting", "working", "ending"}
Places == {"todo", "line", "lost", "lease", "turn", "job", "noting", "done",
           "dead"}

RunsTypeOK ==
    /\ call \in [Runs -> Calls]
    /\ claimed \in [Simulators -> Runs \cup {None}]
    /\ run \in [Runs -> Unfinished \cup Ended \cup {"needs-approval", None}]
    /\ stored \in [Runs -> Unfinished \cup Ended \cup {"needs-approval", None}]
    /\ task \in [Runs -> Tasks]
    /\ aborted \subseteq Runs /\ cancelSaves \subseteq Runs /\ waits \subseteq Runs

WorksTypeOK ==
    /\ at \in [Works -> Places]
    /\ again \subseteq Works
    /\ step \in [Works -> Nat]
    /\ outcome \in [Works -> Final \cup {"queued", "resolving", "running"}]
    /\ cleanup \in [Works -> {"not-started", "running", "spoilt", "complete", "failed",
                           "abandoned"}]
    /\ turns \in Seq(Works)

TypeOK ==
    /\ RunsTypeOK /\ WorksTypeOK
    /\ stopped \in BOOLEAN /\ late \in BOOLEAN /\ services \in BOOLEAN
    /\ faults \in 0..MaxFaults /\ restarts \in 0..MaxRestarts

(* #executeTargetWithLease, #runTeardown: steps and teardown, the one after*)
(* a cancel or a refused write as well, run under the Simulator's lease,   *)
(* so that no lane, job or other run changes the Simulator in between.     *)
UnderLease ==
    \A w \in Works : at[w] \in {"lease", "turn", "job"} => holder[w[2]] = w

Inv == TypeOK /\ UnderLease

(* #slimmingQueue: "SimSlim mutations remain serialized", over the targets *)
(* of all runs, whichever of them fails, is cancelled or runs its teardown.*)
SlimmingIsSerial ==
    \A v, w \in Works : InSlimming(v) /\ InSlimming(w) => v = w

(* "Cancelling active steps; teardown will still run.": a worker leaves a  *)
(* target only when a teardown of it came to its end, also when the run was*)
(* cancelled before the target had its lease or a save broke the teardown  *)
(* off; or else when the second attempt was broken off as well, by a       *)
(* refused write or by two connected instances, and then the record says   *)
(* so and the target counts as failed or cancelled.                        *)
TeardownAlways ==
    \A w \in Works : at[w] \in {"noting", "done", "dead"} /\ outcome[w] # "queued" =>
        \/ Cleaning(w) /\ cleanup[w] \in {"complete", "failed"}
        \/ cleanup[w] = "abandoned" /\ outcome[w] \in {"failed", "cancelled"}

(* "Recipe completed on every target.": a run found complete did all steps *)
(* and the teardown on all targets, unless a write was refused.            *)
CompleteIsComplete ==
    \A r \in Runs : task[r] = "ending" /\ run[r] = "complete" /\ faults = 0 =>
        \A w \in WorksOf(r) : outcome[w] = "complete" /\ cleanup[w] = "complete"

(* Every target is done, or none was ever taken, or a worker was ended by a*)
(* refused write and the others may be at work still.                      *)
AllDone(r) == \A w \in WorksOf(r) : at[w] = "done"
Untouched(r) == \A w \in WorksOf(r) : at[w] = "todo"
WorkerDied(r) == \E w \in WorksOf(r) : at[w] = "dead"

(* runRecipe, #claimedTargets: a Simulator that a run works on is claimed  *)
(* by that run, though the run waited for the inventory in between, unless *)
(* a refused write ended one of its workers; and claims are held by runs on*)
(* the way and by nobody else, except those of a run whose first save was  *)
(* refused, which stay.                                                    *)
ClaimsFollowRuns ==
    /\ \A w \in Works :
          at[w] \notin {"todo", "done"} => claimed[w[2]] = w[1] \/ WorkerDied(w[1])
    /\ \A u \in Simulators : claimed[u] # None =>
          \/ call[claimed[u]] = "saving" \/ claimed[u] \in Active
          \/ faults # 0 /\ stored[claimed[u]] \in {None, "needs-approval"}

(* stopForQuit: within its budget the quit leaves the services up until    *)
(* the runs it stopped are done with every target, unless a refused write  *)
(* kept such a run from taking any or ended one of its workers.            *)
QuitLeavesTeardown ==
    ~services /\ ~late =>
        \A r \in waits : AllDone(r) \/ (faults # 0 /\ (Untouched(r) \/ WorkerDied(r)))

(* runExclusive, #slimmingQueue: leases, the Slimming queue inside them,   *)
(* and the second lease after a failure never form a circle: when no more  *)
(* are asked for, all runs have ended and so has the work on every target, *)
(* the targets of a run that ended before them included.                   *)
EveryRunEnds ==
    []<>(Active = {} /\ \A w \in Works : at[w] \in {"todo", "done", "dead"})

(* What the code says and refused writes or late calls refute.             *)

(* "Recipe completed on every target.", also when a write was refused.     *)
CompleteMeansDone ==
    \A r \in Runs : task[r] = "ending" /\ run[r] = "complete" =>
        \A w \in WorksOf(r) : outcome[w] = "complete"

(* A run that is over is not shown as one to be waited for or cancelled.   *)
EndedRunsSettle ==
    \A r \in Runs : stored[r] \in Unfinished => r \in Active \cup cancelSaves

(* "stopServices is called only once the teardown has finished, or once    *)
(* budgetMs has passed" (quit-sequence.ts), for every run.                 *)
ServicesOutliveTeardown ==
    ~services /\ ~late => \A w \in Works : at[w] \in {"todo", "done", "dead"}

(* "No more than ... runs may be active." (runRecipe)                      *)
ActiveWithinLimit == Cardinality(Active) <= MaxActive
=============================================================================
