--------------------------- MODULE Recipes_proofs ---------------------------
(***************************************************************************)
(* For any number of runs, Simulators, workers and steps, refused writes   *)
(* and restarts: the safety properties of Recipes, from one inductive      *)
(* invariant.                                                              *)
(***************************************************************************)
EXTENDS Recipes, TLAPS

(* A target of a run is one of its Simulators.                             *)
LEMMA WorksAre ==
    /\ \A r \in Runs : Targets(r) \subseteq Simulators
    /\ \A w \in Works : /\ w[1] \in Runs /\ w[2] \in Targets(w[1]) /\ w[2] \in Simulators
                        /\ w = <<w[1], w[2]>>
    /\ \A r \in Runs : \A u \in Targets(r) : <<r, u>> \in Works
    /\ \A r \in Runs : \A i \in DOMAIN Plan[r].targets : Plan[r].targets[i] \in Targets(r)
  <1>1. \A r \in Runs : \A i \in DOMAIN Plan[r].targets : Plan[r].targets[i] \in Simulators
    BY RecipesAssumption
  <1>2. \A r \in Runs : Targets(r) \subseteq Simulators
    BY <1>1 DEF Targets
  <1>3. \A w \in Works : \E r \in Runs : \E u \in Targets(r) : w = <<r, u>>
    BY DEF Works
  <1>4. \A r \in Runs : \A u \in Targets(r) : <<r, u>> \in Works
    BY DEF Works
  <1>5. \A r \in Runs : \A i \in DOMAIN Plan[r].targets : Plan[r].targets[i] \in Targets(r)
    BY DEF Targets
  <1>6. \A w \in Works : /\ w[1] \in Runs /\ w[2] \in Targets(w[1]) /\ w[2] \in Simulators
                         /\ w = <<w[1], w[2]>>
    BY <1>2, <1>3
  <1> QED
    BY <1>2, <1>4, <1>5, <1>6

LEMMA BoundsAre == MaxFaults \in Nat /\ MaxRestarts \in Nat
  BY RecipesAssumption

(* The lease: who gives up a place in the line holds what it held.         *)
LEMMA GivingUpKeepsHolder ==
    ASSUME NEW u, NEW c, Lease!GiveUp(u, c)
    PROVE  holder' = holder
  BY DEF Lease!GiveUp

-----------------------------------------------------------------------------
(* The inductive invariant.                                                *)

(* The record of a run tells how far it is: before its queued record is    *)
(* stored nothing has begun, and from then on it is not asked for again.   *)
NeverStarted(r) == stored[r] \in {None, "needs-approval"}

Records ==
    \A r \in Runs :
        /\ NeverStarted(r) => /\ task[r] = "none" /\ r \notin cancelSaves /\ r \notin waits
                              /\ \A w \in WorksOf(r) : at[w] = "todo"
        /\ ~NeverStarted(r) => call[r] = "none" /\ run[r] \notin {None, "needs-approval"}
        /\ call[r] = "asking" => run[r] = "needs-approval"

(* In the Slimming queue are those who wait there, once each, and its head *)
(* is the one whose mutation runs.                                         *)
Served ==
    /\ \A w \in Works :
          at[w] = "turn" \/ InSlimming(w) <=> \E i \in 1..Len(turns) : turns[i] = w
    /\ \A i, j \in 1..Len(turns) : turns[i] = turns[j] => i = j
    /\ \A w \in Works : InSlimming(w) => turns[1] = w
    /\ \A w \in Works : at[w] = "turn" => Script(w)[step[w] + 1] = "slimming"

(* Leases are held for existing Simulators.                                *)
HolderOK == holder = [u \in Simulators |-> holder[u]]

(* What the task of a run implies for its targets.                         *)
Doing ==
    \A w \in Works :
        /\ task[w[1]] = "starting" => at[w] = "todo"
        /\ task[w[1]] # "none" => outcome[w] # "queued"
        /\ outcome[w] = "cancelled" => w[1] \in aborted

(* A second attempt follows a failure, and is over when the target is.     *)
Again ==
    \A w \in Works :
        /\ at[w] = "lost" \/ w \in again => outcome[w] \in {"failed", "cancelled"}
        /\ w \in again => at[w] \notin {"todo", "lost", "done"}

(* A run is over when all its targets are done, but for refused writes.    *)
Over(r) == AllDone(r) \/ (faults # 0 /\ (Untouched(r) \/ WorkerDied(r)))

(* How the work on the targets and the claims follow the run, and what     *)
(* only a refused write can upset.                                         *)
Undisturbed ==
    /\ \A w \in Works : at[w] = "dead" => faults # 0
    /\ \A r \in Runs :
          /\ task[r] = "ending" \/ (task[r] = "none" /\ r \in waits) => Over(r)
          /\ task[r] = "none" => Untouched(r) \/ AllDone(r) \/ WorkerDied(r)
          /\ call[r] = "saving" \/ task[r] # "none" => \A u \in Targets(r) : claimed[u] = r
    /\ \A u \in Simulators : claimed[u] # None =>
          \/ call[claimed[u]] = "saving" \/ task[claimed[u]] # "none"
          \/ faults # 0 /\ NeverStarted(claimed[u])

(* Services go down after stop, and in time only after the runs it awaits. *)
Quitting ==
    /\ ~services => stopped
    /\ ~services /\ ~late => RunsStopped

IInv ==
    /\ TypeOK /\ HolderOK /\ UnderLease /\ Served /\ Records /\ TeardownAlways /\ Again
    /\ Doing /\ Undisturbed /\ Quitting /\ CompleteIsComplete

LEMMA InitIInv == Init => IInv
  <1> SUFFICES ASSUME Init PROVE IInv
    OBVIOUS
  <1>1. TypeOK
    <2>1. RunsTypeOK
      BY DEF Init, RunsTypeOK, Calls, Tasks
    <2>2. WorksTypeOK
      BY DEF Init, WorksTypeOK, Places
    <2>3. stopped \in BOOLEAN /\ late \in BOOLEAN /\ services \in BOOLEAN
      BY Zenon DEF Init
    <2>4. faults = 0 /\ restarts = 0
      BY DEF Init
    <2>5. faults \in 0..MaxFaults /\ restarts \in 0..MaxRestarts
      BY <2>4, BoundsAre
    <2> QED
      BY <2>1, <2>2, <2>3, <2>5, Zenon DEF TypeOK
  <1>2. HolderOK /\ UnderLease
    BY DEF Init, HolderOK, UnderLease, Lease!LeaseInit
  <1>3. Served
    BY DEF Init, Served, InSlimming
  <1>4. Records
    BY DEF Init, Records, NeverStarted, WorksOf
  <1>5. TeardownAlways /\ Doing /\ Again
    BY WorksAre DEF Init, TeardownAlways, Doing, Again
  <1>6. Undisturbed
    BY WorksAre DEF Init, Undisturbed, Untouched, WorksOf
  <1>7. Quitting /\ CompleteIsComplete
    BY DEF Init, Quitting, CompleteIsComplete, Active, RunsStopped
  <1> QED
    BY <1>1, <1>2, <1>3, <1>4, <1>5, <1>6, <1>7 DEF IInv

-----------------------------------------------------------------------------
(* What the steps leave alone.                                             *)
Asked(r) ==
    \/ \E confirmed \in BOOLEAN : RunRecipe(r, confirmed)
    \/ CallStep(r) \/ CancelRun(r) \/ CancelSaved(r) \/ RunStep(r)

Worked == (\E w \in Works : WorkStep(w)) \/ \E r \in Runs : \E i \in DOMAIN Plan[r].targets : Take(r, i)

Leased == (\E u \in Simulators : Grant(u)) \/ \E u \in Visited : GuestClaims(u) \/ GuestReleases(u)

LEMMA NextIs ==
    ASSUME [Next]_vars
    PROVE  \/ \E r \in Runs : Asked(r)
           \/ Worked \/ Leased \/ Stop \/ StopServices \/ Restart \/ UNCHANGED vars
  BY Zenon DEF Next, Asked, Worked, Leased

(* Calls and tasks of runs leave the work on the targets alone.            *)
LEMMA AskedLeaves ==
    ASSUME NEW r \in Runs, Asked(r)
    PROVE  UNCHANGED <<at, again, step, turns, holder, line, stopped, waits, late, services, restarts>>
  <1>1. ASSUME NEW confirmed \in BOOLEAN, RunRecipe(r, confirmed)
        PROVE  UNCHANGED <<at, again, step, turns, holder, line, stopped, waits, late, services, restarts>>
    BY <1>1 DEF RunRecipe, workVars, leaseVars, quitVars, boundVars
  <1>2. CASE CallStep(r)
    BY <1>2 DEF CallStep, Reject, AskApproval, ApprovalAsked, Claim, Launch, LaunchFails,
                SaveFails, workVars, leaseVars, quitVars, boundVars
  <1>3. CASE CancelRun(r) \/ CancelSaved(r)
    BY <1>3 DEF CancelRun, CancelSaved, SaveFails, workVars, leaseVars, quitVars, boundVars
  <1>4. CASE RunStep(r)
    BY <1>4 DEF RunStep, Start, StartFails, EndRun, EndsRun, Finish, SaveFails,
                workVars, leaseVars, quitVars, boundVars
  <1> QED
    BY <1>1, <1>2, <1>3, <1>4 DEF Asked

(* Work on a target leaves everything of the runs but the stored record.   *)
LEMMA WorkLeaves ==
    ASSUME NEW w \in Works, WorkStep(w)
    PROVE  /\ UNCHANGED <<call, claimed, run, task, aborted, cancelSaves, stopped, waits, late,
                          services, restarts>>
           /\ stored' = stored \/ Save(w[1])
           /\ faults' = faults \/ SaveFails
           /\ at[w] \notin {"todo", "done", "dead"}
  <1>1. CASE LeaveLine(w) \/ TakeAgain(w) \/ Begin(w) \/ StartStep(w) \/ TurnComes(w)
    BY <1>1 DEF LeaveLine, TakeAgain, Begin, StartStep, TurnComes, HasLease, HasTurn,
                callVars, runVars, storeVars, quitVars, boundVars
  <1>2. CASE StepDone(w) \/ StepFails(w)
    BY <1>2 DEF StepDone, StepFails, HasTurn, callVars, runVars, quitVars, boundVars
  <1>3. CASE TeardownDone(w) \/ TeardownBreaks(w) \/ Ambiguous(w) \/ Noted(w)
    BY <1>3 DEF TeardownDone, TeardownBreaks, Ambiguous, BreaksOff, Noted, Cleaned, HasLease,
                SaveFails, callVars, runVars, storeVars, quitVars, boundVars
  <1> QED
    BY <1>1, <1>2, <1>3 DEF WorkStep

LEMMA TakeLeaves ==
    ASSUME NEW r \in Runs, NEW i \in DOMAIN Plan[r].targets, Take(r, i)
    PROVE  /\ UNCHANGED <<call, claimed, run, task, aborted, cancelSaves, stored, stopped, waits,
                          late, services, faults, restarts, again, step, outcome, cleanup, turns>>
           /\ \E w \in Works :
                 /\ w[1] = r
                 /\ at[w] = "todo" /\ at' = [at EXCEPT ![w] = "line"] /\ holder' = holder
                 /\ task[r] = "working" \/ \E v \in WorksOf(r) : at[v] # "todo"
  <1> DEFINE w == <<r, Plan[r].targets[i]>>
  <1>1. w \in Works
    BY WorksAre
  <1>2. w[1] = r
    OBVIOUS
  <1>3. /\ at[w] = "todo" /\ at' = [at EXCEPT ![w] = "line"]
        /\ task[r] = "working" \/ \E v \in WorksOf(r) : at[v] # "todo"
    BY DEF Take
  <1>4. holder' = holder
    BY DEF Take, Lease!Claim
  <1>5. UNCHANGED <<call, claimed, run, task, aborted, cancelSaves, stored, stopped, waits,
                    late, services, faults, restarts, again, step, outcome, cleanup, turns>>
    BY DEF Take, callVars, runVars, storeVars, quitVars, boundVars
  <1> HIDE DEF w
  <1> QED
    BY <1>1, <1>2, <1>3, <1>4, <1>5

LEMMA LeasedLeaves ==
    ASSUME Leased
    PROVE  UNCHANGED <<callVars, runVars, storeVars, workVars, quitVars, boundVars>>
  BY Zenon DEF Leased, Grant, GuestClaims, GuestReleases

LEMMA QuitLeaves ==
    ASSUME Stop \/ StopServices
    PROVE  UNCHANGED <<callVars, run, task, storeVars, workVars, leaseVars, boundVars>>
  BY DEF Stop, StopServices, callVars, runVars, storeVars, workVars, leaseVars, boundVars

LEMMA WorkIsLocal ==
    ASSUME WorksTypeOK, NEW w \in Works, WorkStep(w), NEW v \in Works, v # w
    PROVE  at'[v] = at[v] /\ step'[v] = step[v] /\ outcome'[v] = outcome[v] /\ cleanup'[v] = cleanup[v]
  <1>1. CASE LeaveLine(w) \/ TakeAgain(w) \/ StartStep(w) \/ TurnComes(w) \/ Noted(w)
    BY <1>1 DEF LeaveLine, TakeAgain, StartStep, TurnComes, Noted, WorksTypeOK
  <1>2. CASE Begin(w)
    <2>2. outcome'[v] = outcome[v]
      BY <1>2 DEF Begin, WorksTypeOK
    <2> QED
      BY <1>2, <2>2 DEF Begin, WorksTypeOK
  <1>3. CASE StepDone(w) \/ StepFails(w)
    BY <1>3 DEF StepDone, StepFails, WorksTypeOK
  <1>4. CASE TeardownDone(w) \/ TeardownBreaks(w) \/ Ambiguous(w)
    BY <1>4 DEF TeardownDone, TeardownBreaks, Ambiguous, BreaksOff, WorksTypeOK
  <1> QED
    BY <1>1, <1>2, <1>3, <1>4 DEF WorkStep

(* Only a run's beginning and its end touch what came of its targets.      *)
LEMMA AskedOutcome ==
    ASSUME WorksTypeOK, Records, NEW r \in Runs, Asked(r)
    PROVE  \A w \in Works : outcome'[w] = outcome[w] \/ at[w] \in {"todo", "done"}
  <1>1. CASE Launch(r)
    BY <1>1 DEF Launch, Records, WorksOf, WorksTypeOK
  <1>2. CASE Finish(r)
    BY <1>2 DEF Finish, WorksTypeOK
  <1>3. ASSUME NEW confirmed \in BOOLEAN, RunRecipe(r, confirmed)
        PROVE  outcome' = outcome
    BY <1>3 DEF RunRecipe, workVars
  <1>4. CASE Reject(r) \/ AskApproval(r) \/ ApprovalAsked(r) \/ Claim(r) \/ LaunchFails(r)
    BY <1>4 DEF Reject, AskApproval, ApprovalAsked, Claim, LaunchFails, workVars
  <1>5. CASE CancelRun(r) \/ CancelSaved(r) \/ Start(r) \/ EndsRun(r)
    BY <1>5 DEF CancelRun, CancelSaved, Start, EndsRun, workVars
  <1> QED
    BY <1>1, <1>2, <1>3, <1>4, <1>5 DEF Asked, CallStep, RunStep, StartFails, EndRun

(* A write is refused or it is not.                                        *)
LEMMA FaultsOnly ==
    ASSUME [Next]_vars
    PROVE  faults' = faults \/ SaveFails
  <1>1. ASSUME NEW r \in Runs, Asked(r)
        PROVE  faults' = faults \/ SaveFails
    <2>1. ASSUME NEW confirmed \in BOOLEAN, RunRecipe(r, confirmed)
          PROVE  faults' = faults
      BY <2>1 DEF RunRecipe, boundVars
    <2>2. CASE CallStep(r)
      BY <2>2 DEF CallStep, Reject, AskApproval, ApprovalAsked, Claim, Launch, LaunchFails, boundVars
    <2>3. CASE CancelRun(r) \/ CancelSaved(r)
      BY <2>3 DEF CancelRun, CancelSaved, boundVars
    <2>4. CASE RunStep(r)
      BY <2>4 DEF RunStep, Start, StartFails, EndRun, Finish, boundVars
    <2> QED
      BY <1>1, <2>1, <2>2, <2>3, <2>4 DEF Asked
  <1>2. CASE Worked
    BY <1>2, WorkLeaves, TakeLeaves DEF Worked
  <1>3. CASE Leased
    BY <1>3, LeasedLeaves DEF boundVars
  <1>4. CASE Stop \/ StopServices
    BY <1>4, QuitLeaves DEF boundVars
  <1>5. CASE Restart
    BY <1>5 DEF Restart
  <1>6. CASE UNCHANGED vars
    BY <1>6 DEF vars, boundVars
  <1> QED
    BY <1>1, <1>2, <1>3, <1>4, <1>5, <1>6, NextIs

-----------------------------------------------------------------------------
(* Each part of the invariant is kept by every step.                       *)
LEMMA RecordsKept ==
    ASSUME RunsTypeOK, WorksTypeOK, Records, [Next]_vars
    PROVE  Records'
  <1>1. ASSUME NEW r \in Runs, Asked(r)
        PROVE  Records'
    <2>1. UNCHANGED <<at, waits>>
      BY <1>1, AskedLeaves
    <2>2. ASSUME NEW confirmed \in BOOLEAN, RunRecipe(r, confirmed)
          PROVE  Records'
      BY <2>1, <2>2, NoneAssumption
         DEF RunRecipe, Askable, Records, NeverStarted, RunsTypeOK, runVars, storeVars
    <2>3. CASE Reject(r)
      BY <2>1, <2>3 DEF Reject, Records, NeverStarted, RunsTypeOK, runVars, storeVars
    <2>4. CASE AskApproval(r)
      BY <2>1, <2>4 DEF AskApproval, Records, NeverStarted, RunsTypeOK, storeVars
    <2>5. CASE ApprovalAsked(r)
      BY <2>1, <2>5 DEF ApprovalAsked, Save, Records, NeverStarted, RunsTypeOK, runVars
    <2>6. CASE Claim(r)
      BY <2>1, <2>6 DEF Claim, Records, NeverStarted, RunsTypeOK, storeVars
    <2>7. CASE Launch(r)
      BY <2>1, <2>7, NoneAssumption DEF Launch, Records, NeverStarted, RunsTypeOK, Unfinished
    <2>8. CASE LaunchFails(r)
      BY <2>1, <2>8 DEF LaunchFails, Records, NeverStarted, RunsTypeOK, runVars, storeVars
    <2>9. CASE CancelRun(r)
      BY <2>1, <2>9, NoneAssumption
         DEF CancelRun, Active, Records, NeverStarted, RunsTypeOK, callVars, Unfinished
    <2>10. CASE CancelSaved(r)
      BY <2>1, <2>10 DEF CancelSaved, Save, Records, NeverStarted, RunsTypeOK, callVars, runVars
    <2>11. CASE Start(r)
      BY <2>1, <2>11 DEF Start, Save, Records, NeverStarted, RunsTypeOK, callVars
    <2>12. FinalStatus(r) \notin {None, "needs-approval"}
      BY NoneAssumption DEF FinalStatus, Ended
    <2>13. CASE EndsRun(r) /\ UNCHANGED stored /\ task[r] # "none"
      BY <2>1, <2>12, <2>13 DEF EndsRun, Records, NeverStarted, RunsTypeOK, callVars
    <2>14. CASE Finish(r)
      BY <2>1, <2>14 DEF Finish, Save, Records, NeverStarted, RunsTypeOK
    <2> QED
      BY <1>1, <2>2, <2>3, <2>4, <2>5, <2>6, <2>7, <2>8, <2>9, <2>10, <2>11, <2>13, <2>14
         DEF Asked, CallStep, RunStep, StartFails, EndRun
  <1>2. CASE Worked
    <2>1. ASSUME NEW w \in Works, WorkStep(w)
          PROVE  Records'
      <3>1. /\ UNCHANGED <<call, run, task, cancelSaves, waits>>
            /\ stored' = stored \/ Save(w[1])
            /\ at[w] \notin {"todo", "done", "dead"}
        BY <2>1, WorkLeaves
      <3>2. w[1] \in Runs /\ w \in WorksOf(w[1])
        BY WorksAre DEF WorksOf
      <3>3. ~NeverStarted(w[1])
        BY <3>1, <3>2 DEF Records
      <3>4. \A r \in Runs : NeverStarted(r)' <=> NeverStarted(r)
        BY <3>1, <3>2, <3>3 DEF Save, Records, NeverStarted, RunsTypeOK
      <3>5. \A r \in Runs : NeverStarted(r) => \A v \in WorksOf(r) : at'[v] = at[v]
        BY <2>1, <3>2, <3>3, WorkIsLocal DEF WorksOf
      <3> QED
        BY <3>1, <3>4, <3>5 DEF Records, WorksOf
    <2>2. ASSUME NEW r \in Runs, NEW i \in DOMAIN Plan[r].targets, Take(r, i)
          PROVE  Records'
      <3>1. PICK w \in Works : /\ w[1] = r /\ at' = [at EXCEPT ![w] = "line"]
                               /\ task[r] = "working" \/ \E v \in WorksOf(r) : at[v] # "todo"
        BY <2>2, TakeLeaves
      <3>2. ~NeverStarted(r)
        BY <3>1 DEF Records
      <3>3. UNCHANGED <<call, run, task, cancelSaves, stored, waits>>
        BY <2>2, TakeLeaves
      <3> QED
        BY <3>1, <3>2, <3>3 DEF Records, NeverStarted, WorksOf, WorksTypeOK
    <2> QED
      BY <1>2, <2>1, <2>2 DEF Worked
  <1>3. CASE Leased
    BY <1>3, LeasedLeaves
       DEF Records, NeverStarted, callVars, runVars, storeVars, workVars, quitVars
  <1>4. CASE Stop
    BY <1>4 DEF Stop, Active, Records, NeverStarted, RunsTypeOK, callVars, storeVars, workVars
  <1>5. CASE StopServices
    BY <1>5 DEF StopServices, Records, NeverStarted, callVars, runVars, storeVars, workVars
  <1>6. CASE Restart
    BY <1>6, NoneAssumption DEF Restart, Records, NeverStarted, RunsTypeOK, WorksOf, Unfinished, Ended
  <1>7. CASE UNCHANGED vars
    BY <1>7 DEF vars, Records, NeverStarted, callVars, runVars, storeVars, workVars, quitVars
  <1> QED
    BY <1>1, <1>2, <1>3, <1>4, <1>5, <1>6, <1>7, NextIs

LEMMA RunsTyped ==
    ASSUME RunsTypeOK, [Next]_vars
    PROVE  RunsTypeOK'
  <1> USE DEF RunsTypeOK
  <1>1. ASSUME NEW r \in Runs, Asked(r)
        PROVE  RunsTypeOK'
    <2>1. UNCHANGED waits
      BY <1>1, AskedLeaves
    <2>2. ASSUME NEW confirmed \in BOOLEAN, RunRecipe(r, confirmed)
          PROVE  RunsTypeOK'
      BY <2>1, <2>2 DEF RunRecipe, runVars, storeVars, Calls
    <2>3. CASE Reject(r) \/ AskApproval(r)
      BY <2>1, <2>3 DEF Reject, AskApproval, runVars, storeVars, Calls
    <2>4. CASE ApprovalAsked(r)
      BY <2>1, <2>4 DEF ApprovalAsked, Save, runVars, Calls
    <2>5. CASE Claim(r)
      BY <2>1, <2>5 DEF Claim, storeVars, Calls, Unfinished
    <2>6. CASE Launch(r) \/ LaunchFails(r)
      BY <2>1, <2>6 DEF Launch, LaunchFails, runVars, storeVars, Calls, Tasks, Unfinished
    <2>7. CASE CancelRun(r)
      BY <2>1, <2>7 DEF CancelRun, Active, callVars, Unfinished
    <2>8. CASE CancelSaved(r)
      BY <2>1, <2>8 DEF CancelSaved, Save, callVars, runVars
    <2>9. CASE Start(r)
      BY <2>1, <2>9 DEF Start, Save, callVars, Tasks
    <2>10. FinalStatus(r) \in Ended
      BY DEF FinalStatus, Ended
    <2>11. CASE EndsRun(r) /\ UNCHANGED stored
      BY <2>1, <2>10, <2>11 DEF EndsRun, callVars, Tasks
    <2>12. CASE Finish(r)
      BY <2>1, <2>12 DEF Finish, Save, Tasks
    <2> QED
      BY <1>1, <2>2, <2>3, <2>4, <2>5, <2>6, <2>7, <2>8, <2>9, <2>11, <2>12
         DEF Asked, CallStep, RunStep, StartFails, EndRun
  <1>2. ASSUME NEW w \in Works, WorkStep(w)
        PROVE  RunsTypeOK'
    <2>1. w[1] \in Runs
      BY WorksAre
    <2> QED
      BY <1>2, <2>1, WorkLeaves DEF Save
  <1>3. ASSUME NEW r \in Runs, NEW i \in DOMAIN Plan[r].targets, Take(r, i)
        PROVE  RunsTypeOK'
    BY <1>3, TakeLeaves
  <1>4. CASE Leased
    BY <1>4, LeasedLeaves DEF callVars, runVars, storeVars, quitVars
  <1>5. CASE Stop \/ StopServices
    BY <1>5 DEF Stop, StopServices, Active, callVars, runVars, storeVars
  <1>6. CASE Restart
    BY <1>6 DEF Restart, Calls, Tasks, Ended
  <1>7. CASE UNCHANGED vars
    BY <1>7 DEF vars, callVars, runVars, storeVars, quitVars
  <1> QED
    BY <1>1, <1>2, <1>3, <1>4, <1>5, <1>6, <1>7, NextIs DEF Worked

(* Everyone at work on a Simulator holds its lease, and only the holder of *)
(* a lease gives it back.                                                  *)
LEMMA LeaseKept ==
    ASSUME WorksTypeOK, HolderOK, UnderLease, [Next]_vars
    PROVE  HolderOK' /\ UnderLease'
  <1> USE DEF HolderOK
  <1>1. ASSUME NEW w \in Works, WorkStep(w)
        PROVE  HolderOK' /\ UnderLease'
    <2>1. w[2] \in Simulators /\ w # None
      BY WorksAre, NoneAssumption
    <2>2. \A v \in Works : v # w => at'[v] = at[v]
      BY <1>1, WorkIsLocal
    <2>3. CASE LeaveLine(w)
      <3>1. at'[w] = "lost"
        BY <2>3 DEF LeaveLine, WorksTypeOK, GaveUp
      <3>2. CASE holder' = holder
        BY <2>2, <3>1, <3>2 DEF UnderLease
      <3>3. CASE holder[w[2]] = w /\ Lease!Release(w[2])
        BY <2>1, <2>2, <3>1, <3>3 DEF UnderLease, Lease!Release
      <3> QED
        BY <2>3, <3>2, <3>3, GivingUpKeepsHolder DEF LeaveLine, GivesUpLease
    <2>4. CASE TakeAgain(w)
      BY <2>2, <2>4 DEF TakeAgain, Lease!Claim, UnderLease, WorksTypeOK
    <2>5. CASE Begin(w) \/ StartStep(w) \/ TurnComes(w) \/ StepDone(w) \/ StepFails(w)
      <3>1. holder' = holder /\ holder[w[2]] = w
        BY <2>5 DEF Begin, StartStep, TurnComes, StepDone, StepFails, HasLease, HasTurn,
                    UnderLease, leaseVars
      <3> QED
        BY <2>2, <3>1 DEF UnderLease
    <2>6. CASE TeardownDone(w) \/ TeardownBreaks(w) \/ Ambiguous(w)
      <3>1. holder[w[2]] = w /\ Lease!Release(w[2])
        BY <2>6 DEF TeardownDone, TeardownBreaks, Ambiguous, BreaksOff, HasLease, Cleaned, UnderLease
      <3>2. at'[w] \in {"noting", "done", "lost"}
        BY <2>6 DEF TeardownDone, TeardownBreaks, Ambiguous, BreaksOff, WorksTypeOK, GaveUp
      <3> QED
        BY <2>1, <2>2, <3>1, <3>2 DEF UnderLease, Lease!Release
    <2>7. CASE Noted(w)
      BY <2>2, <2>7 DEF Noted, UnderLease, leaseVars, WorksTypeOK
    <2> QED
      BY <1>1, <2>3, <2>4, <2>5, <2>6, <2>7 DEF WorkStep
  <1>2. ASSUME NEW r \in Runs, NEW i \in DOMAIN Plan[r].targets, Take(r, i)
        PROVE  HolderOK' /\ UnderLease'
    BY <1>2, TakeLeaves DEF UnderLease, WorksTypeOK
  <1>3. CASE Leased
    <2>1. UNCHANGED at
      BY <1>3, LeasedLeaves DEF workVars
    <2>2. ASSUME NEW u \in Simulators, Grant(u)
          PROVE  HolderOK' /\ UnderLease'
      BY <2>1, <2>2, WorksAre, NoneAssumption DEF Grant, Lease!Grant, UnderLease
    <2>3. ASSUME NEW u \in Visited, GuestClaims(u)
          PROVE  HolderOK' /\ UnderLease'
      BY <2>1, <2>3 DEF GuestClaims, Lease!Claim, UnderLease
    <2>4. ASSUME NEW u \in Visited, GuestReleases(u)
          PROVE  HolderOK' /\ UnderLease'
      BY <2>1, <2>4, WorksAre, NoneAssumption DEF GuestReleases, Lease!Release, UnderLease
    <2> QED
      BY <1>3, <2>2, <2>3, <2>4 DEF Leased
  <1>4. CASE UNCHANGED <<at, holder>>
    BY <1>4 DEF UnderLease
  <1>5. ASSUME NEW r \in Runs, Asked(r)
        PROVE  UNCHANGED <<at, holder>>
    BY <1>5, AskedLeaves
  <1>6. CASE Stop \/ StopServices
    BY <1>4, <1>6, QuitLeaves DEF workVars, leaseVars
  <1>7. CASE Restart
    BY <1>7 DEF Restart, UnderLease
  <1>8. CASE UNCHANGED vars
    BY <1>4, <1>8 DEF vars, workVars, leaseVars
  <1> QED
    BY <1>1, <1>2, <1>3, <1>4, <1>5, <1>6, <1>7, <1>8, NextIs DEF Worked

(* The services go down after stop, in time when its runs are over.        *)
LEMMA QuittingKept ==
    ASSUME Records, Quitting, RunsTypeOK, [Next]_vars
    PROVE  Quitting'
  <1> USE DEF Quitting, RunsStopped, Active
  <1>1. ASSUME NEW r \in Runs, Asked(r)
        PROVE  Quitting'
    <2>1. UNCHANGED <<stopped, late, services, waits>>
      BY <1>1, AskedLeaves
    <2>2. \A q \in waits : task[q] = "none" => task'[q] = "none"
      BY <1>1 DEF Asked, RunRecipe, CallStep, Reject, AskApproval, ApprovalAsked, Claim, Launch,
                  LaunchFails, CancelRun, CancelSaved, RunStep, Start, StartFails, EndRun, EndsRun,
                  Finish, runVars, Records, NeverStarted, RunsTypeOK
    <2> QED
      BY <2>1, <2>2 DEF RunsTypeOK
  <1>2. CASE UNCHANGED <<stopped, late, services, waits, task>>
    BY <1>2
  <1>3. CASE Worked
    <2>1. UNCHANGED <<stopped, late, services, waits, task>>
      BY <1>3, WorkLeaves, TakeLeaves DEF Worked
    <2> QED
      BY <1>2, <2>1
  <1>4. CASE Leased
    BY <1>2, <1>4, LeasedLeaves DEF runVars, quitVars
  <1>5. CASE Stop
    BY <1>5 DEF Stop, runVars
  <1>6. CASE StopServices
    BY <1>6 DEF StopServices, runVars
  <1>7. CASE Restart
    BY <1>7 DEF Restart
  <1>8. CASE UNCHANGED vars
    BY <1>2, <1>8 DEF vars, runVars, quitVars
  <1> QED
    BY <1>1, <1>3, <1>4, <1>5, <1>6, <1>7, <1>8, NextIs

(* A step of the work never forgets what came of a target.                 *)
LEMMA WorkOutcome ==
    ASSUME WorksTypeOK, NEW w \in Works, WorkStep(w)
    PROVE  \/ outcome'[w] \in {outcome[w], "running", "complete", "failed"}
           \/ outcome'[w] = "cancelled" /\ w[1] \in aborted
  <1>1. CASE LeaveLine(w)
    BY <1>1 DEF LeaveLine, WorksTypeOK
  <1>2. CASE TakeAgain(w) \/ StartStep(w) \/ TurnComes(w) \/ TeardownDone(w) \/ Noted(w)
    BY <1>2 DEF TakeAgain, StartStep, TurnComes, TeardownDone, Noted
  <1>3. CASE Begin(w)
    BY <1>3 DEF Begin, WorksTypeOK
  <1>4. CASE StepDone(w) \/ StepFails(w)
    BY <1>4 DEF StepDone, StepFails, Broken, WorksTypeOK
  <1>5. CASE TeardownBreaks(w) \/ Ambiguous(w)
    BY <1>5 DEF TeardownBreaks, Ambiguous, BreaksOff, Broken, WorksTypeOK
  <1> QED
    BY <1>1, <1>2, <1>3, <1>4, <1>5 DEF WorkStep

(* A save that is refused counts.                                          *)
LEMMA NoFaultYet ==
    ASSUME faults \in Nat, faults' = faults \/ SaveFails, faults' = 0
    PROVE  faults = 0 /\ ~SaveFails
  BY DEF SaveFails

LEMMA FaultsStay ==
    ASSUME faults \in Nat, faults' = faults \/ SaveFails
    PROVE  /\ faults # 0 => faults' # 0
           /\ SaveFails => faults' # 0
  BY DEF SaveFails

LEMMA DoingKept ==
    ASSUME RunsTypeOK, WorksTypeOK, Records, Doing, [Next]_vars
    PROVE  Doing'
  <1>1. ASSUME NEW r \in Runs, Asked(r)
        PROVE  Doing'
    <2>1. UNCHANGED at
      BY <1>1, AskedLeaves
    <2>2. CASE UNCHANGED <<task, aborted, outcome>>
      BY <2>1, <2>2 DEF Doing
    <2>3. ASSUME NEW confirmed \in BOOLEAN, RunRecipe(r, confirmed)
          PROVE  Doing'
      BY <2>2, <2>3 DEF RunRecipe, runVars, workVars
    <2>4. CASE Reject(r) \/ AskApproval(r) \/ ApprovalAsked(r) \/ Claim(r) \/ LaunchFails(r)
      BY <2>2, <2>4 DEF Reject, AskApproval, ApprovalAsked, Claim, LaunchFails, runVars, workVars
    <2>5. CASE Launch(r)
      <3>1. \A w \in Works : w[1] = r => at[w] = "todo"
        BY <2>5 DEF Launch, Records, WorksOf
      <3> QED
        BY <2>1, <2>5, <3>1 DEF Launch, Doing, RunsTypeOK, WorksTypeOK
    <2>6. CASE CancelRun(r) \/ CancelSaved(r)
      BY <2>1, <2>6 DEF CancelRun, CancelSaved, Doing, runVars, workVars
    <2>7. CASE Start(r)
      BY <2>1, <2>7, WorksAre DEF Start, Doing, workVars, RunsTypeOK
    <2>9. CASE EndsRun(r) /\ task[r] # "none"
      BY <2>1, <2>9, WorksAre DEF EndsRun, Doing, workVars, RunsTypeOK
    <2>8. CASE Finish(r)
      BY <2>1, <2>8, WorksAre DEF Finish, Doing, RunsTypeOK, WorksTypeOK
    <2> QED
      BY <1>1, <2>3, <2>4, <2>5, <2>6, <2>7, <2>8, <2>9
         DEF Asked, CallStep, RunStep, StartFails, EndRun
  <1>2. ASSUME NEW w \in Works, WorkStep(w)
        PROVE  Doing'
    <2>1. UNCHANGED <<task, aborted>> /\ at[w] \notin {"todo", "done", "dead"}
      BY <1>2, WorkLeaves
    <2>2. \/ outcome'[w] \in {outcome[w], "running", "complete", "failed"}
          \/ outcome'[w] = "cancelled" /\ w[1] \in aborted
      BY <1>2, WorkOutcome
    <2>3. \A v \in Works : v # w => at'[v] = at[v] /\ outcome'[v] = outcome[v]
      BY <1>2, WorkIsLocal
    <2> QED
      BY <2>1, <2>2, <2>3 DEF Doing
  <1>3. ASSUME NEW r \in Runs, NEW i \in DOMAIN Plan[r].targets, Take(r, i)
        PROVE  Doing'
    <2>1. UNCHANGED <<task, aborted, outcome>>
      BY <1>3, TakeLeaves
    <2>2. PICK w \in Works : /\ w[1] = r /\ at' = [at EXCEPT ![w] = "line"]
                             /\ task[r] = "working" \/ \E v \in WorksOf(r) : at[v] # "todo"
      BY <1>3, TakeLeaves
    <2>3. task[r] # "starting"
      BY <2>2 DEF Doing, WorksOf
    <2> QED
      BY <2>1, <2>2, <2>3 DEF Doing, WorksTypeOK
  <1>4. CASE UNCHANGED <<at, task, aborted, outcome>>
    BY <1>4 DEF Doing
  <1>5. CASE Leased
    BY <1>4, <1>5, LeasedLeaves DEF runVars, workVars
  <1>6. CASE Stop \/ StopServices
    BY <1>6 DEF Stop, StopServices, Doing, runVars, workVars
  <1>7. CASE Restart
    BY <1>7, WorksAre DEF Restart, Doing
  <1>8. CASE UNCHANGED vars
    BY <1>4, <1>8 DEF vars, runVars, workVars
  <1> QED
    BY <1>1, <1>2, <1>3, <1>5, <1>6, <1>7, <1>8, NextIs DEF Worked

LEMMA AgainKept ==
    ASSUME WorksTypeOK, Records, Again, [Next]_vars
    PROVE  Again'
  <1>1. ASSUME NEW w \in Works, WorkStep(w)
        PROVE  Again'
    <2>1. \A v \in Works : v # w => at'[v] = at[v] /\ outcome'[v] = outcome[v]
      BY <1>1, WorkIsLocal
    <2>2. \A v \in Works : v # w => (v \in again' <=> v \in again)
      BY <1>1 DEF WorkStep, LeaveLine, TakeAgain, Begin, StartStep, TurnComes, StepDone, StepFails,
                  TeardownDone, TeardownBreaks, Ambiguous, BreaksOff, Noted
    <2>3. /\ at'[w] = "lost" \/ w \in again' => outcome'[w] \in {"failed", "cancelled"}
          /\ w \in again' => at'[w] \notin {"todo", "lost", "done"}
      <3>1. CASE LeaveLine(w)
        BY <3>1 DEF LeaveLine, GaveUp, WorksTypeOK
      <3>2. CASE TakeAgain(w)
        BY <3>2 DEF TakeAgain, Again, WorksTypeOK
      <3>3. CASE Begin(w)
        <4>1. /\ again' = again /\ at'[w] = "lease"
              /\ w \in again => outcome' = outcome
          BY <3>3 DEF Begin, WorksTypeOK
        <4> QED
          BY <4>1 DEF Again
      <3>4. CASE StartStep(w) \/ TurnComes(w)
        BY <3>4 DEF StartStep, TurnComes, Again, WorksTypeOK
      <3>5. CASE StepDone(w) \/ StepFails(w)
        <4>1. /\ again' = again /\ at'[w] = "lease"
              /\ w \in again => outcome'[w] = outcome[w]
          BY <3>5 DEF StepDone, StepFails, Cleaning, Final, Again, WorksTypeOK
        <4> QED
          BY <4>1 DEF Again
      <3>6. CASE TeardownDone(w)
        BY <3>6 DEF TeardownDone, Again, WorksTypeOK
      <3>7. CASE TeardownBreaks(w) \/ Ambiguous(w)
        <4>1. BreaksOff(w)
          BY <3>7 DEF TeardownBreaks, Ambiguous
        <4> QED
          BY <4>1 DEF BreaksOff, Broken, GaveUp, Again, WorksTypeOK
      <3>8. CASE Noted(w)
        BY <3>8 DEF Noted, Again, WorksTypeOK
      <3> QED
        BY <1>1, <3>1, <3>2, <3>3, <3>4, <3>5, <3>6, <3>7, <3>8 DEF WorkStep
    <2> QED
      BY <2>1, <2>2, <2>3 DEF Again
  <1>2. ASSUME NEW r \in Runs, NEW i \in DOMAIN Plan[r].targets, Take(r, i)
        PROVE  Again'
    BY <1>2, TakeLeaves DEF Again, WorksTypeOK
  <1>3. CASE UNCHANGED <<at, again, outcome>>
    BY <1>3 DEF Again
  <1>4. ASSUME NEW r \in Runs, Asked(r)
        PROVE  Again'
    <2>1. UNCHANGED <<at, again>>
      BY <1>4, AskedLeaves
    <2>2. \A w \in Works : outcome'[w] = outcome[w] \/ at[w] \in {"todo", "done"}
      BY <1>4, AskedOutcome
    <2> QED
      BY <2>1, <2>2 DEF Again
  <1>5. CASE Leased
    BY <1>3, <1>5, LeasedLeaves DEF workVars
  <1>6. CASE Stop \/ StopServices
    BY <1>3, <1>6, QuitLeaves DEF workVars
  <1>7. CASE Restart
    BY <1>7 DEF Restart, Again
  <1>8. CASE UNCHANGED vars
    BY <1>3, <1>8 DEF vars, workVars
  <1> QED
    BY <1>1, <1>2, <1>4, <1>5, <1>6, <1>7, <1>8, NextIs DEF Worked

(* A worker leaves a target only after its teardown, or when the second    *)
(* attempt at it was broken off.                                           *)
LEMMA TeardownKept ==
    ASSUME WorksTypeOK, Records, Again, TeardownAlways, [Next]_vars
    PROVE  TeardownAlways'
  <1> USE DEF Cleaning
  <1>1. ASSUME NEW w \in Works, WorkStep(w)
        PROVE  TeardownAlways'
    <2>1. \A v \in Works : v # w =>
             at'[v] = at[v] /\ outcome'[v] = outcome[v] /\ cleanup'[v] = cleanup[v]
      BY <1>1, WorkIsLocal
    <2>2. at'[w] \in {"noting", "done", "dead"} /\ outcome'[w] # "queued" =>
             \/ outcome'[w] \in Final /\ cleanup'[w] \in {"complete", "failed"}
             \/ cleanup'[w] = "abandoned" /\ outcome'[w] \in {"failed", "cancelled"}
      <3>1. CASE LeaveLine(w) \/ TakeAgain(w) \/ Begin(w) \/ StartStep(w) \/ TurnComes(w)
        BY <3>1 DEF LeaveLine, TakeAgain, Begin, StartStep, TurnComes, WorksTypeOK, GaveUp
      <3>2. CASE StepDone(w) \/ StepFails(w)
        BY <3>2 DEF StepDone, StepFails, WorksTypeOK
      <3>3. CASE TeardownDone(w)
        BY <3>3 DEF TeardownDone, Cleaned, CleanupOf, WorksTypeOK
      <3>4. CASE TeardownBreaks(w) \/ Ambiguous(w)
        <4>1. BreaksOff(w)
          BY <3>4 DEF TeardownBreaks, Ambiguous
        <4> QED
          BY <4>1 DEF BreaksOff, Again, WorksTypeOK, GaveUp
      <3>5. CASE Noted(w)
        BY <3>5 DEF Noted, TeardownAlways, WorksTypeOK
      <3> QED
        BY <1>1, <3>1, <3>2, <3>3, <3>4, <3>5 DEF WorkStep
    <2> QED
      BY <2>1, <2>2 DEF TeardownAlways
  <1>2. ASSUME NEW r \in Runs, NEW i \in DOMAIN Plan[r].targets, Take(r, i)
        PROVE  TeardownAlways'
    BY <1>2, TakeLeaves DEF TeardownAlways, WorksTypeOK
  <1>3. CASE UNCHANGED <<at, outcome, cleanup>>
    BY <1>3 DEF TeardownAlways
  <1>4. ASSUME NEW r \in Runs, Asked(r)
        PROVE  TeardownAlways'
    <2>1. UNCHANGED at
      BY <1>4, AskedLeaves
    <2>2. CASE Launch(r)
      <3>1. \A w \in Works : w[1] = r => at[w] = "todo"
        BY <2>2 DEF Launch, Records, WorksOf
      <3> QED
        BY <2>1, <2>2, <3>1 DEF Launch, TeardownAlways, WorksTypeOK
    <2>3. CASE Finish(r)
      BY <2>1, <2>3 DEF Finish, TeardownAlways, WorksTypeOK
    <2>4. ASSUME NEW confirmed \in BOOLEAN, RunRecipe(r, confirmed)
          PROVE  TeardownAlways'
      BY <1>3, <2>4 DEF RunRecipe, workVars
    <2>5. CASE Reject(r) \/ AskApproval(r) \/ ApprovalAsked(r) \/ Claim(r) \/ LaunchFails(r)
      BY <1>3, <2>5 DEF Reject, AskApproval, ApprovalAsked, Claim, LaunchFails, workVars
    <2>6. CASE CancelRun(r) \/ CancelSaved(r) \/ Start(r) \/ EndsRun(r)
      BY <1>3, <2>6 DEF CancelRun, CancelSaved, Start, EndsRun, workVars
    <2> QED
      BY <1>4, <2>2, <2>3, <2>4, <2>5, <2>6 DEF Asked, CallStep, RunStep, StartFails, EndRun
  <1>5. CASE Leased
    BY <1>3, <1>5, LeasedLeaves DEF workVars
  <1>6. CASE Stop \/ StopServices
    BY <1>3, <1>6, QuitLeaves DEF workVars
  <1>7. CASE Restart
    BY <1>7 DEF Restart, TeardownAlways
  <1>8. CASE UNCHANGED vars
    BY <1>3, <1>8 DEF vars, workVars
  <1> QED
    BY <1>1, <1>2, <1>4, <1>5, <1>6, <1>7, <1>8, NextIs DEF Worked

(* What Undisturbed says of the targets alone is kept when they stay as    *)
(* they are and no more writes are taken back.                             *)
LEMMA OverKept ==
    ASSUME faults \in Nat, faults' = faults \/ SaveFails, at' = at, NEW r \in Runs
    PROVE  /\ Over(r) => Over(r)'
           /\ Untouched(r)' = Untouched(r) /\ AllDone(r)' = AllDone(r)
           /\ WorkerDied(r)' = WorkerDied(r)
  <1>1. AllDone(r) => AllDone(r)'
    BY DEF AllDone, WorksOf
  <1>2. Untouched(r)' = Untouched(r) /\ AllDone(r)' = AllDone(r) /\ WorkerDied(r)' = WorkerDied(r)
    BY DEF Untouched, AllDone, WorkerDied, WorksOf
  <1> QED
    BY <1>1, <1>2, FaultsStay DEF Over

(* A task ends when all its targets are done, and a run keeps its claims   *)
(* from Claim to Finish, but for refused writes.                           *)
LEMMA UndisturbedKept ==
    ASSUME RunsTypeOK, WorksTypeOK, faults \in Nat, Records, Doing, Undisturbed, [Next]_vars
    PROVE  Undisturbed'
  <1>0. /\ faults # 0 => faults' # 0
        /\ SaveFails => faults' # 0
        /\ faults' = faults \/ SaveFails
    BY FaultsOnly, FaultsStay
  <1>a. None \notin Runs
    BY RecipesAssumption
  <1>b. \A u \in Simulators : claimed[u] # None => claimed[u] \in Runs
    BY DEF RunsTypeOK
  <1>1. ASSUME NEW r \in Runs, Asked(r)
        PROVE  Undisturbed'
    <2>1. UNCHANGED <<at, waits>>
      BY <1>1, AskedLeaves
    <2>2. \A q \in Runs : /\ Over(q) => Over(q)'
                          /\ Untouched(q)' = Untouched(q) /\ AllDone(q)' = AllDone(q)
                          /\ WorkerDied(q)' = WorkerDied(q)
      BY <1>0, <2>1, OverKept
    <2>3. \A w \in Works : at'[w] = "dead" => faults' # 0
      BY <1>0, <2>1 DEF Undisturbed
    <2>4. \A q \in Runs : NeverStarted(q) /\ task'[q] = "none" => NeverStarted(q)'
      BY <1>1 DEF Asked, RunRecipe, CallStep, Reject, AskApproval, ApprovalAsked, Claim, Launch,
                  LaunchFails, CancelRun, CancelSaved, RunStep, Start, StartFails, EndRun, EndsRun,
                  Finish, Save, storeVars, Records, NeverStarted, RunsTypeOK
    <2>5. CASE /\ task' = task /\ claimed' = claimed
               /\ \A q \in Runs : call'[q] = "saving" <=> call[q] = "saving"
      BY <1>0, <1>b, <2>1, <2>2, <2>3, <2>4, <2>5 DEF Undisturbed
    <2>6. ASSUME NEW confirmed \in BOOLEAN, RunRecipe(r, confirmed)
          PROVE  Undisturbed'
      BY <2>5, <2>6 DEF RunRecipe, runVars, RunsTypeOK
    <2>7. CASE Reject(r) \/ AskApproval(r) \/ ApprovalAsked(r)
      BY <2>5, <2>7 DEF Reject, AskApproval, ApprovalAsked, runVars, RunsTypeOK
    <2>8. CASE CancelRun(r) \/ CancelSaved(r)
      BY <2>5, <2>8 DEF CancelRun, CancelSaved, callVars, runVars
    <2>9. CASE Claim(r)
      <3>1. /\ task' = task /\ call' = [call EXCEPT ![r] = "saving"]
            /\ \A u \in Simulators : claimed'[u] = IF u \in Targets(r) THEN r ELSE claimed[u]
            /\ \A u \in Targets(r) : claimed[u] = None
        BY <2>9 DEF Claim, Unclaimed
      <3>2. \A q \in Runs \ {r} : \A u \in Targets(q) : claimed[u] = q => claimed'[u] = q
        BY <1>a, <3>1, WorksAre
      <3>3. \A u \in Targets(r) : claimed'[u] = r
        BY <3>1, WorksAre
      <3>4. \A u \in Simulators : claimed'[u] = r \/ claimed'[u] = claimed[u]
        BY <3>1
      <3>5. call'[r] = "saving" /\ \A q \in Runs \ {r} : call'[q] = call[q]
        BY <3>1 DEF RunsTypeOK
      <3> QED
        BY <1>0, <1>b, <2>1, <2>2, <2>3, <2>4, <3>1, <3>2, <3>3, <3>4, <3>5 DEF Undisturbed
    <2>10. CASE Launch(r)
      <3>1. /\ claimed' = claimed /\ call[r] = "saving"
            /\ task'[r] = "starting" /\ \A q \in Runs \ {r} : task'[q] = task[q] /\ call'[q] = call[q]
        BY <2>10 DEF Launch, RunsTypeOK
      <3> QED
        BY <1>0, <1>b, <2>1, <2>2, <2>3, <2>4, <3>1 DEF Undisturbed
    <2>11. CASE LaunchFails(r)
      <3>1. /\ claimed' = claimed /\ task' = task /\ call[r] = "saving" /\ faults' # 0
            /\ call'[r] = "none" /\ \A q \in Runs \ {r} : call'[q] = call[q]
        BY <1>0, <2>11 DEF LaunchFails, runVars, RunsTypeOK
      <3>2. NeverStarted(r) /\ task[r] = "none"
        BY <3>1 DEF Records
      <3> QED
        BY <1>b, <2>1, <2>2, <2>3, <2>4, <3>1, <3>2 DEF Undisturbed
    <2>12. CASE Start(r)
      <3>1. /\ claimed' = claimed /\ call' = call /\ task[r] = "starting"
            /\ task'[r] = "working" /\ \A q \in Runs \ {r} : task'[q] = task[q]
        BY <2>12 DEF Start, callVars, RunsTypeOK
      <3> QED
        BY <1>0, <1>b, <2>1, <2>2, <2>3, <2>4, <3>1 DEF Undisturbed
    <2>13. CASE StartFails(r) \/ EndRun(r)
      <3>1. /\ claimed' = claimed /\ call' = call /\ task[r] # "none"
            /\ task'[r] = "ending" /\ \A q \in Runs \ {r} : task'[q] = task[q]
        BY <2>13 DEF StartFails, EndRun, EndsRun, callVars, RunsTypeOK
      <3>2. Over(r)'
        <4>1. CASE StartFails(r)
          <5>1. Untouched(r) /\ faults' # 0
            BY <1>0, <4>1 DEF StartFails, Doing, Untouched, WorksOf
          <5> QED
            BY <2>2, <5>1 DEF Over
        <4>2. CASE EndRun(r)
          <5>1. AllDone(r) \/ (faults # 0 /\ WorkerDied(r))
            BY <4>2 DEF EndRun, AllDone, WorkerDied, Undisturbed, WorksOf
          <5> QED
            BY <2>2, <5>1 DEF Over
        <4> QED
          BY <2>13, <4>1, <4>2
      <3> QED
        BY <1>0, <1>b, <2>1, <2>2, <2>3, <2>4, <3>1, <3>2 DEF Undisturbed
    <2>14. CASE Finish(r)
      <3>1. /\ call' = call /\ task[r] = "ending"
            /\ task'[r] = "none" /\ \A q \in Runs \ {r} : task'[q] = task[q]
            /\ \A u \in Simulators : claimed'[u] = IF claimed[u] = r THEN None ELSE claimed[u]
        BY <2>14 DEF Finish, RunsTypeOK
      <3>2. call[r] = "none"
        BY <3>1 DEF Records
      <3>3. Over(r)' /\ (Untouched(r) \/ AllDone(r) \/ WorkerDied(r))
        BY <2>2, <3>1 DEF Undisturbed, Over
      <3>4. \A q \in Runs : q # r /\ (call'[q] = "saving" \/ task'[q] # "none") =>
               \A u \in Targets(q) : claimed'[u] = q
        BY <3>1, WorksAre DEF Undisturbed
      <3>5. \A u \in Simulators : claimed'[u] # None => claimed'[u] = claimed[u] /\ claimed[u] # r
        BY <3>1
      <3> QED
        BY <1>0, <1>b, <2>1, <2>2, <2>3, <2>4, <3>1, <3>2, <3>3, <3>4, <3>5 DEF Undisturbed
    <2> QED
      BY <1>1, <2>6, <2>7, <2>8, <2>9, <2>10, <2>11, <2>12, <2>13, <2>14
         DEF Asked, CallStep, RunStep
  <1>2. ASSUME NEW w \in Works, WorkStep(w)
        PROVE  Undisturbed'
    <2>1. UNCHANGED <<call, claimed, task, waits>> /\ at[w] \notin {"todo", "done", "dead"}
      BY <1>2, WorkLeaves
    <2>2. \A v \in Works : v # w => at'[v] = at[v]
      BY <1>2, WorkIsLocal
    <2>3. w[1] \in Runs /\ w \in WorksOf(w[1])
      BY WorksAre DEF WorksOf
    <2>4. at'[w] = "dead" => faults' # 0
      BY <1>0, <1>2 DEF WorkStep, LeaveLine, TakeAgain, Begin, StartStep, TurnComes, StepDone,
                        StepFails, TeardownDone, TeardownBreaks, Ambiguous, BreaksOff, Noted,
                        WorksTypeOK, GaveUp
    <2>5. \A q \in Runs : WorkerDied(q) => WorkerDied(q)'
      BY <2>1, <2>2 DEF WorkerDied, WorksOf
    <2>6. ~Untouched(w[1]) /\ ~AllDone(w[1])
      BY <2>1, <2>3 DEF Untouched, AllDone
    <2>7. \A q \in Runs : q # w[1] => /\ Untouched(q) => Untouched(q)'
                                      /\ AllDone(q) => AllDone(q)'
      BY <2>2 DEF Untouched, AllDone, WorksOf
    <2>8. \A q \in Runs : Over(q) => Over(q)'
      BY <1>0, <2>3, <2>5, <2>6, <2>7 DEF Over
    <2>9. \A q \in Runs : NeverStarted(q) => NeverStarted(q)'
      <3>1. stored' = stored \/ Save(w[1])
        BY <1>2, WorkLeaves
      <3>2. ~NeverStarted(w[1])
        BY <2>1, <2>3 DEF Records
      <3> QED
        BY <2>3, <3>1, <3>2 DEF Save, NeverStarted, RunsTypeOK
    <2>10. \A v \in Works : at'[v] = "dead" => faults' # 0
      BY <1>0, <2>2, <2>4 DEF Undisturbed
    <2> QED
      BY <1>0, <1>b, <2>1, <2>5, <2>6, <2>7, <2>8, <2>9, <2>10 DEF Undisturbed
  <1>3. ASSUME NEW r \in Runs, NEW i \in DOMAIN Plan[r].targets, Take(r, i)
        PROVE  Undisturbed'
    <2>1. UNCHANGED <<faults, call, claimed, task, waits, stored>>
      BY <1>3, TakeLeaves
    <2>2. PICK w \in Works : /\ w[1] = r
                             /\ at[w] = "todo" /\ at' = [at EXCEPT ![w] = "line"]
                             /\ task[r] = "working" \/ \E v \in WorksOf(r) : at[v] # "todo"
      BY <1>3, TakeLeaves
    <2>3. w \in WorksOf(r)
      BY <2>2 DEF WorksOf
    <2>4. \A v \in Works : v # w => at'[v] = at[v]
      BY <2>2 DEF WorksTypeOK
    <2>5. at'[w] # "dead" /\ ~AllDone(r)
      BY <2>2, <2>3 DEF AllDone, WorksTypeOK
    <2>6. \A q \in Runs : WorkerDied(q) => WorkerDied(q)'
      BY <2>2, <2>4 DEF WorkerDied, WorksOf
    <2>7. \A q \in Runs : q # r => /\ Untouched(q) => Untouched(q)'
                                   /\ AllDone(q) => AllDone(q)'
      BY <2>2, <2>4 DEF Untouched, AllDone, WorksOf
    <2>8. task[r] = "working" \/ ~Untouched(r)
      BY <2>2 DEF Untouched
    <2>9. \A v \in Works : at'[v] = "dead" => faults' # 0
      BY <2>1, <2>4, <2>5 DEF Undisturbed
    <2> QED
      BY <2>1, <2>5, <2>6, <2>7, <2>8, <2>9 DEF Undisturbed, Over, NeverStarted
  <1>4. CASE UNCHANGED <<faults, call, claimed, task, waits, at, stored>>
    BY <1>4 DEF Undisturbed, Over, Untouched, AllDone, WorkerDied, NeverStarted
  <1>5. CASE Leased
    BY <1>4, <1>5, LeasedLeaves DEF callVars, runVars, storeVars, workVars, quitVars, boundVars
  <1>6. CASE Stop
    <2>1. UNCHANGED <<faults, call, claimed, task, at, stored>> /\ waits' = Active
      BY <1>6 DEF Stop, callVars, storeVars, workVars, boundVars
    <2> QED
      BY <2>1 DEF Active, Undisturbed, Over, Untouched, AllDone, WorkerDied, NeverStarted
  <1>7. CASE StopServices
    BY <1>4, <1>7 DEF StopServices, callVars, runVars, storeVars, workVars, boundVars
  <1>8. CASE Restart
    BY <1>8, WorksAre DEF Restart, Undisturbed, Untouched, WorksOf
  <1>9. CASE UNCHANGED vars
    BY <1>4, <1>9 DEF vars, callVars, runVars, storeVars, workVars, quitVars, boundVars
  <1> QED
    BY <1>1, <1>2, <1>3, <1>5, <1>6, <1>7, <1>8, <1>9, NextIs DEF Worked

(* A run found complete is over on all its targets, and nothing changes    *)
(* what it found before its last save.                                     *)
LEMMA CompleteKept ==
    ASSUME RunsTypeOK, WorksTypeOK, faults \in Nat, TeardownAlways, Doing, Undisturbed,
           CompleteIsComplete, [Next]_vars
    PROVE  CompleteIsComplete'
  <1> SUFFICES ASSUME faults' = 0 PROVE CompleteIsComplete'
    BY DEF CompleteIsComplete
  <1>1. ASSUME NEW r \in Runs, Asked(r)
        PROVE  CompleteIsComplete'
    <2>1. \A q \in Runs : \A w \in WorksOf(q) : w \in Works /\ w[1] = q
      BY DEF WorksOf
    <2>2. CASE UNCHANGED <<faults, run, task, outcome, cleanup>>
      BY <2>2 DEF CompleteIsComplete, WorksOf
    <2>3. ASSUME NEW confirmed \in BOOLEAN, RunRecipe(r, confirmed)
          PROVE  CompleteIsComplete'
      BY <2>2, <2>3 DEF RunRecipe, runVars, workVars, boundVars
    <2>4. CASE Reject(r) \/ ApprovalAsked(r) \/ CancelSaved(r)
      BY <2>2, <2>4, NoFaultYet
         DEF Reject, ApprovalAsked, CancelSaved, runVars, workVars, boundVars
    <2>5. CASE AskApproval(r) \/ Claim(r) \/ CancelRun(r)
      <3>1. /\ UNCHANGED <<faults, task, outcome, cleanup>>
            /\ \A q \in Runs : run'[q] = "complete" => run[q] = "complete"
        BY <2>5 DEF AskApproval, Claim, CancelRun, workVars, boundVars, RunsTypeOK
      <3> QED
        BY <3>1 DEF CompleteIsComplete, WorksOf
    <2>6. CASE Launch(r)
      <3>1. /\ UNCHANGED <<faults, cleanup>>
            /\ task'[r] = "starting"
            /\ \A q \in Runs \ {r} : task'[q] = task[q] /\ run'[q] = run[q]
            /\ \A w \in Works : w[1] # r => outcome'[w] = outcome[w]
        BY <2>6 DEF Launch, boundVars, RunsTypeOK
      <3> QED
        BY <2>1, <3>1 DEF CompleteIsComplete, WorksOf
    <2>7. CASE Start(r)
      <3>1. /\ UNCHANGED <<faults, run, outcome, cleanup>>
            /\ task'[r] = "working" /\ \A q \in Runs \ {r} : task'[q] = task[q]
        BY <2>7 DEF Start, workVars, boundVars, RunsTypeOK
      <3> QED
        BY <3>1 DEF CompleteIsComplete, WorksOf
    <2>8. CASE EndRun(r)
      <3>1. /\ UNCHANGED <<faults, outcome, cleanup>> /\ task[r] = "working"
            /\ run'[r] = FinalStatus(r)
            /\ \A q \in Runs \ {r} : task'[q] = task[q] /\ run'[q] = run[q]
        BY <2>8 DEF EndRun, EndsRun, workVars, boundVars, RunsTypeOK
      <3>2. \A w \in WorksOf(r) : at[w] = "done"
        BY <2>1, <2>8, <3>1 DEF EndRun, Undisturbed
      <3>3. \A w \in WorksOf(r) : /\ outcome[w] \in Final
                                  /\ \/ cleanup[w] \in {"complete", "failed"}
                                     \/ outcome[w] \in {"failed", "cancelled"}
                                  /\ outcome[w] = "cancelled" => r \in aborted
        BY <2>1, <3>1, <3>2 DEF Doing, TeardownAlways, Cleaning, Final
      <3>4. FinalStatus(r) = "complete" =>
               \A w \in WorksOf(r) : outcome[w] = "complete" /\ cleanup[w] = "complete"
        BY <3>3 DEF FinalStatus, Final
      <3> QED
        BY <3>1, <3>4 DEF CompleteIsComplete, WorksOf
    <2>9. CASE Finish(r)
      <3>1. /\ UNCHANGED <<faults, run>> /\ task'[r] = "none"
            /\ \A q \in Runs \ {r} : task'[q] = task[q]
            /\ \A w \in Works : w[1] # r => outcome'[w] = outcome[w] /\ cleanup'[w] = cleanup[w]
        BY <2>9, NoFaultYet DEF Finish, boundVars, RunsTypeOK
      <3> QED
        BY <2>1, <3>1 DEF CompleteIsComplete, WorksOf
    <2>10. ~LaunchFails(r) /\ ~StartFails(r)
      BY NoFaultYet DEF LaunchFails, StartFails
    <2> QED
      BY <1>1, <2>3, <2>4, <2>5, <2>6, <2>7, <2>8, <2>9, <2>10
         DEF Asked, CallStep, RunStep
  <1>2. ASSUME NEW w \in Works, WorkStep(w)
        PROVE  CompleteIsComplete'
    <2>1. UNCHANGED <<run, task>> /\ at[w] # "done"
      BY <1>2, WorkLeaves
    <2>2. faults = 0
      BY <1>2, WorkLeaves, NoFaultYet
    <2>3. \A v \in Works : v # w => outcome'[v] = outcome[v] /\ cleanup'[v] = cleanup[v]
      BY <1>2, WorkIsLocal
    <2>4. w[1] \in Runs /\ w \in WorksOf(w[1])
      BY WorksAre DEF WorksOf
    <2>5. task[w[1]] # "ending"
      BY <2>1, <2>2, <2>4 DEF Undisturbed, Over, AllDone
    <2> QED
      BY <2>1, <2>2, <2>3, <2>5 DEF CompleteIsComplete, WorksOf
  <1>3. CASE UNCHANGED <<faults, run, task, outcome, cleanup>>
    BY <1>3 DEF CompleteIsComplete, WorksOf
  <1>4. ASSUME NEW r \in Runs, NEW i \in DOMAIN Plan[r].targets, Take(r, i)
        PROVE  CompleteIsComplete'
    BY <1>3, <1>4, TakeLeaves
  <1>5. CASE Leased
    BY <1>3, <1>5, LeasedLeaves DEF runVars, workVars, boundVars
  <1>6. CASE Stop \/ StopServices
    BY <1>3, <1>6, QuitLeaves DEF workVars, boundVars
  <1>7. CASE Restart
    BY <1>7 DEF Restart, CompleteIsComplete
  <1>8. CASE UNCHANGED vars
    BY <1>3, <1>8 DEF vars, runVars, workVars, boundVars
  <1> QED
    BY <1>1, <1>2, <1>4, <1>5, <1>6, <1>7, <1>8, NextIs DEF Worked

(* The Slimming queue is a queue. *)
LEMMA TailIs ==
    ASSUME NEW S, NEW q \in Seq(S), NEW i \in 1..Len(q)
    PROVE  /\ Tail(q) \in Seq(S) /\ Len(Tail(q)) = Len(q) - 1 /\ Head(q) = q[1]
           /\ \A j \in 1..(Len(q) - 1) : Tail(q)[j] = q[j + 1]
  OBVIOUS

LEMMA AppendIs ==
    ASSUME NEW S, NEW q \in Seq(S), NEW e \in S
    PROVE  /\ Append(q, e) \in Seq(S) /\ Len(Append(q, e)) = Len(q) + 1
           /\ \A j \in 1..Len(q) : Append(q, e)[j] = q[j]
           /\ Append(q, e)[Len(q) + 1] = e
  OBVIOUS

(* A step that leaves alone who waits and whose mutation runs.             *)
LEMMA ServedFrame ==
    ASSUME Served, turns' = turns,
           \A w \in Works : /\ at'[w] = "turn" <=> at[w] = "turn"
                            /\ InSlimming(w)' <=> InSlimming(w)
                            /\ at[w] = "turn" =>
                                  Script(w)'[step'[w] + 1] = Script(w)[step[w] + 1]
    PROVE  Served'
  BY DEF Served

(* Whoever neither waits nor runs a step before or after it is of no       *)
(* matter, and neither is the start of another step.                       *)
LEMMA ServedAside ==
    ASSUME Served, turns' = turns,
           \A w \in Works :
              \/ at'[w] = at[w] /\ step'[w] = step[w] /\ outcome'[w] = outcome[w]
              \/ at[w] \notin {"turn", "job"} /\ at'[w] \notin {"turn", "job"}
    PROVE  Served'
  BY ServedFrame DEF InSlimming, Script, Cleaning

(* The one whose turn it is leaves the queue. *)
LEMMA ServedLeaves ==
    ASSUME WorksTypeOK, Served, NEW w \in Works, at'[w] = "lease",
           \/ InSlimming(w)
           \/ HasTurn(w),
           turns' = Tail(turns),
           \A v \in Works : v # w =>
              at'[v] = at[v] /\ step'[v] = step[v] /\ outcome'[v] = outcome[v]
    PROVE  Served' /\ turns' \in Seq(Works)
  <1>1. turns \in Seq(Works)
    BY DEF WorksTypeOK
  <1>2. PICK k \in 1..Len(turns) : turns[k] = w
    BY DEF Served, HasTurn
  <1>3. /\ turns' \in Seq(Works) /\ Len(turns') = Len(turns) - 1 /\ Head(turns) = turns[1]
        /\ \A j \in 1..(Len(turns) - 1) : turns'[j] = turns[j + 1]
    BY <1>1, <1>2, TailIs
  <1>4. turns[1] = w
    BY <1>3 DEF Served, HasTurn
  <1>5. Len(turns) \in Nat /\ 1 \in 1..Len(turns)
    BY <1>1, <1>2
  <1>6. \A i \in 1..Len(turns) : turns[i] = w => i = 1
    BY <1>4, <1>5 DEF Served
  <1>7. \A v \in Works : v # w => /\ at'[v] = at[v]
                                  /\ InSlimming(v)' <=> InSlimming(v)
                                  /\ Script(v)'[step'[v] + 1] = Script(v)[step[v] + 1]
    BY DEF InSlimming, Script, Cleaning
  <1>8. \A v \in Works : ~InSlimming(v)'
    BY <1>4, <1>7 DEF Served, InSlimming
  <1>9. ASSUME NEW v \in Works
        PROVE  at'[v] = "turn" <=> \E i \in 1..Len(turns') : turns'[i] = v
    <2>1. CASE v = w
      <3>1. \A i \in 1..Len(turns') : i + 1 \in 1..Len(turns) /\ i + 1 # 1 /\ turns'[i] = turns[i + 1]
        BY <1>3, <1>5
      <3> QED
        BY <1>6, <2>1, <3>1
    <2>2. CASE v # w
      <3>1. at'[v] = "turn" <=> \E i \in 1..Len(turns) : turns[i] = v
        BY <1>7, <1>8, <2>2 DEF Served
      <3>2. \A i \in 1..Len(turns) : turns[i] = v =>
               i - 1 \in 1..Len(turns') /\ turns'[i - 1] = turns[i]
        BY <1>3, <1>4, <1>5, <2>2
      <3>3. \A i \in 1..Len(turns') : i + 1 \in 1..Len(turns) /\ turns'[i] = turns[i + 1]
        BY <1>3, <1>5
      <3>4. (\E i \in 1..Len(turns) : turns[i] = v) => \E i \in 1..Len(turns') : turns'[i] = v
        BY ONLY <3>2
      <3>5. (\E i \in 1..Len(turns') : turns'[i] = v) => \E i \in 1..Len(turns) : turns[i] = v
        BY ONLY <3>3
      <3> QED
        BY ONLY <3>1, <3>4, <3>5
    <2> QED
      BY <2>1, <2>2
  <1>10. \A i, j \in 1..Len(turns') : turns'[i] = turns'[j] => i = j
    <2>1. \A i \in 1..Len(turns') : i + 1 \in 1..Len(turns) /\ turns'[i] = turns[i + 1]
      BY <1>3, <1>5
    <2> SUFFICES ASSUME NEW i \in 1..Len(turns'), NEW j \in 1..Len(turns'), turns'[i] = turns'[j]
                 PROVE  i = j
      OBVIOUS
    <2>2. i + 1 = j + 1
      BY <2>1 DEF Served
    <2> QED
      BY <2>2, <1>3, <1>5
  <1>11. \A v \in Works : at'[v] = "turn" => Script(v)'[step'[v] + 1] = "slimming"
    BY <1>7 DEF Served
  <1> QED
    BY <1>3, <1>8, <1>9, <1>10, <1>11 DEF Served

LEMMA ServedKept ==
    ASSUME WorksTypeOK, Records, Served, [Next]_vars
    PROVE  Served' /\ turns' \in Seq(Works)
  <1>1. turns \in Seq(Works)
    BY DEF WorksTypeOK
  <1>2. ASSUME NEW w \in Works, WorkStep(w)
        PROVE  Served' /\ turns' \in Seq(Works)
    <2>1. \A v \in Works : v # w =>
             at'[v] = at[v] /\ step'[v] = step[v] /\ outcome'[v] = outcome[v]
      BY <1>2, WorkIsLocal
    <2>2. CASE LeaveLine(w) \/ TakeAgain(w) \/ Begin(w) \/ TeardownDone(w) \/ TeardownBreaks(w)
               \/ Ambiguous(w) \/ Noted(w)
      <3>1. /\ turns' = turns
            /\ at[w] \notin {"turn", "job"} /\ at'[w] \notin {"turn", "job"}
        BY <2>2 DEF LeaveLine, TakeAgain, Begin, TeardownDone, TeardownBreaks, Ambiguous, BreaksOff,
                    Noted, HasLease, Cleaned, GaveUp, WorksTypeOK
      <3> QED
        BY <1>1, <2>1, <3>1, ServedAside
    <2>3. CASE StartStep(w)
      <3>1. at[w] = "lease" /\ UNCHANGED <<step, outcome>>
        BY <2>3 DEF StartStep
      <3>2. \A v \in Works : Script(v)' = Script(v)
        BY <3>1 DEF Script, Cleaning
      <3>3. CASE /\ Script(w)[step[w] + 1] # "slimming"
                 /\ at' = [at EXCEPT ![w] = "job"] /\ turns' = turns
        <4>1. at'[w] = "job" /\ ~InSlimming(w) /\ ~InSlimming(w)'
          BY <3>1, <3>2, <3>3 DEF InSlimming, WorksTypeOK
        <4>2. \A v \in Works : /\ at'[v] = "turn" <=> at[v] = "turn"
                               /\ InSlimming(v)' <=> InSlimming(v)
                               /\ Script(v)'[step'[v] + 1] = Script(v)[step[v] + 1]
          BY <2>1, <3>1, <3>2, <4>1 DEF InSlimming
        <4> QED
          BY <1>1, <3>3, <4>2, ServedFrame
      <3>4. CASE /\ Script(w)[step[w] + 1] = "slimming"
                 /\ at' = [at EXCEPT ![w] = "turn"] /\ turns' = Append(turns, w)
        <4>1. at'[w] = "turn" /\ ~InSlimming(w) /\ ~InSlimming(w)'
          BY <3>1, <3>4 DEF InSlimming, WorksTypeOK
        <4>2. \A v \in Works : InSlimming(v)' <=> InSlimming(v)
          BY <2>1, <3>1, <3>2, <4>1 DEF InSlimming
        <4>3. /\ turns' \in Seq(Works) /\ Len(turns') = Len(turns) + 1 /\ Len(turns) \in Nat
              /\ \A j \in 1..Len(turns) : turns'[j] = turns[j]
              /\ turns'[Len(turns) + 1] = w
          BY <1>1, <3>4, AppendIs
        <4>4. \A i \in 1..Len(turns) : turns[i] # w
          BY <3>1, <4>1 DEF Served
        <4>5. \A i \in 1..Len(turns') : i \in 1..Len(turns) \/ i = Len(turns) + 1
          BY <4>3
        <4>6. 1..Len(turns) \subseteq 1..Len(turns') /\ Len(turns) + 1 \in 1..Len(turns')
          BY <4>3
        <4>7. ASSUME NEW v \in Works
              PROVE  at'[v] = "turn" \/ InSlimming(v)' <=> \E i \in 1..Len(turns') : turns'[i] = v
          <5>1. CASE v = w
            BY <4>1, <4>3, <4>6, <5>1
          <5>2. CASE v # w
            <6>1. at[v] = "turn" \/ InSlimming(v) <=> \E i \in 1..Len(turns) : turns[i] = v
              BY DEF Served
            <6>2. (\E i \in 1..Len(turns) : turns[i] = v) <=> \E i \in 1..Len(turns') : turns'[i] = v
              BY ONLY <4>3, <4>5, <4>6, <5>2
            <6> QED
              BY <2>1, <4>2, <5>2, <6>1, <6>2
          <5> QED
            BY <5>1, <5>2
        <4>8. \A i, j \in 1..Len(turns') : turns'[i] = turns'[j] => i = j
          BY <4>3, <4>4, <4>5 DEF Served
        <4>9. \A v \in Works : InSlimming(v)' => turns'[1] = v
          <5> SUFFICES ASSUME NEW v \in Works, InSlimming(v) PROVE turns'[1] = v
            BY <4>2
          <5>1. turns[1] = v /\ \E i \in 1..Len(turns) : turns[i] = v
            BY DEF Served
          <5>2. 1 \in 1..Len(turns)
            BY <4>3, <5>1
          <5> QED
            BY <4>3, <5>1, <5>2
        <4>10. \A v \in Works : at'[v] = "turn" => Script(v)'[step'[v] + 1] = "slimming"
          BY <2>1, <3>1, <3>2, <3>4 DEF Served
        <4> QED
          BY <4>3, <4>7, <4>8, <4>9, <4>10 DEF Served
      <3> QED
        BY <2>3, <3>3, <3>4 DEF StartStep
    <2>4. CASE TurnComes(w)
      <3>1. /\ UNCHANGED <<step, outcome, turns>>
            /\ at[w] = "turn" /\ Head(turns) = w /\ at' = [at EXCEPT ![w] = "job"]
        BY <2>4 DEF TurnComes, HasTurn
      <3>2. \A v \in Works : Script(v)' = Script(v)
        BY <3>1 DEF Script, Cleaning
      <3>3. at'[w] = "job" /\ InSlimming(w)'
        BY <3>1, <3>2 DEF InSlimming, WorksTypeOK, Served
      <3>4. \A v \in Works : v # w => (InSlimming(v)' <=> InSlimming(v))
        BY <2>1, <3>1, <3>2 DEF InSlimming
      <3>5. PICK k \in 1..Len(turns) : turns[k] = w
        BY <3>1 DEF Served
      <3>6. turns[1] = w
        BY <1>1, <3>1, <3>5, TailIs
      <3>7. \A v \in Works : at'[v] = "turn" \/ InSlimming(v)' <=> at[v] = "turn" \/ InSlimming(v)
        BY <2>1, <3>1, <3>3, <3>4
      <3>8. \A v \in Works : InSlimming(v)' => turns'[1] = v
        BY <3>1, <3>4, <3>6 DEF Served
      <3>9. \A v \in Works : at'[v] = "turn" => Script(v)'[step'[v] + 1] = "slimming"
        BY <2>1, <3>1, <3>2, <3>3 DEF Served
      <3> QED
        BY <1>1, <3>1, <3>7, <3>8, <3>9 DEF Served
    <2>5. CASE StepDone(w) \/ StepFails(w)
      <3>1. /\ at'[w] = "lease" /\ turns' = TurnsAfter(w)
            /\ at[w] = "turn" => HasTurn(w)
        BY <2>5 DEF StepDone, StepFails, HasTurn, WorksTypeOK
      <3>2. CASE InSlimming(w) \/ at[w] = "turn"
        BY <2>1, <3>1, <3>2, ServedLeaves DEF TurnsAfter
      <3>3. CASE ~InSlimming(w) /\ at[w] # "turn"
        <4>1. turns' = turns /\ ~InSlimming(w)'
          BY <3>1, <3>3 DEF TurnsAfter, InSlimming
        <4>2. \A v \in Works : /\ at'[v] = "turn" <=> at[v] = "turn"
                               /\ InSlimming(v)' <=> InSlimming(v)
                               /\ at[v] = "turn" => Script(v)'[step'[v] + 1] = Script(v)[step[v] + 1]
          BY <2>1, <3>1, <3>3, <4>1 DEF InSlimming, Script, Cleaning
        <4> QED
          BY <1>1, <4>1, <4>2, ServedFrame
      <3> QED
        BY <3>2, <3>3
    <2> QED
      BY <1>2, <2>2, <2>3, <2>4, <2>5 DEF WorkStep
  <1>3. ASSUME NEW r \in Runs, NEW i \in DOMAIN Plan[r].targets, Take(r, i)
        PROVE  Served' /\ turns' \in Seq(Works)
    <2>1. UNCHANGED <<step, outcome, turns>>
      BY <1>3, TakeLeaves
    <2>2. PICK w \in Works : at[w] = "todo" /\ at' = [at EXCEPT ![w] = "line"]
      BY <1>3, TakeLeaves
    <2>3. \A v \in Works : \/ at'[v] = at[v]
                           \/ at[v] \notin {"turn", "job"} /\ at'[v] \notin {"turn", "job"}
      BY <2>2 DEF WorksTypeOK
    <2> QED
      BY <1>1, <2>1, <2>3, ServedAside
  <1>4. CASE UNCHANGED <<at, step, outcome, turns>>
    BY <1>1, <1>4, ServedAside
  <1>5. ASSUME NEW r \in Runs, Asked(r)
        PROVE  Served' /\ turns' \in Seq(Works)
    <2>1. UNCHANGED <<at, step, turns>>
      BY <1>5, AskedLeaves
    <2>2. \A v \in Works : outcome'[v] = outcome[v] \/ at[v] \in {"todo", "done"}
      BY <1>5, AskedOutcome
    <2> QED
      BY <1>1, <2>1, <2>2, ServedAside
  <1>6. CASE Leased
    BY <1>4, <1>6, LeasedLeaves DEF workVars
  <1>7. CASE Stop \/ StopServices
    BY <1>4, <1>7, QuitLeaves DEF workVars
  <1>8. CASE Restart
    BY <1>8 DEF Restart, Served, InSlimming
  <1>9. CASE UNCHANGED vars
    BY <1>4, <1>9 DEF vars, workVars
  <1> QED
    BY <1>2, <1>3, <1>5, <1>6, <1>7, <1>8, <1>9, NextIs DEF Worked

LEMMA WorksTyped ==
    ASSUME WorksTypeOK, turns' \in Seq(Works), [Next]_vars
    PROVE  WorksTypeOK'
  <1> USE DEF WorksTypeOK, Places, Final
  <1>1. ASSUME NEW w \in Works, WorkStep(w)
        PROVE  WorksTypeOK'
    <2>1. CASE LeaveLine(w) \/ TakeAgain(w)
      BY <2>1 DEF LeaveLine, TakeAgain, GaveUp
    <2>2. CASE Begin(w)
      <3>1. outcome' \in [Works -> Final \cup {"queued", "resolving", "running"}]
        <4>1. \/ UNCHANGED outcome \/ outcome' = [outcome EXCEPT ![w] = "running"]
              \/ outcome' = [outcome EXCEPT ![w] = "failed"]
          BY <2>2 DEF Begin
        <4> QED
          BY <4>1
      <3>2. /\ at' \in [Works -> Places] /\ again' \subseteq Works /\ step' \in [Works -> Nat]
            /\ cleanup' \in [Works -> {"not-started", "running", "spoilt", "complete", "failed",
                                      "abandoned"}]
        BY <2>2 DEF Begin
      <3> QED
        BY <3>1, <3>2
    <2>3. CASE StartStep(w)
      BY <2>3 DEF StartStep
    <2>4. CASE TurnComes(w) \/ Noted(w)
      BY <2>4 DEF TurnComes, Noted
    <2>5. CASE StepDone(w)
      BY <2>5 DEF StepDone
    <2>6. CASE StepFails(w)
      BY <2>6 DEF StepFails, Broken
    <2>7. CASE TeardownDone(w)
      BY <2>7 DEF TeardownDone, CleanupOf
    <2>8. CASE TeardownBreaks(w) \/ Ambiguous(w)
      <3>1. BreaksOff(w)
        BY <2>8 DEF TeardownBreaks, Ambiguous
      <3> QED
        BY <3>1 DEF BreaksOff, Broken, GaveUp
    <2> QED
      BY <1>1, <2>1, <2>2, <2>3, <2>4, <2>5, <2>6, <2>7, <2>8 DEF WorkStep
  <1>2. ASSUME NEW r \in Runs, NEW i \in DOMAIN Plan[r].targets, Take(r, i)
        PROVE  WorksTypeOK'
    <2>1. UNCHANGED <<again, step, outcome, cleanup>>
      BY <1>2, TakeLeaves
    <2>2. \E w \in Works : at' = [at EXCEPT ![w] = "line"]
      BY <1>2, TakeLeaves
    <2>3. at' \in [Works -> Places]
      BY <2>2
    <2> QED
      BY <2>1, <2>3
  <1>3. CASE UNCHANGED workVars
    BY <1>3 DEF workVars
  <1>4. ASSUME NEW r \in Runs, Asked(r)
        PROVE  WorksTypeOK'
    <2>1. UNCHANGED <<at, again, step, turns>>
      BY <1>4, AskedLeaves
    <2>2. CASE Launch(r) \/ Finish(r)
      BY <2>1, <2>2 DEF Launch, Finish
    <2>3. ASSUME NEW confirmed \in BOOLEAN, RunRecipe(r, confirmed)
          PROVE  WorksTypeOK'
      BY <1>3, <2>3 DEF RunRecipe
    <2>4. CASE CancelRun(r) \/ CancelSaved(r) \/ Start(r) \/ EndsRun(r)
      BY <1>3, <2>4 DEF CancelRun, CancelSaved, Start, EndsRun
    <2>5. CASE Reject(r) \/ AskApproval(r) \/ ApprovalAsked(r) \/ Claim(r) \/ LaunchFails(r)
      BY <1>3, <2>5 DEF Reject, AskApproval, ApprovalAsked, Claim, LaunchFails
    <2> QED
      BY <1>4, <2>2, <2>3, <2>4, <2>5 DEF Asked, CallStep, RunStep, StartFails, EndRun
  <1>5. CASE Leased
    BY <1>3, <1>5, LeasedLeaves
  <1>6. CASE Stop \/ StopServices
    BY <1>3, <1>6, QuitLeaves
  <1>7. CASE Restart
    BY <1>7 DEF Restart
  <1>8. CASE UNCHANGED vars
    BY <1>3, <1>8 DEF vars
  <1> QED
    BY <1>1, <1>2, <1>4, <1>5, <1>6, <1>7, <1>8, NextIs DEF Worked

LEMMA QuitTyped ==
    ASSUME stopped \in BOOLEAN, late \in BOOLEAN, services \in BOOLEAN, [Next]_vars
    PROVE  stopped' \in BOOLEAN /\ late' \in BOOLEAN /\ services' \in BOOLEAN
  <1>1. CASE UNCHANGED quitVars
    BY <1>1, Zenon DEF quitVars
  <1>2. ASSUME NEW r \in Runs, Asked(r)
        PROVE  UNCHANGED quitVars
    BY <1>2, AskedLeaves DEF quitVars
  <1>3. CASE Worked
    <2>1. UNCHANGED quitVars
      BY <1>3, WorkLeaves, TakeLeaves DEF Worked, quitVars
    <2> QED
      BY <1>1, <2>1
  <1>4. CASE Leased
    <2>1. UNCHANGED quitVars
      BY <1>4, LeasedLeaves
    <2> QED
      BY <1>1, <2>1
  <1>5. CASE Stop
    <2>1. stopped' = TRUE /\ late' = late /\ services' = services
      BY <1>5, Zenon DEF Stop
    <2> QED
      BY <2>1, Zenon
  <1>6. CASE StopServices
    <2>1. stopped' = stopped /\ late' \in BOOLEAN /\ services' = FALSE
      BY <1>6, Zenon DEF StopServices
    <2> QED
      BY <2>1, Zenon
  <1>7. CASE Restart
    <2>1. stopped' = FALSE /\ late' = FALSE /\ services' = TRUE
      BY <1>7, Zenon DEF Restart
    <2> QED
      BY <2>1, Zenon
  <1>8. CASE UNCHANGED vars
    BY <1>1, <1>8, Zenon DEF vars
  <1> QED
    BY <1>1, <1>2, <1>3, <1>4, <1>5, <1>6, <1>7, <1>8, NextIs, Zenon

LEMMA BoundsTyped ==
    ASSUME faults \in 0..MaxFaults, restarts \in 0..MaxRestarts, [Next]_vars
    PROVE  faults' \in 0..MaxFaults /\ restarts' \in 0..MaxRestarts
  <1> USE BoundsAre
  <1>1. CASE (faults' = faults \/ SaveFails) /\ restarts' = restarts
    BY <1>1 DEF SaveFails
  <1>2. ASSUME NEW r \in Runs, Asked(r)
        PROVE  restarts' = restarts
    BY <1>2, AskedLeaves
  <1>3. CASE Worked
    <2>1. restarts' = restarts
      BY <1>3, WorkLeaves, TakeLeaves DEF Worked
    <2> QED
      BY <1>1, <2>1, FaultsOnly
  <1>4. CASE Leased
    BY <1>1, <1>4, LeasedLeaves DEF boundVars
  <1>5. CASE Stop \/ StopServices
    BY <1>1, <1>5, QuitLeaves DEF boundVars
  <1>6. CASE Restart
    BY <1>6 DEF Restart
  <1>7. CASE UNCHANGED vars
    BY <1>1, <1>7 DEF vars, boundVars
  <1> QED
    BY <1>1, <1>2, <1>3, <1>4, <1>5, <1>6, <1>7, FaultsOnly, NextIs

LEMMA IInvNext ==
    ASSUME IInv, [Next]_vars
    PROVE  IInv'
  <1> USE DEF IInv, TypeOK
  <1>1. RunsTypeOK'
    BY RunsTyped
  <1>2. Served' /\ turns' \in Seq(Works)
    BY ServedKept
  <1>3. WorksTypeOK'
    BY <1>2, WorksTyped
  <1>4. stopped' \in BOOLEAN /\ late' \in BOOLEAN /\ services' \in BOOLEAN
    BY QuitTyped
  <1>5. faults' \in 0..MaxFaults /\ restarts' \in 0..MaxRestarts
    BY BoundsTyped
  <1>6. HolderOK' /\ UnderLease'
    BY LeaseKept
  <1>7. Records' /\ TeardownAlways' /\ Again' /\ Doing' /\ Quitting'
    BY RecordsKept, TeardownKept, AgainKept, DoingKept, QuittingKept
  <1>8. faults \in Nat
    BY BoundsAre
  <1>9. Undisturbed' /\ CompleteIsComplete'
    BY <1>8, UndisturbedKept, CompleteKept
  <1> QED
    BY <1>1, <1>2, <1>3, <1>4, <1>5, <1>6, <1>7, <1>9

-----------------------------------------------------------------------------
(* The invariant holds, and with it what TLC checks on small instances.    *)

(* What every reachable state satisfies, whichever calls of runRecipe,     *)
(* cancelRun and stop are made and whichever writes are refused.           *)
THEOREM IInvInvariant == Spec => []IInv
  <1>1. Init => IInv
    BY InitIInv
  <1>2. IInv /\ [Next]_vars => IInv'
    BY IInvNext
  <1> QED
    BY <1>1, <1>2, PTL DEF Spec

(* executeTargetWithLease, #runTeardown: whoever works on a Simulator has  *)
(* its lease, in the second attempt at the teardown as well.               *)
THEOREM InvInvariant == Spec => []Inv
  <1>1. IInv => Inv
    BY DEF IInv, Inv
  <1> QED
    BY <1>1, IInvInvariant, PTL

(* #slimmingQueue: one Slimming mutation at a time over all runs, with any *)
(* number of runs and workers and whichever of them fail.                  *)
THEOREM SlimmingSerial == Spec => []SlimmingIsSerial
  <1>1. IInv => SlimmingIsSerial
    BY DEF IInv, Served, SlimmingIsSerial
  <1> QED
    BY <1>1, IInvInvariant, PTL

(* #executeTarget: a worker leaves a Simulator when a teardown of it came  *)
(* to its end, also after a cancel or a refused write, or when the second  *)
(* attempt was broken off as well and the record says so.                  *)
THEOREM TeardownAlwaysInvariant == Spec => []TeardownAlways
  <1>1. IInv => TeardownAlways
    BY DEF IInv
  <1> QED
    BY <1>1, IInvInvariant, PTL

(* #executeRun: without a refused write, a run found complete did all its  *)
(* steps and its teardown on every target.                                 *)
THEOREM CompleteInvariant == Spec => []CompleteIsComplete
  <1>1. IInv => CompleteIsComplete
    BY DEF IInv
  <1> QED
    BY <1>1, IInvInvariant, PTL

(* #claimedTargets: a Simulator a run works on is claimed by that run,     *)
(* unless a refused write ended one of its workers, and claims are held by *)
(* runs on the way, or by one whose first save was refused.                *)
THEOREM ClaimsInvariant == Spec => []ClaimsFollowRuns
  <1>1. ASSUME IInv, NEW w \in Works, at[w] \notin {"todo", "done"}
        PROVE  claimed[w[2]] = w[1] \/ WorkerDied(w[1])
    <2>1. w[1] \in Runs /\ w[2] \in Targets(w[1]) /\ w \in WorksOf(w[1])
      BY WorksAre DEF WorksOf
    <2>2. task[w[1]] # "none" \/ WorkerDied(w[1])
      BY <1>1, <2>1 DEF IInv, Undisturbed, Untouched, AllDone
    <2> QED
      BY <1>1, <2>1, <2>2 DEF IInv, Undisturbed
  <1>2. ASSUME IInv, NEW u \in Simulators, claimed[u] # None
        PROVE  \/ call[claimed[u]] = "saving" \/ claimed[u] \in Active
               \/ faults # 0 /\ stored[claimed[u]] \in {None, "needs-approval"}
    <2>1. claimed[u] \in Runs
      BY <1>2 DEF IInv, TypeOK, RunsTypeOK
    <2> QED
      BY <1>2, <2>1 DEF IInv, Undisturbed, NeverStarted, Active
  <1>3. IInv => ClaimsFollowRuns
    BY <1>1, <1>2 DEF ClaimsFollowRuns
  <1> QED
    BY <1>3, IInvInvariant, PTL

(* stopForQuit, within its budget: the services stay up until the runs it  *)
(* stopped are done with every target, unless a refused write kept such a  *)
(* run from taking any or ended one of its workers.                        *)
THEOREM QuitInvariant == Spec => []QuitLeavesTeardown
  <1>1. ASSUME IInv, ~services, ~late, NEW r \in waits
        PROVE  Over(r)
    <2>1. r \in Runs
      BY <1>1 DEF IInv, TypeOK, RunsTypeOK
    <2>2. task[r] = "none"
      BY <1>1, <2>1 DEF IInv, Quitting, RunsStopped, Active
    <2> QED
      BY <1>1, <2>1, <2>2 DEF IInv, Undisturbed
  <1>2. IInv => QuitLeavesTeardown
    BY <1>1 DEF QuitLeavesTeardown, Over
  <1> QED
    BY <1>2, IInvInvariant, PTL
=============================================================================
