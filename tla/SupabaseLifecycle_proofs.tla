---------------------- MODULE SupabaseLifecycle_proofs ----------------------
(* What SupabaseLifecycle promises for every number of stacks, jobs, slots, *)
(* stops and restarts of the desktop.                                       *)
EXTENDS SupabaseLifecycle, FiniteSetTheorems, SequenceTheorems,
        WellFoundedInduction, TLAPS

(* A set of stacks that has a member has a first one. *)
LEMMA FirstIsMember ==
    ASSUME NEW S \in SUBSET Stacks, S # {}
    PROVE  First(S) \in S
<1> DEFINE Below(x) == {t \in S : t < x}
           T == {Below(x) : x \in S}
<1>1. \A x \in S : Below(x) \in FiniteSubsetsOf(Stacks)
  <2> SUFFICES ASSUME NEW x \in S PROVE IsFiniteSet(Below(x))
      BY DEF FiniteSubsetsOf
  <2> QED
      BY FS_Subset, LifecycleAssumption
<1>2. T \subseteq FiniteSubsetsOf(Stacks) /\ T # {}
    BY <1>1
<1>3. PICK U \in T : \A V \in T : ~ (<<V, U>> \in StrictSubsetOrdering(Stacks))
    BY <1>2, FS_StrictSubsetOrderingWellFounded, WFMin
<1>4. PICK x \in S : U = Below(x)
    OBVIOUS
<1>5. \A y \in S : x <= y
  <2> SUFFICES ASSUME NEW y \in S, ~ (x <= y) PROVE FALSE
      OBVIOUS
  <2>1. \A t \in S : t \in Nat
      BY LifecycleAssumption
  <2>2. y < x
      BY <2>1
  <2>3. \A t \in S : t < y => t < x
      BY <2>1, <2>2
  <2>4. Below(y) \subseteq Below(x)
      BY <2>3
  <2>5. y \in Below(x) /\ y \notin Below(y)
      BY <2>1, <2>2
  <2>6. Below(y) \in SUBSET Stacks /\ Below(x) \in SUBSET Stacks
      OBVIOUS
  <2>7. <<Below(y), Below(x)>> \in StrictSubsetOrdering(Stacks)
      BY <2>4, <2>5, <2>6 DEF StrictSubsetOrdering
  <2> QED
      BY <2>7, <1>3, <1>4
<1> QED
    BY <1>5 DEF First

(* Where a job of each kind waits first, and at which gate. *)
LEMMA EntryPlaces ==
    ASSUME NEW k \in Kinds
    PROVE  /\ Entry(k) \in {"settling", "lock", "gate"}
           /\ Entry(k) = "gate" <=> GateOf(k) \in Gates
           /\ Entry(k) = "settling" <=> k = "disable"
<1> QED
    BY LifecycleAssumption DEF Entry, GateOf, Kinds, Gates

-----------------------------------------------------------------------------
(* Joining a line and ending: what they give the job, and what they leave   *)
(* of the others.                                                           *)
LEMMA JoinsType ==
    ASSUME TypeOK, NEW j \in Jobs, NEW k \in Kinds, NEW S \in SUBSET Stacks, S # {},
           Joins(j, k, S)
    PROVE  /\ line' \in [Gates -> Seq(Jobs)] /\ lock' \in [Stacks -> Seq(Jobs)]
           /\ kind' \in [Jobs -> Kinds \cup {None}] /\ on' \in [Jobs -> SUBSET Stacks]
           /\ at' \in [Jobs -> Stacks \cup {None}] /\ left' \in [Jobs -> SUBSET Stacks]
<1>1. First(S) \in S
    BY FirstIsMember
<1>2. line' \in [Gates -> Seq(Jobs)]
    BY EntryPlaces DEF TypeOK, Joins
<1>3. lock' \in [Stacks -> Seq(Jobs)]
    BY <1>1 DEF TypeOK, Joins
<1> QED
    BY <1>1, <1>2, <1>3 DEF TypeOK, Joins

LEMMA JoinsFrame ==
    ASSUME TypeOK, NEW j \in Jobs, NEW k \in Kinds, NEW S \in SUBSET Stacks, S # {},
           Joins(j, k, S)
    PROVE  /\ kind'[j] = k /\ on'[j] = S /\ at'[j] \in S /\ left'[j] = S \ {at'[j]}
           /\ \A i \in Jobs \ {j} : /\ kind'[i] = kind[i] /\ on'[i] = on[i]
                                    /\ at'[i] = at[i] /\ left'[i] = left[i]
           /\ \A i \in Jobs, s \in Stacks : Holds(i, s) => Holds(i, s)'
<1>1. First(S) \in S
    BY FirstIsMember
<1>2. ASSUME NEW i \in Jobs, NEW s \in Stacks, Holds(i, s) PROVE Holds(i, s)'
  <2>1. lock[s] \in Seq(Jobs) /\ lock[s] # <<>> /\ Head(lock[s]) = i
      BY <1>2 DEF TypeOK, Holds
  <2>2. lock'[s] = lock[s] \/ lock'[s] = Append(lock[s], j)
      BY DEF Joins, TypeOK
  <2> QED
      BY <2>1, <2>2 DEF Holds
<1> QED
    BY <1>1, <1>2 DEF TypeOK, Joins

LEMMA EndedType ==
    ASSUME TypeOK, NEW j \in Jobs, NEW calledOff \in BOOLEAN, Ended(j, calledOff)
    PROVE  /\ pc' \in [Jobs -> Places] /\ lock' \in [Stacks -> Seq(Jobs)]
           /\ kind' \in [Jobs -> Kinds \cup {None}] /\ on' \in [Jobs -> SUBSET Stacks]
           /\ at' \in [Jobs -> Stacks \cup {None}] /\ left' \in [Jobs -> SUBSET Stacks]
           /\ maker' \in [Jobs -> Jobs \cup {None}] /\ round' \in [Jobs -> 0..MaxStops]
           /\ aborted' \in SUBSET Jobs
<1>1. pc' \in [Jobs -> Places]
  <2> SUFFICES ASSUME NEW i \in Jobs
               PROVE  (IF i = j THEN "none"
                       ELSE IF maker[j] = i THEN IF calledOff THEN "denied" ELSE "admit"
                       ELSE pc[i]) \in Places
      BY DEF Ended
  <2> QED
      BY DEF TypeOK, Places
<1>2. lock' \in [Stacks -> Seq(Jobs)]
  <2> SUFFICES ASSUME NEW s \in Stacks
               PROVE  (IF Holds(j, s) THEN Tail(lock[s]) ELSE lock[s]) \in Seq(Jobs)
      BY DEF Ended
  <2> QED
      BY DEF TypeOK, Holds
<1>3. 0 \in 0..MaxStops
    BY LifecycleAssumption
<1>4. aborted' \in SUBSET Jobs
    BY DEF TypeOK, Ended
<1>5. /\ kind' \in [Jobs -> Kinds \cup {None}] /\ on' \in [Jobs -> SUBSET Stacks]
      /\ at' \in [Jobs -> Stacks \cup {None}] /\ left' \in [Jobs -> SUBSET Stacks]
    BY DEF TypeOK, Ended
<1>6. /\ maker' \in [Jobs -> Jobs \cup {None}] /\ round' \in [Jobs -> 0..MaxStops]
    BY <1>3 DEF TypeOK, Ended
<1> QED
    BY <1>1, <1>2, <1>4, <1>5, <1>6

LEMMA EndedFrame ==
    ASSUME TypeOK, NEW j \in Jobs, NEW calledOff \in BOOLEAN, Ended(j, calledOff)
    PROVE  /\ pc'[j] = "none" /\ kind'[j] = None /\ on'[j] = {} /\ maker'[j] = None
           /\ \A i \in Jobs \ {j} :
                /\ kind'[i] = kind[i] /\ on'[i] = on[i] /\ at'[i] = at[i]
                /\ left'[i] = left[i] /\ maker'[i] = maker[i]
                /\ pc'[i] = pc[i] \/ (maker[j] = i /\ pc'[i] \in {"denied", "admit"})
           /\ \A i \in Jobs \ {j}, s \in Stacks : Holds(i, s) => Holds(i, s)'
<1>1. ASSUME NEW i \in Jobs \ {j}, NEW s \in Stacks, Holds(i, s) PROVE Holds(i, s)'
  <2>1. ~ Holds(j, s)
      BY <1>1 DEF Holds
  <2> QED
      BY <1>1, <2>1 DEF Ended, Holds
<1> QED
    BY <1>1 DEF TypeOK, Ended
LEMMA NextToDisableType ==
    ASSUME TypeOK, NEW j \in Jobs, NextToDisable(j)
    PROVE  /\ pc' \in [Jobs -> Places] /\ lock' \in [Stacks -> Seq(Jobs)]
           /\ at' \in [Jobs -> Stacks \cup {None}] /\ left' \in [Jobs -> SUBSET Stacks]
           /\ at'[j] \in left[j] /\ left'[j] = left[j] \ {at'[j]} /\ pc'[j] = "lock"
           /\ \A i \in Jobs \ {j} : at'[i] = at[i] /\ left'[i] = left[i] /\ pc'[i] = pc[i]
           /\ \A i \in Jobs \ {j}, s \in Stacks : Holds(i, s) => Holds(i, s)'
<1> DEFINE s == First(left[j])
<1>1. s \in left[j] /\ s \in Stacks
    BY FirstIsMember DEF TypeOK, NextToDisable
<1> HIDE DEF s
<1>2. /\ at' = [at EXCEPT ![j] = s]
      /\ left' = [left EXCEPT ![j] = @ \ {s}]
      /\ lock' = [t \in Stacks |-> IF t = s THEN Append(lock[t], j)
                                    ELSE IF Holds(j, t) THEN Tail(lock[t]) ELSE lock[t]]
      /\ pc' = [pc EXCEPT ![j] = "lock"]
    BY DEF NextToDisable, s
<1>3. lock' \in [Stacks -> Seq(Jobs)]
  <2> SUFFICES ASSUME NEW t \in Stacks
               PROVE  (IF t = s THEN Append(lock[t], j)
                       ELSE IF Holds(j, t) THEN Tail(lock[t]) ELSE lock[t]) \in Seq(Jobs)
      BY <1>2
  <2> QED
      BY DEF TypeOK, Holds
<1>4. ASSUME NEW i \in Jobs \ {j}, NEW t \in Stacks, Holds(i, t) PROVE Holds(i, t)'
  <2>1. lock[t] \in Seq(Jobs) /\ lock[t] # <<>> /\ Head(lock[t]) = i /\ ~ Holds(j, t)
      BY <1>4 DEF TypeOK, Holds
  <2>2. lock'[t] = lock[t] \/ lock'[t] = Append(lock[t], j)
      BY <2>1, <1>2
  <2> QED
      BY <2>1, <2>2 DEF Holds
<1> QED
    BY <1>1, <1>2, <1>3, <1>4 DEF TypeOK, Places
-----------------------------------------------------------------------------
(* What a step does to the jobs, their lines and their locks.               *)
JobsQuiet == UNCHANGED <<jobVars, line, lock>>

Queues(j) ==
    /\ pc[j] = "asked"
    /\ pc' = [pc EXCEPT ![j] = Entry(kind[j])]
    /\ Joins(j, kind[j], on[j])
    /\ UNCHANGED <<maker, round, aborted>>

Aborts(j) ==
    /\ aborted' = aborted \cup {j}
    /\ UNCHANGED <<kind, on, pc, at, left, maker, round, line, lock>>

(* Leaves a gate's line by being cancelled, or ends elsewhere. *)
Goes(j, calledOff) ==
    /\ pc[j] \notin {"none", "making"}
    /\ Ended(j, calledOff)
    /\ \/ UNCHANGED line
       \/ pc[j] = "gate" /\ line' \in [Gates -> Seq(Jobs)]

Moves(j, where) ==
    /\ \/ Begin(j) /\ HasTurn(j) /\ ~CalledOff(j) /\ where = FirstStep(j)
       \/ Allow(j) /\ pc[j] = "admit" /\ enabled /\ where = "starting"
       \/ pc[j] = "starting" /\ where = "verifying"
       \/ pc[j] = "stopping" /\ kind[j] = "restart" /\ where = "starting"
       \/ pc[j] = "stopping" /\ kind[j] = "recreate" /\ where = "destroying"
       \/ pc[j] = "destroying" /\ kind[j] = "recreate" /\ enabled /\ where = "admit"
    /\ Becomes(j, where)

JobStep ==
    \/ JobsQuiet
    \/ Crash
    \/ \E j \in Jobs, k \in Kinds, S \in SUBSET Stacks : 
            /\ S # {} /\ NewJob(j, k, S)
            /\ k = "disable" => ~ enabled'
            /\ k \in StartingKinds => \E s \in Stacks : S = {s}
    \/ \E j \in Jobs, s \in Stacks, k \in {"recreate", "restart"} : Ask(j, s, k)
    \/ \E j \in Jobs : Queues(j) \/ Aborts(j)
    \/ \E j \in Jobs, c \in BOOLEAN : Goes(j, c)
    \/ \E j \in Jobs, where \in Places : Moves(j, where)
    \/ \E j \in Jobs : TakeSlot(j) \/ NextLock(j) \/ Disable(j)
    \/ \E j \in Jobs : pc[j] = "stopping" /\ NextToDisable(j)
    \/ \E j \in Jobs, s \in Stacks, k \in Jobs : MakeRoom(j, s, k)

(* The desktop comes back: a job is gone, or is adopted as it was.          *)
LEMMA CrashFrame ==
    ASSUME Crash
    PROVE  /\ \A i \in Jobs :
                /\ maker'[i] = None
                /\ \/ pc'[i] = "none" /\ kind'[i] = None /\ on'[i] = {}
                   \/ /\ i \in Children
                      /\ kind'[i] = kind[i] /\ on'[i] = on[i] /\ at'[i] = at[i]
                      /\ pc'[i] = IF pc[i] \in {"starting", "adopted start"}
                                  THEN "adopted start" ELSE "adopted stop"
           /\ UNCHANGED <<enabled, down, up, loose>>
<1> PICK adopted \in SUBSET Children : ComesBack(adopted)
    BY DEF Crash
<1>1. ASSUME NEW i \in Jobs
      PROVE  /\ maker'[i] = None
             /\ \/ pc'[i] = "none" /\ kind'[i] = None /\ on'[i] = {}
                \/ /\ i \in Children
                   /\ kind'[i] = kind[i] /\ on'[i] = on[i] /\ at'[i] = at[i]
                   /\ pc'[i] = IF pc[i] \in {"starting", "adopted start"}
                               THEN "adopted start" ELSE "adopted stop"
    BY DEF ComesBack
<1> QED
    BY <1>1 DEF ComesBack

LEMMA CancelGoes ==
    ASSUME TypeOK, NEW j \in Jobs, Cancel(j)
    PROVE  Goes(j, TRUE) \/ Aborts(j)
<1>1. CASE pc[j] = "lock"
    BY <1>1 DEF Cancel, Aborts
<1>2. CASE pc[j] = "gate"
  <2> DEFINE g == GateOf(kind[j])
  <2>1. g \in Gates
      BY DEF Cancel, GateOf, Gates
  <2>2. PICK i \in DOMAIN line[g] :
            line' = [line EXCEPT ![g] = SubSeq(@, 1, i - 1) \o SubSeq(@, i + 1, Len(@))]
      BY <1>2 DEF Cancel
  <2> HIDE DEF g
  <2>3. line[g] \in Seq(Jobs)
      BY <2>1 DEF TypeOK
  <2>4. i \in 1..Len(line[g])
      BY <2>3
  <2>5. SubSeq(line[g], 1, i - 1) \in Seq(Jobs) /\ SubSeq(line[g], i + 1, Len(line[g])) \in Seq(Jobs)
      BY <2>3, <2>4, SubSeqProperties
  <2> DEFINE q == SubSeq(line[g], 1, i - 1) \o SubSeq(line[g], i + 1, Len(line[g]))
  <2>6. q \in Seq(Jobs) /\ line' = [line EXCEPT ![g] = q]
    <3>1. q \in Seq(Jobs)
        BY ONLY <2>5, ConcatProperties
    <3> QED
        BY ONLY <2>2, <3>1
  <2> HIDE DEF q
  <2>7. line' \in [Gates -> Seq(Jobs)]
      BY <2>1, <2>6 DEF TypeOK
  <2> QED
      BY <1>2, <2>7 DEF Cancel, Goes
<1> QED
    BY <1>1, <1>2 DEF Cancel

LEMMA JobSteps ==
    ASSUME TypeOK, [Next]_vars
    PROVE  JobStep
<1>1. CASE UNCHANGED vars
    BY <1>1 DEF vars, JobStep, JobsQuiet
<1>2. CASE World
  <2>1. CASE TurnOff \/ TurnOn \/ Refresh \/ \E s \in Stacks : Hold(s) \/ Unhold(s)
      BY <2>1 DEF TurnOff, TurnOn, Refresh, Hold, Unhold, JobStep, JobsQuiet, stackVars
  <2>2. ASSUME NEW j \in Jobs, TurnedOff(j) PROVE JobStep
    <3> DEFINE begun == {i \in Active : kind[i] \in StartingKinds /\ Begun(i)}
               stacks == turning \cup UNION {on[i] : i \in begun}
    <3>1. stacks \in SUBSET Stacks
        BY DEF TypeOK, Active
    <3>2. JobsQuiet \/ (stacks # {} /\ NewJob(j, "disable", stacks) /\ ~ enabled')
        BY <2>2 DEF TurnedOff, JobsQuiet
    <3> HIDE DEF stacks
    <3>3. "disable" \in Kinds \ StartingKinds
        BY DEF Kinds, StartingKinds
    <3> QED
        BY <3>1, <3>2, <3>3 DEF JobStep
  <2>3. ASSUME NEW s, NEW way, StrayActs(s, way) PROVE JobStep
      BY <2>3 DEF StrayActs, JobStep, JobsQuiet
  <2> QED
      BY <1>2, <2>1, <2>2, <2>3 DEF World, JobStep
<1>3. ASSUME NEW j \in Jobs, Request(j) PROVE JobStep
  <2>0. \A s \in Stacks : {s} \in SUBSET Stacks /\ {s} # {}
      OBVIOUS
  <2>1. ASSUME NEW s \in Stacks, NEW k \in Kinds, Ensure(j, s, k) PROVE JobStep
      BY <2>0, <2>1 DEF Ensure, JobStep
  <2>2. ASSUME NEW s \in Stacks, NEW k \in Kinds, Ask(j, s, k) PROVE JobStep
    <3>1. k \in {"recreate", "restart"}
        BY <2>2 DEF Ask
    <3> QED
        BY <2>2, <3>1 DEF JobStep
  <2>3. ASSUME NEW s \in Stacks, Stop(j, s) \/ StopWhenDue(j, s) PROVE JobStep
    <3>1. "stop" \in Kinds \ StartingKinds /\ "due" \in Kinds \ StartingKinds
        BY DEF Kinds, StartingKinds
    <3> QED
        BY <2>0, <2>3, <3>1 DEF Stop, StopWhenDue, JobStep
  <2>4. ASSUME NEW S \in SUBSET Stacks, Destroy(j, S) PROVE JobStep
    <3>1. "destroy" \in Kinds \ StartingKinds
        BY DEF Kinds, StartingKinds
    <3> QED
        BY <2>4, <3>1 DEF Destroy, JobStep
  <2>5. CASE Cancel(j)
      BY <2>5, CancelGoes DEF JobStep
  <2> QED
      BY <1>3, <2>1, <2>2, <2>3, <2>4, <2>5 DEF Request
<1>4. ASSUME NEW j \in Jobs, Work(j) PROVE JobStep
  <2>0. ASSUME NEW c \in BOOLEAN, Ends(j, c), pc[j] \notin {"none", "making"} PROVE JobStep
    <3>1. Goes(j, c)
        BY <2>0 DEF Ends, Goes
    <3> QED
        BY <3>1 DEF JobStep
  <2>1. CASE Operate(j)
      BY <2>0, <2>1 DEF Operate, Queues, JobStep
  <2>2. CASE TakeSlot(j) \/ NextLock(j) \/ Disable(j)
      BY <2>2 DEF JobStep
  <2>3. CASE CallOff(j) \/ SkipStop(j) \/ Refuse(j) \/ StartFails(j) \/ Verified(j) \/ AdoptedEnds(j)
      BY <2>0, <2>3 DEF CallOff, SkipStop, HasTurn, Refuse, StartFails, Verified, AdoptedEnds,
                        Adopted
  <2>4. CASE Begin(j)
    <3>1. Moves(j, FirstStep(j)) /\ FirstStep(j) \in Places
        BY <2>4 DEF Begin, Moves, FirstStep, Places
    <3> QED
        BY <3>1 DEF JobStep
  <2>5. CASE Allow(j)
    <3>1. Moves(j, "starting") /\ "starting" \in Places
        BY <2>5 DEF Allow, Moves, Places
    <3> QED
        BY <3>1 DEF JobStep
  <2>6. ASSUME NEW s \in Stacks, NEW k \in Jobs, MakeRoom(j, s, k) PROVE JobStep
      BY <2>6 DEF JobStep
  <2>7. CASE Starts(j)
    <3>1. Moves(j, "verifying") /\ "verifying" \in Places
        BY <2>7 DEF Starts, Moves, Places
    <3> QED
        BY <3>1 DEF JobStep
  <2>8. CASE Stops(j)
    <3>1. {"starting", "destroying"} \subseteq Places
        BY DEF Places
    <3>2. \/ Moves(j, "starting") \/ Moves(j, "destroying")
          \/ NextToDisable(j) \/ Ends(j, FALSE)
        BY <2>8 DEF Stops, AfterStop, Moves
    <3> QED
        BY <2>0, <2>8, <3>1, <3>2 DEF JobStep, Stops
  <2>9. CASE StopFails(j)
      BY <2>0, <2>9 DEF StopFails, JobStep
  <2>10. CASE Destroys(j)
    <3>1. Moves(j, "admit") \/ Ends(j, FALSE)
        BY <2>10 DEF Destroys, Moves
    <3>2. "admit" \in Places
        BY DEF Places
    <3> QED
        BY <2>0, <2>10, <3>1, <3>2 DEF JobStep, Destroys
  <2> QED
      BY <1>4, <2>1, <2>2, <2>3, <2>4, <2>5, <2>6, <2>7, <2>8, <2>9, <2>10 DEF Work
<1> QED
    BY <1>1, <1>2, <1>3, <1>4 DEF Next

-----------------------------------------------------------------------------
(* Types. *)
JobsTyped ==
    /\ kind \in [Jobs -> Kinds \cup {None}]
    /\ on \in [Jobs -> SUBSET Stacks]
    /\ pc \in [Jobs -> Places]
    /\ at \in [Jobs -> Stacks \cup {None}]
    /\ left \in [Jobs -> SUBSET Stacks]
    /\ maker \in [Jobs -> Jobs \cup {None}]
    /\ round \in [Jobs -> 0..MaxStops]
    /\ aborted \in SUBSET Jobs
    /\ line \in [Gates -> Seq(Jobs)]
    /\ lock \in [Stacks -> Seq(Jobs)]

LEMMA JobsTypedKept ==
    ASSUME TypeOK, JobsArePlaced, JobStep
    PROVE  JobsTyped'
<1>0. JobsTyped
    BY DEF TypeOK, JobsTyped
<1>1. CASE JobsQuiet
    BY <1>0, <1>1 DEF JobsTyped, JobsQuiet, jobVars
<1>2. CASE Crash
  <2> PICK adopted \in SUBSET Children : ComesBack(adopted)
      BY <1>2 DEF Crash
  <2>1. pc' \in [Jobs -> Places]
      BY DEF ComesBack, Places
  <2>2. kind' \in [Jobs -> Kinds \cup {None}] /\ on' \in [Jobs -> SUBSET Stacks]
      BY <1>0 DEF ComesBack, JobsTyped
  <2>3. at' \in [Jobs -> Stacks \cup {None}] /\ left' \in [Jobs -> SUBSET Stacks]
      BY <1>0 DEF ComesBack, JobsTyped
  <2>0. 0 \in 0..MaxStops /\ <<>> \in Seq(Jobs)
      BY LifecycleAssumption
  <2>4. maker' \in [Jobs -> Jobs \cup {None}] /\ round' \in [Jobs -> 0..MaxStops]
      BY <2>0 DEF ComesBack
  <2>5. line' \in [Gates -> Seq(Jobs)] /\ lock' \in [Stacks -> Seq(Jobs)] /\ aborted' = {}
      BY <2>0 DEF ComesBack
  <2> QED
      BY <2>1, <2>2, <2>3, <2>4, <2>5 DEF JobsTyped
<1>3. ASSUME NEW j \in Jobs, NEW k \in Kinds, NEW S \in SUBSET Stacks, S # {}, NewJob(j, k, S)
      PROVE  JobsTyped'
    BY <1>0, <1>3, JoinsType, EntryPlaces DEF JobsTyped, NewJob, Places
<1>4. ASSUME NEW j \in Jobs, NEW s \in Stacks, NEW k \in {"recreate", "restart"}, Ask(j, s, k)
      PROVE  JobsTyped'
    BY <1>0, <1>4 DEF JobsTyped, Ask, Places, Kinds
<1>5. ASSUME NEW j \in Jobs, Queues(j) PROVE JobsTyped'
  <2>1. kind[j] \in Kinds /\ on[j] # {} /\ on[j] \in SUBSET Stacks
      BY <1>5 DEF Queues, JobsArePlaced, Placed, TypeOK
  <2> QED
      BY <1>0, <1>5, <2>1, JoinsType, EntryPlaces DEF JobsTyped, Queues, Places
<1>6. ASSUME NEW j \in Jobs, Aborts(j) PROVE JobsTyped'
    BY <1>0, <1>6 DEF JobsTyped, Aborts
<1>7. ASSUME NEW j \in Jobs, NEW c \in BOOLEAN, Goes(j, c) PROVE JobsTyped'
    BY <1>0, <1>7, EndedType DEF JobsTyped, Goes
<1>8. ASSUME NEW j \in Jobs, NEW where \in Places, Moves(j, where) PROVE JobsTyped'
    BY <1>0, <1>8 DEF JobsTyped, Moves, Becomes
<1>9. ASSUME NEW j \in Jobs, TakeSlot(j) PROVE JobsTyped'
  <2>1. at[j] \in Stacks
      BY <1>9 DEF TakeSlot, JobsArePlaced, Placed
  <2>2. lock' \in [Stacks -> Seq(Jobs)]
      BY <1>0, <1>9, <2>1 DEF JobsTyped, TakeSlot
  <2>3. line' \in [Gates -> Seq(Jobs)]
    <3> DEFINE g == GateOf(kind[j])
    <3>1. line[g] # <<>> /\ line' = [line EXCEPT ![g] = Tail(@)]
        BY <1>9 DEF TakeSlot
    <3> HIDE DEF g
    <3>2. line' = [h \in Gates |-> IF h = g THEN Tail(line[h]) ELSE line[h]]
        BY <1>0, <3>1, Zenon DEF JobsTyped
    <3>3. \A h \in Gates : (IF h = g THEN Tail(line[h]) ELSE line[h]) \in Seq(Jobs)
        BY <1>0, <3>1 DEF JobsTyped
    <3> QED
        BY <3>2, <3>3
  <2> QED
      BY <1>0, <1>9, <2>2, <2>3 DEF JobsTyped, TakeSlot, Places
<1>10. ASSUME NEW j \in Jobs, NextLock(j) PROVE JobsTyped'
  <2>1. First(left[j]) \in left[j] /\ First(left[j]) \in Stacks
      BY <1>0, <1>10, FirstIsMember DEF JobsTyped, NextLock
  <2> QED
      BY <1>0, <1>10, <2>1 DEF JobsTyped, NextLock
<1>11. ASSUME NEW j \in Jobs, Disable(j) PROVE JobsTyped'
  <2>1. lock' \in [Stacks -> Seq(Jobs)]
    <3>1. lock' = [lock EXCEPT ![at[j]] = Append(@, j)] /\ at[j] \in Stacks
        BY <1>11 DEF Disable, JobsArePlaced, Placed
    <3> QED
        BY <1>0, <3>1 DEF JobsTyped
  <2> QED
      BY <1>0, <1>11, <2>1 DEF JobsTyped, Disable, Places
<1>12. ASSUME NEW j \in Jobs, NextToDisable(j) PROVE JobsTyped'
    BY <1>0, <1>12, NextToDisableType DEF JobsTyped, NextToDisable
<1>13. ASSUME NEW j \in Jobs, NEW s \in Stacks, NEW k \in Jobs, MakeRoom(j, s, k)
       PROVE  JobsTyped'
  <2>1. "room" \in Kinds /\ {s} \in SUBSET Stacks /\ {s} # {}
      BY DEF Kinds
  <2>2. Joins(k, "room", {s})
      BY <1>13 DEF MakeRoom
  <2>3. pc' \in [Jobs -> Places]
      BY <1>0, <1>13, <2>1, EntryPlaces DEF JobsTyped, MakeRoom, Places
  <2>4. round[j] + 1 \in 0..MaxStops
      BY <1>0, <1>13, LifecycleAssumption DEF JobsTyped, MakeRoom
  <2>5. maker' \in [Jobs -> Jobs \cup {None}] /\ round' \in [Jobs -> 0..MaxStops]
      BY <1>0, <1>13, <2>4 DEF JobsTyped, MakeRoom
  <2> QED
      BY <1>0, <1>13, <2>1, <2>2, <2>3, <2>5, JoinsType DEF JobsTyped, MakeRoom
<1> QED
    BY <1>1, <1>2, <1>3, <1>4, <1>5, <1>6, <1>7, <1>8, <1>9, <1>10, <1>11, <1>12, <1>13
    DEF JobStep

(* What a child may do, it may do to a stack. *)
LEMMA MayDoTyped ==
    ASSUME JobsArePlaced
    PROVE  \A j \in Jobs : pc[j] \notin {"none", "asked"} =>
              MayDo(j) \in SUBSET (Stacks \X {"up", "down"})
<1> SUFFICES ASSUME NEW j \in Jobs, at[j] \in Stacks
             PROVE  MayDo(j) \in SUBSET (Stacks \X {"up", "down"})
    BY DEF JobsArePlaced, Placed
<1>1. <<at[j], "up">> \in Stacks \X {"up", "down"} /\ <<at[j], "down">> \in Stacks \X {"up", "down"}
    OBVIOUS
<1>2. MayDo(j) \subseteq {<<at[j], "up">>, <<at[j], "down">>}
    BY DEF MayDo
<1> QED
    BY <1>1, <1>2

LEMMA TypeKept ==
    ASSUME TypeOK, JobsArePlaced, [Next]_vars
    PROVE  TypeOK'
<1> DEFINE
      RestTyped ==
        /\ enabled \in BOOLEAN
        /\ saving \in BOOLEAN /\ turning \in SUBSET Stacks
        /\ down \in SUBSET Stacks /\ up \in SUBSET Stacks
        /\ stray \in SUBSET (Stacks \X {"up", "down"})
        /\ shown \in SUBSET Stacks /\ held \in SUBSET Stacks
        /\ crashes \in 0..MaxCrashes
        /\ loose \in BOOLEAN
<1>1. JobsTyped'
    BY JobSteps, JobsTypedKept
<1>2. RestTyped'
  <2>0. RestTyped
      BY DEF TypeOK
  <2>1. CASE UNCHANGED vars
      BY <2>0, <2>1 DEF vars, engineVars, stackVars
  <2>2. CASE World
    <3>1. CASE TurnOff \/ TurnOn \/ Refresh
        BY <2>0, <3>1 DEF TurnOff, TurnOn, Refresh, Shows, engineVars, stackVars
    <3>2. CASE Crash
      <4> PICK adopted \in SUBSET Children : ComesBack(adopted)
          BY <3>2 DEF Crash
      <4>1. crashes + 1 \in 0..MaxCrashes
        <5>1. MaxCrashes \in Nat
            BY LifecycleAssumption
        <5>2. crashes \in 0..MaxCrashes
            BY <2>0
        <5>3. crashes < MaxCrashes
            BY DEF ComesBack
        <5> QED
            BY <5>1, <5>2, <5>3
      <4>2. stray' \in SUBSET (Stacks \X {"up", "down"})
        <5>1. \A j \in Children : MayDo(j) \in SUBSET (Stacks \X {"up", "down"})
            BY MayDoTyped DEF Children
        <5> QED
            BY <2>0, <5>1 DEF ComesBack
      <4> QED
          BY <2>0, <4>1, <4>2 DEF ComesBack, Shows
    <3>3. ASSUME NEW s \in Stacks, Hold(s) \/ Unhold(s) PROVE RestTyped'
        BY <2>0, <3>3 DEF Hold, Unhold, engineVars
    <3>4. ASSUME NEW j \in Jobs, TurnedOff(j) PROVE RestTyped'
        BY <2>0, <3>4 DEF TurnedOff, Shows
    <3>5. ASSUME NEW s \in Stacks, NEW way \in {"up", "down"}, StrayActs(s, way)
          PROVE  RestTyped'
        BY <2>0, <3>5 DEF StrayActs
    <3> QED
        BY <2>2, <3>1, <3>2, <3>3, <3>4, <3>5 DEF World
  <2>3. ASSUME NEW j \in Jobs, Request(j) PROVE RestTyped'
    <3>1. ASSUME NEW s \in Stacks, NEW k \in Kinds, Ensure(j, s, k) \/ Ask(j, s, k) PROVE RestTyped'
        BY <2>0, <3>1 DEF Ensure, Ask, Shows, engineVars, stackVars
    <3>2. ASSUME NEW s \in Stacks, Stop(j, s) \/ StopWhenDue(j, s) PROVE RestTyped'
        BY <2>0, <3>2 DEF Stop, StopWhenDue, engineVars, stackVars
    <3>3. CASE Cancel(j) \/ \E S \in SUBSET Stacks : Destroy(j, S)
        BY <2>0, <3>3 DEF Cancel, Destroy, engineVars, stackVars
    <3> QED
        BY <2>3, <3>1, <3>2, <3>3 DEF Request
  <2>4. ASSUME NEW j \in Jobs, Work(j) PROVE RestTyped'
    <3>1. CASE Operate(j) \/ TakeSlot(j) \/ NextLock(j) \/ CallOff(j) \/ SkipStop(j) \/ Refuse(j)
        BY <2>0, <3>1 DEF Operate, TakeSlot, NextLock, CallOff, SkipStop, Refuse, engineVars, stackVars
    <3>2. CASE Begin(j)
        BY <2>0, <3>2 DEF Begin, engineVars, stackVars
    <3>3. CASE Allow(j)
        BY <2>0, <3>3 DEF Allow, engineVars, stackVars
    <3>4. ASSUME NEW s \in Stacks, NEW k \in Jobs, MakeRoom(j, s, k) PROVE RestTyped'
        BY <2>0, <3>4 DEF MakeRoom, engineVars, stackVars
    <3>5. CASE Starts(j)
        BY <2>0, <3>5 DEF Starts, engineVars, JobsArePlaced, Placed
    <3>6. CASE StartFails(j) \/ StopFails(j) \/ Disable(j)
        BY <2>0, <3>6 DEF StartFails, StopFails, Disable, engineVars, stackVars
    <3>7. CASE Verified(j)
        BY <2>0, <3>7 DEF Verified, Shows, engineVars
    <3>8. CASE Stops(j)
        BY <2>0, <3>8 DEF Stops, Shows, JobsArePlaced, Placed
    <3>9. CASE Destroys(j)
        BY <2>0, <3>9 DEF Destroys, Shows, engineVars
    <3>10. CASE AdoptedEnds(j)
        BY <2>0, <3>10, MayDoTyped DEF AdoptedEnds, Adopted, JobsArePlaced, Placed, engineVars
    <3> QED
        BY <2>4, <3>1, <3>2, <3>3, <3>4, <3>5, <3>6, <3>7, <3>8, <3>9, <3>10 DEF Work
  <2> QED
      BY <2>1, <2>2, <2>3, <2>4 DEF Next
<1> QED
    BY <1>1, <1>2 DEF TypeOK, JobsTyped

(* What both kinds of newcomers have in common. *)
Enters(j, k, S) ==
    /\ pc' = [pc EXCEPT ![j] = Entry(k)]
    /\ Joins(j, k, S)

LEMMA EntersFrame ==
    ASSUME TypeOK, NEW j \in Jobs, NEW k \in Kinds, NEW S \in SUBSET Stacks, S # {},
           Enters(j, k, S)
    PROVE  /\ kind'[j] = k /\ on'[j] = S /\ at'[j] \in S /\ left'[j] = S \ {at'[j]}
           /\ pc'[j] \in {"settling", "lock", "gate"}
           /\ pc'[j] = "gate" <=> GateOf(k) \in Gates
           /\ pc'[j] = "settling" <=> k = "disable"
           /\ \A i \in Jobs \ {j} : /\ kind'[i] = kind[i] /\ on'[i] = on[i] /\ pc'[i] = pc[i]
                                    /\ at'[i] = at[i] /\ left'[i] = left[i]
           /\ \A i \in Jobs, s \in Stacks : Holds(i, s) => Holds(i, s)'
<1>1. Joins(j, k, S)
    BY DEF Enters
<1>2. pc'[j] = Entry(k) /\ \A i \in Jobs \ {j} : pc'[i] = pc[i]
    BY DEF Enters, TypeOK
<1> QED
    BY <1>1, <1>2, JoinsFrame, EntryPlaces

-----------------------------------------------------------------------------
(* Jobs are placed, and those that make room wait for one stop each. *)
LEMMA PlacedKept ==
    ASSUME TypeOK, JobsArePlaced, MakersWait, JobStep
    PROVE  JobsArePlaced'
<1> SUFFICES ASSUME NEW i \in Jobs
             PROVE  Placed(i)'
    BY DEF JobsArePlaced
<1>0. Placed(i)
    BY DEF JobsArePlaced
<1>1. CASE JobsQuiet
    BY <1>0, <1>1 DEF Placed, JobsQuiet, jobVars
<1>2. CASE Crash
    BY <1>0, <1>2, CrashFrame DEF Placed, Children
<1>3. ASSUME NEW j \in Jobs, NEW k \in Kinds, NEW S \in SUBSET Stacks, S # {}, NewJob(j, k, S)
      PROVE  Placed(i)'
  <2>1. Enters(j, k, S)
      BY <1>3 DEF NewJob, Enters
  <2> QED
      BY <1>0, <1>3, <2>1, EntersFrame DEF Placed
<1>4. ASSUME NEW j \in Jobs, NEW s \in Stacks, NEW k \in {"recreate", "restart"}, Ask(j, s, k)
      PROVE  Placed(i)'
    BY <1>0, <1>4 DEF Placed, Ask, TypeOK, Kinds
<1>5. ASSUME NEW j \in Jobs, Queues(j)
      PROVE  Placed(i)'
  <2>1. kind[j] \in Kinds /\ on[j] # {} /\ on[j] \in SUBSET Stacks
      BY <1>5 DEF Queues, JobsArePlaced, Placed, TypeOK
  <2>2. Enters(j, kind[j], on[j])
      BY <1>5 DEF Queues, Enters
  <2> QED
      BY <1>0, <2>1, <2>2, EntersFrame DEF Placed
<1>6. ASSUME NEW j \in Jobs, Aborts(j) \/ TakeSlot(j) \/ Disable(j)
      PROVE  Placed(i)'
    BY <1>0, <1>6 DEF Placed, Aborts, TakeSlot, Disable, TypeOK
<1>7. ASSUME NEW j \in Jobs, NEW c \in BOOLEAN, Goes(j, c)
      PROVE  Placed(i)'
  <2>1. CASE i = j
      BY <1>7, <2>1, EndedFrame DEF Goes, Placed
  <2>2. CASE i # j
    <3>1. pc'[i] = pc[i] \/ (pc[i] = "making" /\ pc'[i] \in {"denied", "admit"})
        BY <1>7, <2>2, EndedFrame, LifecycleAssumption DEF Goes, MakersWait
    <3> QED
        BY <1>0, <1>7, <2>2, <3>1, EndedFrame DEF Placed, Goes
  <2> QED
      BY <2>1, <2>2
<1>8. ASSUME NEW j \in Jobs, NEW where \in Places, Moves(j, where)
      PROVE  Placed(i)'
    BY <1>0, <1>8 DEF Placed, Moves, HasTurn, FirstStep, Becomes, TypeOK
<1>9. ASSUME NEW j \in Jobs, NextLock(j)
      PROVE  Placed(i)'
  <2>1. First(left[j]) \in Stacks
      BY <1>9, FirstIsMember DEF TypeOK, NextLock
  <2> QED
      BY <1>0, <1>9, <2>1 DEF Placed, NextLock, TypeOK
<1>10. ASSUME NEW j \in Jobs, pc[j] = "stopping", NextToDisable(j)
      PROVE  Placed(i)'
  <2>1. kind' = kind /\ on' = on
      BY <1>10 DEF NextToDisable
  <2>2. at'[j] \in Stacks
      BY <1>10, NextToDisableType DEF TypeOK
  <2> QED
      BY <1>0, <1>10, <2>1, <2>2, NextToDisableType DEF Placed
<1>11. ASSUME NEW j \in Jobs, NEW s \in Stacks, NEW k \in Jobs, MakeRoom(j, s, k)
      PROVE  Placed(i)'
  <2>1. "room" \in Kinds /\ {s} \in SUBSET Stacks /\ {s} # {}
      BY DEF Kinds
  <2>2. Joins(k, "room", {s}) /\ j # k
      BY <1>11 DEF MakeRoom
  <2>3. pc'[i] = IF i = j THEN "making" ELSE IF i = k THEN Entry("room") ELSE pc[i]
      BY <1>11 DEF MakeRoom
  <2>4. Entry("room") \in {"settling", "lock", "gate"}
        /\ (Entry("room") = "gate" <=> GateOf("room") \in Gates) /\ Entry("room") # "settling"
      BY <2>1, EntryPlaces
  <2>5. kind'[k] = "room" /\ on'[k] = {s} /\ at'[k] \in {s}
      BY <2>1, <2>2, JoinsFrame
  <2>6. \A h \in Jobs \ {k} : kind'[h] = kind[h] /\ on'[h] = on[h] /\ at'[h] = at[h]
      BY <2>1, <2>2, JoinsFrame
  <2>7. pc[j] = "admit"
      BY <1>11 DEF MakeRoom
  <2> QED
      BY <1>0, <2>1, <2>2, <2>3, <2>4, <2>5, <2>6, <2>7 DEF Placed
<1> QED
    BY <1>1, <1>2, <1>3, <1>4, <1>5, <1>6, <1>7, <1>8, <1>9, <1>10, <1>11 DEF JobStep

(* A stop for room is placed beside the jobs there are. *)
LEMMA MakeRoomFrame ==
    ASSUME TypeOK, NEW j \in Jobs, NEW s \in Stacks, NEW k \in Jobs, MakeRoom(j, s, k)
    PROVE  /\ j # k /\ pc[j] = "admit" /\ pc[k] = "none"
           /\ pc'[j] = "making" /\ pc'[k] = "lock" /\ kind'[k] = "room" /\ maker'[k] = j
           /\ \A i \in Jobs \ {j, k} : pc'[i] = pc[i]
           /\ \A i \in Jobs \ {k} : /\ kind'[i] = kind[i] /\ on'[i] = on[i] /\ at'[i] = at[i]
                                    /\ left'[i] = left[i] /\ maker'[i] = maker[i]
           /\ \A i \in Jobs, t \in Stacks : Holds(i, t) => Holds(i, t)'
<1>1. "room" \in Kinds /\ {s} \in SUBSET Stacks /\ {s} # {} /\ Entry("room") = "lock"
    BY LifecycleAssumption DEF Kinds, Entry, GateOf
<1>2. Joins(k, "room", {s}) /\ j # k /\ pc[j] = "admit" /\ pc[k] = "none"
    BY DEF MakeRoom
<1>3. /\ \A i \in Jobs : pc'[i] = IF i = j THEN "making" ELSE IF i = k THEN Entry("room") ELSE pc[i]
      /\ maker' = [maker EXCEPT ![k] = j]
    BY DEF MakeRoom
<1>4. maker'[k] = j /\ \A i \in Jobs \ {k} : maker'[i] = maker[i]
    BY <1>3 DEF TypeOK
<1> QED
    BY <1>1, <1>2, <1>3, <1>4, JoinsFrame

LEMMA MakersKept ==
    ASSUME TypeOK, JobsArePlaced, MakersWait, JobStep
    PROVE  MakersWait'
<1>0. None \notin Jobs
    BY LifecycleAssumption
<1>1. CASE JobsQuiet
    BY <1>1 DEF JobsQuiet, jobVars, MakersWait
<1>2. CASE Crash
    BY <1>2, CrashFrame DEF MakersWait
<1>3. ASSUME NEW j \in Jobs, NEW k \in Kinds, NEW S \in SUBSET Stacks, S # {}, NewJob(j, k, S)
      PROVE  MakersWait'
  <2>1. Enters(j, k, S) /\ maker' = maker /\ pc[j] = "none"
      BY <1>3 DEF NewJob, Enters
  <2>2. \A h \in Jobs : pc[h] = "making" => pc'[h] = "making"
      BY <2>1, <1>3, EntersFrame
  <2> QED
      BY <2>1, <2>2 DEF MakersWait, TypeOK
<1>4. ASSUME NEW j \in Jobs, NEW s \in Stacks, NEW k \in {"recreate", "restart"}, Ask(j, s, k)
      PROVE  MakersWait'
    BY <1>4 DEF Ask, MakersWait, TypeOK
<1>5. ASSUME NEW j \in Jobs, Queues(j) PROVE MakersWait'
  <2>1. kind[j] \in Kinds /\ on[j] # {} /\ on[j] \in SUBSET Stacks
      BY <1>5 DEF Queues, JobsArePlaced, Placed, TypeOK
  <2>2. Enters(j, kind[j], on[j]) /\ maker' = maker /\ pc[j] = "asked"
      BY <1>5 DEF Queues, Enters
  <2>3. \A h \in Jobs : pc[h] = "making" => pc'[h] = "making"
      BY <2>1, <2>2, EntersFrame
  <2> QED
      BY <2>2, <2>3 DEF MakersWait, TypeOK
<1>6. ASSUME NEW j \in Jobs, Aborts(j) \/ TakeSlot(j) \/ NextLock(j) \/ Disable(j)
      PROVE  MakersWait'
    BY <1>6 DEF Aborts, TakeSlot, NextLock, Disable, MakersWait, TypeOK
<1>7. ASSUME NEW j \in Jobs, NEW c \in BOOLEAN, Goes(j, c) PROVE MakersWait'
  <2>1. pc[j] # "making" /\ Ended(j, c)
      BY <1>7 DEF Goes
  <2>2. maker'[j] = None /\ \A i \in Jobs \ {j} : maker'[i] = maker[i]
      BY <2>1, EndedFrame
  <2> SUFFICES ASSUME NEW i \in Jobs, maker'[i] # None
               PROVE  /\ pc'[maker'[i]] = "making"
                      /\ \A h \in Jobs : maker'[h] = maker'[i] => h = i
      BY DEF MakersWait
  <2>3. i # j /\ maker'[i] = maker[i] /\ maker[i] \in Jobs
      BY <2>2 DEF TypeOK
  <2>4. pc[maker[i]] = "making" /\ \A h \in Jobs : maker[h] = maker[i] => h = i
      BY <2>3 DEF MakersWait
  <2>5. maker[i] # j /\ maker[j] # maker[i]
      BY <2>1, <2>3, <2>4
  <2>6. pc'[maker[i]] = pc[maker[i]]
      BY <2>1, <2>3, <2>5, EndedFrame
  <2> QED
      BY <2>2, <2>3, <2>4, <2>6
<1>8. ASSUME NEW j \in Jobs, NEW where \in Places, Moves(j, where) PROVE MakersWait'
    BY <1>8 DEF Moves, HasTurn, Becomes, MakersWait, TypeOK
<1>9. ASSUME NEW j \in Jobs, pc[j] = "stopping", NextToDisable(j) PROVE MakersWait'
  <2>1. maker' = maker
      BY <1>9 DEF NextToDisable
  <2> QED
      BY <1>9, <2>1, NextToDisableType DEF MakersWait, TypeOK
<1>10. ASSUME NEW j \in Jobs, NEW s \in Stacks, NEW k \in Jobs, MakeRoom(j, s, k)
       PROVE  MakersWait'
  <2> SUFFICES ASSUME NEW i \in Jobs, maker'[i] # None
               PROVE  /\ pc'[maker'[i]] = "making"
                      /\ \A h \in Jobs : maker'[h] = maker'[i] => h = i
      BY DEF MakersWait
  <2>1. \A h \in Jobs : maker[h] # None =>
            /\ maker[h] \in Jobs /\ pc[maker[h]] = "making" /\ maker[h] # j /\ maker[h] # k
            /\ pc'[maker[h]] = "making"
      BY <1>10, MakeRoomFrame DEF MakersWait, TypeOK
  <2>2. CASE i = k
      BY <1>10, <2>1, <2>2, <1>0, MakeRoomFrame
  <2>3. CASE i # k
    <3>1. maker'[i] = maker[i] /\ maker'[k] = j
        BY <1>10, <2>3, MakeRoomFrame
    <3>2. \A h \in Jobs \ {k} : maker'[h] = maker[h]
        BY <1>10, MakeRoomFrame
    <3> QED
        BY <2>1, <3>1, <3>2 DEF MakersWait
  <2> QED
      BY <2>2, <2>3
<1> QED
    BY <1>1, <1>2, <1>3, <1>4, <1>5, <1>6, <1>7, <1>8, <1>9, <1>10 DEF JobStep

-----------------------------------------------------------------------------
(* Workers hold the locks of the stacks they work on. *)
LEMMA MoversHoldLocks ==
    ASSUME TypeOK, JobsArePlaced, NEW j \in Jobs, NEW where \in Places, Moves(j, where),
           WorkersHoldLocks
    PROVE  /\ pc[j] # "making" /\ where \notin {"lock", "none", "asked", "gate", "settling"}
           /\ \A s \in WorksOn(j) : Holds(j, s)
<1>1. CASE HasTurn(j) /\ where = FirstStep(j)
  <2>1. Holds(j, at[j]) /\ pc[j] = "lock"
      BY <1>1 DEF HasTurn, HasLock
  <2>2. kind[j] = "destroy" => \A s \in on[j] \ {at[j]} : Holds(j, s)
      BY <1>1 DEF HasTurn, WorkersHoldLocks
  <2> QED
      BY <1>1, <2>1, <2>2 DEF FirstStep, WorksOn
<1>2. CASE ~ (HasTurn(j) /\ where = FirstStep(j))
  <2>1. AtWork(j) /\ pc[j] # "making" /\ where \in {"starting", "verifying", "destroying", "admit"}
      BY <1>2 DEF Moves, AtWork
  <2> QED
      BY <2>1 DEF WorkersHoldLocks
<1> QED
    BY <1>1, <1>2

(* A worker, or a destroy that waits for its next lock. *)
Secured(j) ==
    /\ AtWork(j) => \A s \in WorksOn(j) : Holds(j, s)
    /\ kind[j] = "destroy" /\ pc[j] = "lock"
          => \A s \in on[j] \ (left[j] \cup {at[j]}) : Holds(j, s)

(* Whoever works and is left alone stays secured. *)
LEMMA Bystander ==
    ASSUME TypeOK, JobsArePlaced, WorkersHoldLocks, NEW i \in Jobs,
           kind'[i] = kind[i], on'[i] = on[i], at'[i] = at[i], left'[i] = left[i],
           AtWork(i)' => AtWork(i), pc'[i] = "lock" => pc[i] = "lock",
           \A s \in Stacks : Holds(i, s) => Holds(i, s)'
    PROVE  Secured(i)'
<1>1. Secured(i)
    BY DEF WorkersHoldLocks, Secured
<1>2. on[i] \in SUBSET Stacks /\ (AtWork(i) => at[i] \in Stacks)
    BY DEF TypeOK, JobsArePlaced, Placed, AtWork
<1>3. AtWork(i)' => \A s \in WorksOn(i)' : Holds(i, s)'
    BY <1>1, <1>2 DEF Secured, WorksOn
<1>4. kind'[i] = "destroy" /\ pc'[i] = "lock"
         => \A s \in on'[i] \ (left'[i] \cup {at'[i]}) : Holds(i, s)'
    BY <1>1, <1>2 DEF Secured
<1> QED
    BY <1>3, <1>4 DEF Secured

LEMMA LocksKept ==
    ASSUME TypeOK, JobsArePlaced, MakersWait, WorkersHoldLocks, JobStep
    PROVE  WorkersHoldLocks'
<1> SUFFICES ASSUME NEW i \in Jobs PROVE Secured(i)'
    BY DEF WorkersHoldLocks, Secured
<1>1. CASE JobsQuiet
  <2>1. Secured(i)
      BY DEF WorkersHoldLocks, Secured
  <2> QED
      BY <1>1, <2>1 DEF JobsQuiet, jobVars, Secured, AtWork, WorksOn, Holds
<1>2. CASE Crash
    BY <1>2, CrashFrame DEF Secured, AtWork
<1>3. ASSUME NEW j \in Jobs, NEW k \in Kinds, NEW S \in SUBSET Stacks, S # {}, Enters(j, k, S)
      PROVE  Secured(i)'
  <2>1. CASE i = j
      BY <1>3, <2>1, EntersFrame DEF Secured, AtWork
  <2>2. CASE i # j
      BY <1>3, <2>2, EntersFrame, Bystander DEF AtWork
  <2> QED
      BY <2>1, <2>2
<1>4. ASSUME NEW j \in Jobs, NEW s \in Stacks, NEW k \in {"recreate", "restart"}, Ask(j, s, k)
      PROVE  Secured(i)'
  <2>1. CASE i = j
      BY <1>4, <2>1 DEF Ask, Secured, AtWork, TypeOK
  <2>2. CASE i # j
    <3>1. \A t \in Stacks : Holds(i, t) => Holds(i, t)'
        BY <1>4 DEF Ask, Holds
    <3> QED
        BY <1>4, <2>2, <3>1, Bystander DEF Ask, AtWork, TypeOK
  <2> QED
      BY <2>1, <2>2
<1>5. ASSUME NEW j \in Jobs, Queues(j) PROVE Secured(i)'
  <2>1. kind[j] \in Kinds /\ on[j] # {} /\ on[j] \in SUBSET Stacks
      BY <1>5 DEF Queues, JobsArePlaced, Placed, TypeOK
  <2>2. Enters(j, kind[j], on[j])
      BY <1>5 DEF Queues, Enters
  <2> QED
      BY <1>3, <2>1, <2>2
<1>6. ASSUME NEW j \in Jobs, Aborts(j) PROVE Secured(i)'
  <2>1. \A t \in Stacks : Holds(i, t) => Holds(i, t)'
      BY <1>6 DEF Aborts, Holds
  <2> QED
      BY <1>6, <2>1, Bystander DEF Aborts, AtWork
<1>7. ASSUME NEW j \in Jobs, NEW c \in BOOLEAN, Goes(j, c) PROVE Secured(i)'
  <2>0. Ended(j, c)
      BY <1>7 DEF Goes
  <2>1. CASE i = j
      BY <2>0, <2>1, EndedFrame DEF Secured, AtWork
  <2>2. CASE i # j
    <3>1. pc'[i] = pc[i] \/ (pc[i] = "making" /\ pc'[i] \in {"denied", "admit"})
        BY <2>0, <2>2, EndedFrame, LifecycleAssumption DEF MakersWait
    <3> QED
        BY <2>0, <2>2, <3>1, EndedFrame, Bystander DEF AtWork
  <2> QED
      BY <2>1, <2>2
<1>8. ASSUME NEW j \in Jobs, NEW where \in Places, Moves(j, where) PROVE Secured(i)'
  <2>1. /\ pc' = [pc EXCEPT ![j] = where]
        /\ UNCHANGED <<kind, on, at, left, lock>>
      BY <1>8 DEF Moves, Becomes
  <2>2. \A h \in Jobs, t \in Stacks : Holds(h, t) => Holds(h, t)'
      BY <2>1 DEF Holds
  <2>3. CASE i = j
    <3>1. pc'[i] = where /\ where # "lock" /\ \A t \in WorksOn(i) : Holds(i, t)
        BY <1>8, <2>1, <2>3, MoversHoldLocks DEF TypeOK
    <3>2. WorksOn(i)' = WorksOn(i)
        BY <2>1 DEF WorksOn
    <3>3. \A t \in WorksOn(i) : Holds(i, t)'
        BY <2>1, <3>1 DEF Holds
    <3> QED
        BY <3>1, <3>2, <3>3 DEF Secured
  <2>4. CASE i # j
      BY <2>1, <2>2, <2>4, Bystander DEF TypeOK, AtWork
  <2> QED
      BY <2>3, <2>4
<1>9. ASSUME NEW j \in Jobs, TakeSlot(j) \/ Disable(j) PROVE Secured(i)'
  <2>1. /\ pc' = [pc EXCEPT ![j] = "lock"]
        /\ lock' = [lock EXCEPT ![at[j]] = Append(@, j)]
        /\ UNCHANGED <<kind, on, at, left>>
      BY <1>9 DEF TakeSlot, Disable
  <2>2. at[j] \in Stacks /\ kind[j] # "destroy"
      BY <1>9, LifecycleAssumption DEF TakeSlot, Disable, JobsArePlaced, Placed, GateOf, Gates
  <2>3. ASSUME NEW t \in Stacks, Holds(i, t) PROVE Holds(i, t)'
    <3>1. lock[t] \in Seq(Jobs) /\ lock[t] # <<>> /\ Head(lock[t]) = i
        BY <2>3 DEF TypeOK, Holds
    <3>2. lock'[t] = lock[t] \/ lock'[t] = Append(lock[t], j)
        BY <2>1, <2>2 DEF TypeOK
    <3> QED
        BY <3>1, <3>2 DEF Holds
  <2>4. CASE i = j
      BY <2>1, <2>2, <2>4 DEF TypeOK, Secured, AtWork
  <2>5. CASE i # j
      BY <2>1, <2>3, <2>5, Bystander DEF TypeOK, AtWork
  <2> QED
      BY <2>4, <2>5
<1>10. ASSUME NEW j \in Jobs, NextLock(j) PROVE Secured(i)'
  <2> DEFINE s == First(left[j])
  <2>1. s \in left[j] /\ s \in Stacks /\ Holds(j, at[j]) /\ pc[j] = "lock"
      BY <1>10, FirstIsMember DEF TypeOK, NextLock, HasLock
  <2> HIDE DEF s
  <2>2. /\ at' = [at EXCEPT ![j] = s]
        /\ left' = [left EXCEPT ![j] = @ \ {s}]
        /\ lock' = [lock EXCEPT ![s] = Append(@, j)]
        /\ UNCHANGED <<kind, on, pc>>
      BY <1>10 DEF NextLock, s
  <2>3. ASSUME NEW t \in Stacks, Holds(i, t) PROVE Holds(i, t)'
    <3>1. lock[t] \in Seq(Jobs) /\ lock[t] # <<>> /\ Head(lock[t]) = i
        BY <2>3 DEF TypeOK, Holds
    <3>2. lock'[t] = lock[t] \/ lock'[t] = Append(lock[t], j)
        BY <2>1, <2>2 DEF TypeOK
    <3> QED
        BY <3>1, <3>2 DEF Holds
  <2>4. CASE i = j
    <3>1. at'[i] = s /\ left'[i] = left[i] \ {s} /\ on'[i] = on[i] /\ pc'[i] = "lock"
        BY <2>1, <2>2, <2>4 DEF TypeOK
    <3>2. kind[i] = "destroy" => \A t \in on[i] \ (left[i] \cup {at[i]}) : Holds(i, t)
        BY <2>1, <2>4 DEF WorkersHoldLocks
    <3>3. at[i] \in Stacks /\ on[i] \subseteq Stacks
        BY <2>1, <2>4 DEF TypeOK, JobsArePlaced, Placed
    <3>4. kind[i] = "destroy" => \A t \in on'[i] \ (left'[i] \cup {at'[i]}) : Holds(i, t)'
        BY <2>1, <2>3, <2>4, <3>1, <3>2, <3>3
    <3> QED
        BY <2>2, <3>1, <3>4 DEF Secured, AtWork
  <2>5. CASE i # j
      BY <2>2, <2>3, <2>5, Bystander DEF TypeOK, AtWork
  <2> QED
      BY <2>4, <2>5
<1>11. ASSUME NEW j \in Jobs, pc[j] = "stopping", NextToDisable(j) PROVE Secured(i)'
  <2>1. kind' = kind /\ on' = on /\ kind[j] = "disable"
      BY <1>11 DEF NextToDisable
  <2>2. CASE i = j
      BY <1>11, <2>1, <2>2, NextToDisableType DEF Secured, AtWork
  <2>3. CASE i # j
      BY <1>11, <2>1, <2>3, NextToDisableType, Bystander DEF AtWork
  <2> QED
      BY <2>2, <2>3
<1>12. ASSUME NEW j \in Jobs, NEW s \in Stacks, NEW k \in Jobs, MakeRoom(j, s, k)
       PROVE  Secured(i)'
  <2>1. CASE i = k
      BY <1>12, <2>1, MakeRoomFrame DEF Secured, AtWork
  <2>2. CASE i # k
    <3>1. /\ AtWork(i)' => AtWork(i)
          /\ pc'[i] = "lock" => pc[i] = "lock"
        BY <1>12, <2>2, MakeRoomFrame DEF AtWork
    <3> QED
        BY <1>12, <2>2, <3>1, MakeRoomFrame, Bystander
  <2> QED
      BY <2>1, <2>2
<1>13. ASSUME NEW j \in Jobs, NEW k \in Kinds, NEW S \in SUBSET Stacks, S # {}, NewJob(j, k, S)
       PROVE  Secured(i)'
    BY <1>3, <1>13 DEF NewJob, Enters
<1> QED
    BY <1>1, <1>2, <1>13, <1>4, <1>5, <1>6, <1>7, <1>8, <1>9, <1>10, <1>11, <1>12 DEF JobStep

-----------------------------------------------------------------------------
(* Gates: only TakeSlot brings a job inside one. *)
LEMMA InsideFinite ==
    ASSUME NEW g \in Gates
    PROVE  IsFiniteSet(Inside(g)) /\ Cardinality(Inside(g)) \in Nat
<1>1. Inside(g) \subseteq Jobs
    BY DEF Inside, Active
<1> QED
    BY <1>1, FS_Subset, FS_CardinalityType, LifecycleAssumption

LEMMA InsideShrinks ==
    ASSUME TypeOK, SlotsRespected, NEW g \in Gates, Inside(g)' \subseteq Inside(g)
    PROVE  Cardinality(Inside(g)') <= Slots[g]
<1>1. Cardinality(Inside(g)') <= Cardinality(Inside(g)) /\ Cardinality(Inside(g)') \in Nat
    BY InsideFinite, FS_Subset, FS_CardinalityType
<1>2. Cardinality(Inside(g)) <= Slots[g] /\ Cardinality(Inside(g)) \in Nat /\ Slots[g] \in Nat
    BY InsideFinite, LifecycleAssumption DEF SlotsRespected, Slots, Gates
<1> QED
    BY <1>1, <1>2

(* A job is inside a gate when it is of the gate's kind and further on. *)
Within(j, g) ==
    /\ pc[j] \notin {"none", "asked", "gate", "adopted start", "adopted stop"}
    /\ GateOf(kind[j]) = g

LEMMA InsideIsWithin ==
    ASSUME NEW g \in Gates
    PROVE  /\ \A j \in Jobs : j \in Inside(g) <=> Within(j, g)
           /\ \A j \in Inside(g) : j \in Jobs
<1> QED
    BY DEF Inside, Within, Active, Adopted

LEMMA SlotsKept ==
    ASSUME TypeOK, JobsArePlaced, MakersWait, SlotsRespected, JobStep
    PROVE  SlotsRespected'
<1> SUFFICES ASSUME NEW g \in Gates PROVE Cardinality(Inside(g)') <= Slots[g]
    BY DEF SlotsRespected, Slots
<1>0. g # None
    BY LifecycleAssumption
<1>1. ASSUME \A i \in Jobs : Within(i, g)' => Within(i, g)
      PROVE  Cardinality(Inside(g)') <= Slots[g]
  <2>1. \A i \in Inside(g)' : i \in Jobs /\ Within(i, g)'
      BY DEF Inside, Within, Active, Adopted
  <2>2. Inside(g)' \subseteq Inside(g)
      BY <1>1, <2>1, InsideIsWithin
  <2> QED
      BY <2>2, InsideShrinks
<1>2. CASE JobsQuiet
    BY <1>1, <1>2 DEF JobsQuiet, jobVars, Within
<1>3. CASE Crash
  <2>1. \A i \in Jobs : pc'[i] \in {"none", "adopted start", "adopted stop"}
      BY <1>3, CrashFrame
  <2> QED
      BY <1>1, <2>1 DEF Within
<1>4. ASSUME NEW j \in Jobs, NEW k \in Kinds, NEW S \in SUBSET Stacks, S # {}, Enters(j, k, S)
      PROVE  Cardinality(Inside(g)') <= Slots[g]
  <2>1. ASSUME NEW i \in Jobs, Within(i, g)' PROVE Within(i, g)
      BY <1>4, <2>1, EntersFrame DEF Within
  <2> QED
      BY <1>1, <2>1
<1>5. ASSUME NEW j \in Jobs, NEW k \in Kinds, NEW S \in SUBSET Stacks, S # {}, NewJob(j, k, S)
      PROVE  Cardinality(Inside(g)') <= Slots[g]
    BY <1>4, <1>5 DEF NewJob, Enters
<1>6. ASSUME NEW j \in Jobs, NEW s \in Stacks, NEW k \in {"recreate", "restart"}, Ask(j, s, k)
      PROVE  Cardinality(Inside(g)') <= Slots[g]
  <2>1. \A i \in Jobs : Within(i, g)' => Within(i, g)
      BY <1>6 DEF Ask, Within, TypeOK
  <2> QED
      BY <1>1, <2>1
<1>7. ASSUME NEW j \in Jobs, Queues(j) PROVE Cardinality(Inside(g)') <= Slots[g]
  <2>1. kind[j] \in Kinds /\ on[j] # {} /\ on[j] \in SUBSET Stacks
      BY <1>7 DEF Queues, JobsArePlaced, Placed, TypeOK
  <2> QED
      BY <1>4, <1>7, <2>1 DEF Queues, Enters
<1>8. ASSUME NEW j \in Jobs, Aborts(j) \/ NextLock(j)
      PROVE  Cardinality(Inside(g)') <= Slots[g]
    BY <1>1, <1>8 DEF Aborts, NextLock, Within
<1>9. ASSUME NEW j \in Jobs, NEW c \in BOOLEAN, Goes(j, c) PROVE Cardinality(Inside(g)') <= Slots[g]
  <2>1. ASSUME NEW i \in Jobs, Within(i, g)' PROVE Within(i, g)
    <3>1. i # j
        BY <1>9, <2>1, EndedFrame DEF Goes, Within
    <3>2. pc'[i] = pc[i] \/ (pc[i] = "making" /\ pc'[i] \in {"denied", "admit"})
        BY <1>9, <3>1, EndedFrame, LifecycleAssumption DEF Goes, MakersWait
    <3> QED
        BY <1>9, <2>1, <3>1, <3>2, EndedFrame DEF Goes, Within
  <2> QED
      BY <1>1, <2>1
<1>10. ASSUME NEW j \in Jobs, NEW where \in Places, Moves(j, where)
       PROVE  Cardinality(Inside(g)') <= Slots[g]
  <2>1. \A i \in Jobs : Within(i, g)' => Within(i, g)
      BY <1>10 DEF Moves, HasTurn, Becomes, Within, TypeOK
  <2> QED
      BY <1>1, <2>1
<1>11. ASSUME NEW j \in Jobs, Disable(j) PROVE Cardinality(Inside(g)') <= Slots[g]
  <2>1. kind[j] = "disable" /\ GateOf("disable") = None
      BY <1>11 DEF Disable, JobsArePlaced, Placed, GateOf
  <2>2. \A i \in Jobs : Within(i, g)' => Within(i, g)
      BY <1>0, <1>11, <2>1 DEF Disable, Within, TypeOK
  <2> QED
      BY <1>1, <2>2
<1>12. ASSUME NEW j \in Jobs, pc[j] = "stopping", NextToDisable(j)
       PROVE  Cardinality(Inside(g)') <= Slots[g]
  <2>1. kind' = kind
      BY <1>12 DEF NextToDisable
  <2>2. \A i \in Jobs : Within(i, g)' => Within(i, g)
      BY <1>12, <2>1, NextToDisableType DEF Within
  <2> QED
      BY <1>1, <2>2
<1>13. ASSUME NEW j \in Jobs, NEW s \in Stacks, NEW k \in Jobs, MakeRoom(j, s, k)
       PROVE  Cardinality(Inside(g)') <= Slots[g]
  <2>1. GateOf("room") = None
      BY DEF GateOf
  <2>2. ASSUME NEW i \in Jobs, Within(i, g)' PROVE Within(i, g)
    <3>0. kind'[k] = "room"
        BY <1>13, MakeRoomFrame
    <3>1. i # k
        BY <1>0, <2>1, <2>2, <3>0 DEF Within
    <3>2. kind'[i] = kind[i] /\ (pc'[i] = pc[i] \/ pc[i] = "admit")
        BY <1>13, <3>1, MakeRoomFrame
    <3> QED
        BY <2>2, <3>1, <3>2 DEF Within
  <2> QED
      BY <1>1, <2>2
<1>14. ASSUME NEW j \in Jobs, TakeSlot(j) PROVE Cardinality(Inside(g)') <= Slots[g]
  <2>1. pc' = [pc EXCEPT ![j] = "lock"] /\ kind' = kind /\ pc[j] = "gate"
      BY <1>14 DEF TakeSlot
  <2>2. \A i \in Jobs \ {j} : Within(i, g)' <=> Within(i, g)
      BY <2>1 DEF Within, TypeOK
  <2>3. CASE GateOf(kind[j]) # g
    <3>1. \A i \in Jobs : Within(i, g)' => Within(i, g)
        BY <2>1, <2>2, <2>3 DEF Within
    <3> QED
        BY <1>1, <3>1
  <2>4. CASE GateOf(kind[j]) = g
    <3>1. Cardinality(Inside(g)) < Slots[g]
        BY <1>14, <2>4 DEF TakeSlot
    <3>2. \A i \in Inside(g)' : i \in Jobs /\ Within(i, g)'
        BY DEF Inside, Within, Active, Adopted
    <3>3. Inside(g)' \subseteq Inside(g) \cup {j}
        BY <2>2, <3>2, InsideIsWithin
    <3>4. j \notin Inside(g)
        BY <2>1, InsideIsWithin DEF Within
    <3>5. /\ IsFiniteSet(Inside(g) \cup {j})
          /\ Cardinality(Inside(g) \cup {j}) = Cardinality(Inside(g)) + 1
        BY <3>4, InsideFinite, FS_AddElement
    <3>6. /\ Cardinality(Inside(g)') <= Cardinality(Inside(g) \cup {j})
          /\ Cardinality(Inside(g)') \in Nat
        BY <3>3, <3>5, FS_Subset, FS_CardinalityType
    <3>7. Slots[g] \in Nat
        BY LifecycleAssumption DEF Slots, Gates
    <3> QED
        BY <3>1, <3>5, <3>6, <3>7, InsideFinite
  <2> QED
      BY <2>3, <2>4
<1> QED
    BY <1>2, <1>3, <1>5, <1>6, <1>7, <1>8, <1>9, <1>10, <1>11, <1>12, <1>13, <1>14 DEF JobStep

-----------------------------------------------------------------------------
(* Starts, and what a turn-off waits for. *)
LEMMA StartersKept ==
    ASSUME TypeOK, JobsArePlaced, MakersWait, StartersAreKnown, JobStep
    PROVE  StartersAreKnown'
<1> DEFINE Starter(i) == pc[i] \in {"admit", "making", "denied", "starting", "verifying",
                                    "adopted start"}
<1> SUFFICES ASSUME NEW i \in Jobs, Starter(i)' PROVE kind'[i] \in StartingKinds
    BY DEF StartersAreKnown, StartingKinds
<1>0. Starter(i) => kind[i] \in StartingKinds
    BY DEF StartersAreKnown
<1>1. CASE JobsQuiet
    BY <1>0, <1>1 DEF JobsQuiet, jobVars
<1>2. CASE Crash
    BY <1>0, <1>2, CrashFrame DEF Children
<1>3. ASSUME NEW j \in Jobs, NEW k \in Kinds, NEW S \in SUBSET Stacks, S # {}, Enters(j, k, S)
      PROVE  kind'[i] \in StartingKinds
    BY <1>0, <1>3, EntersFrame
<1>4. ASSUME NEW j \in Jobs, NEW k \in Kinds, NEW S \in SUBSET Stacks, S # {}, NewJob(j, k, S)
      PROVE  kind'[i] \in StartingKinds
    BY <1>3, <1>4 DEF NewJob, Enters
<1>5. ASSUME NEW j \in Jobs, NEW s \in Stacks, NEW k \in {"recreate", "restart"}, Ask(j, s, k)
      PROVE  kind'[i] \in StartingKinds
    BY <1>0, <1>5 DEF Ask, TypeOK
<1>6. ASSUME NEW j \in Jobs, Queues(j) PROVE kind'[i] \in StartingKinds
  <2>1. kind[j] \in Kinds /\ on[j] # {} /\ on[j] \in SUBSET Stacks
      BY <1>6 DEF Queues, JobsArePlaced, Placed, TypeOK
  <2> QED
      BY <1>3, <1>6, <2>1 DEF Queues, Enters
<1>7. ASSUME NEW j \in Jobs, Aborts(j) \/ TakeSlot(j) \/ NextLock(j) \/ Disable(j)
      PROVE  kind'[i] \in StartingKinds
    BY <1>0, <1>7 DEF Aborts, TakeSlot, NextLock, Disable, TypeOK
<1>8. ASSUME NEW j \in Jobs, NEW c \in BOOLEAN, Goes(j, c) PROVE kind'[i] \in StartingKinds
  <2>1. i # j /\ kind'[i] = kind[i]
      BY <1>8, EndedFrame DEF Goes
  <2>2. pc'[i] = pc[i] \/ pc[i] = "making"
      BY <1>8, <2>1, EndedFrame, LifecycleAssumption DEF Goes, MakersWait
  <2> QED
      BY <1>0, <2>1, <2>2
<1>9. ASSUME NEW j \in Jobs, NEW where \in Places, Moves(j, where)
      PROVE  kind'[i] \in StartingKinds
    BY <1>0, <1>9 DEF Moves, FirstStep, Becomes, StartingKinds, TypeOK
<1>10. ASSUME NEW j \in Jobs, pc[j] = "stopping", NextToDisable(j)
       PROVE  kind'[i] \in StartingKinds
  <2>1. kind' = kind
      BY <1>10 DEF NextToDisable
  <2> QED
      BY <1>0, <1>10, <2>1, NextToDisableType
<1>11. ASSUME NEW j \in Jobs, NEW s \in Stacks, NEW k \in Jobs, MakeRoom(j, s, k)
       PROVE  kind'[i] \in StartingKinds
  <2>1. pc[j] = "admit" /\ pc'[k] = "lock"
      BY ONLY <1>11, TypeOK, MakeRoomFrame
  <2>2. i \notin {j, k} => pc'[i] = pc[i]
      BY ONLY <1>11, TypeOK, i \in Jobs, MakeRoomFrame
  <2>3. i # k => kind'[i] = kind[i]
      BY ONLY <1>11, TypeOK, i \in Jobs, MakeRoomFrame
  <2> QED
      BY <1>0, <2>1, <2>2, <2>3
<1> QED
    BY <1>1, <1>2, <1>4, <1>5, <1>6, <1>7, <1>8, <1>9, <1>10, <1>11 DEF JobStep

(* While the feature is off, no start begins. *)
LEMMA NoStartBegins ==
    ASSUME TypeOK, JobsArePlaced, MakersWait, StartersAreKnown, NoStartBegun, ~ enabled, JobStep
    PROVE  NoStartBegun'
<1> SUFFICES ASSUME NEW i \in Jobs, pc'[i] \notin {"none", "asked"}, kind'[i] \in StartingKinds
             PROVE  pc'[i] \in {"gate", "lock"}
    BY DEF NoStartBegun, Active, StartingKinds
<1>0. /\ pc[i] \notin {"none", "asked"} /\ kind[i] \in StartingKinds => pc[i] \in {"gate", "lock"}
      /\ pc[i] # "making" /\ pc[i] # "admit"
    BY DEF NoStartBegun, Active, StartersAreKnown
<1>1. CASE JobsQuiet
    BY <1>0, <1>1 DEF JobsQuiet, jobVars
<1>2. CASE Crash
    BY <1>0, <1>2, CrashFrame DEF Children
<1>3. ASSUME NEW j \in Jobs, NEW k \in Kinds, NEW S \in SUBSET Stacks, S # {}, Enters(j, k, S)
      PROVE  pc'[i] \in {"gate", "lock"}
  <2>1. k \in StartingKinds => k # "disable"
      BY DEF StartingKinds
  <2> QED
      BY <1>0, <1>3, <2>1, EntersFrame
<1>4. ASSUME NEW j \in Jobs, NEW k \in Kinds, NEW S \in SUBSET Stacks, S # {}, NewJob(j, k, S)
      PROVE  pc'[i] \in {"gate", "lock"}
    BY <1>3, <1>4 DEF NewJob, Enters
<1>5. ASSUME NEW j \in Jobs, NEW s \in Stacks, NEW k \in {"recreate", "restart"}, Ask(j, s, k)
      PROVE  pc'[i] \in {"gate", "lock"}
    BY <1>0, <1>5 DEF Ask, TypeOK
<1>6. ASSUME NEW j \in Jobs, Queues(j) PROVE pc'[i] \in {"gate", "lock"}
  <2>1. kind[j] \in Kinds /\ on[j] # {} /\ on[j] \in SUBSET Stacks
      BY <1>6 DEF Queues, JobsArePlaced, Placed, TypeOK
  <2> QED
      BY <1>3, <1>6, <2>1 DEF Queues, Enters
<1>7. ASSUME NEW j \in Jobs, Aborts(j) \/ TakeSlot(j) \/ NextLock(j) \/ Disable(j)
      PROVE  pc'[i] \in {"gate", "lock"}
    BY <1>0, <1>7 DEF Aborts, TakeSlot, NextLock, Disable, TypeOK
<1>8. ASSUME NEW j \in Jobs, NEW c \in BOOLEAN, Goes(j, c) PROVE pc'[i] \in {"gate", "lock"}
  <2>1. i # j /\ kind'[i] = kind[i]
      BY <1>8, EndedFrame DEF Goes
  <2>2. pc'[i] = pc[i] \/ pc[i] = "making"
      BY <1>8, <2>1, EndedFrame, LifecycleAssumption DEF Goes, MakersWait
  <2> QED
      BY <1>0, <2>1, <2>2
<1>9. ASSUME NEW j \in Jobs, NEW where \in Places, Moves(j, where)
      PROVE  pc'[i] \in {"gate", "lock"}
  <2>1. kind' = kind /\ pc' = [pc EXCEPT ![j] = where]
      BY <1>9 DEF Moves, Becomes
  <2>2. CASE i # j
      BY <1>0, <2>1, <2>2 DEF TypeOK
  <2>3. CASE i = j
    <3>1. kind[j] \in StartingKinds /\ kind[j] # "disable"
        BY <2>1, <2>3 DEF StartingKinds
    <3>2. CalledOff(j)
        BY <3>1 DEF CalledOff
    <3>3. pc[j] \notin {"admit", "starting", "stopping", "destroying"}
        BY <1>0, <2>3, <3>1
    <3> QED
        BY <1>9, <3>2, <3>3 DEF Moves
  <2> QED
      BY <2>2, <2>3
<1>10. ASSUME NEW j \in Jobs, pc[j] = "stopping", NextToDisable(j)
       PROVE  pc'[i] \in {"gate", "lock"}
  <2>1. kind' = kind
      BY <1>10 DEF NextToDisable
  <2> QED
      BY <1>0, <1>10, <2>1, NextToDisableType
<1>11. ASSUME NEW j \in Jobs, NEW s \in Stacks, NEW k \in Jobs, MakeRoom(j, s, k)
       PROVE  pc'[i] \in {"gate", "lock"}
  <2>1. pc[j] = "admit"
      BY <1>11, MakeRoomFrame
  <2> QED
      BY <2>1 DEF NoStartBegun, Active, StartersAreKnown
<1> QED
    BY <1>1, <1>2, <1>4, <1>5, <1>6, <1>7, <1>8, <1>9, <1>10, <1>11 DEF JobStep

(* How a step changes the switch, the stacks that run and those that were  *)
(* stopped.                                                                *)
LEMMA EngineSteps ==
    ASSUME TypeOK, JobsArePlaced, [Next]_vars
    PROVE  \/ enabled' = enabled /\ down' = down /\ up' \subseteq up
           \/ down' = {}
           \/ \E j \in Jobs : pc[j] = "starting" /\ enabled' = enabled /\ down' = down
           \/ \E j \in Jobs : j \in Adopted /\ enabled' = enabled /\ down' = down
                /\ (up' \subseteq up \/ pc[j] = "adopted start" \/ kind[j] = "restart")
           \/ \E j \in Jobs : /\ Stops(j) /\ enabled' = enabled
                              /\ kind[j] = "disable" /\ pc[j] = "stopping" /\ ~ enabled
                              /\ down' = down \cup {at[j]} /\ up' = up \ {at[j]}
           \/ \E s \in Stacks : /\ enabled' = enabled
                                /\ down' = down \ {s} /\ up' = up \cup {s}
<1> DEFINE G ==
           \/ enabled' = enabled /\ down' = down /\ up' \subseteq up
           \/ down' = {}
           \/ \E j \in Jobs : pc[j] = "starting" /\ enabled' = enabled /\ down' = down
           \/ \E j \in Jobs : j \in Adopted /\ enabled' = enabled /\ down' = down
                /\ (up' \subseteq up \/ pc[j] = "adopted start" \/ kind[j] = "restart")
           \/ \E j \in Jobs : /\ Stops(j) /\ enabled' = enabled
                              /\ kind[j] = "disable" /\ pc[j] = "stopping" /\ ~ enabled
                              /\ down' = down \cup {at[j]} /\ up' = up \ {at[j]}
           \/ \E s \in Stacks : /\ enabled' = enabled
                                /\ down' = down \ {s} /\ up' = up \cup {s}
<1>1. CASE UNCHANGED vars
    BY <1>1 DEF vars, engineVars, stackVars
<1>2. CASE World
  <2>1. CASE TurnOff \/ TurnOn \/ Refresh \/ \E s \in Stacks : Hold(s) \/ Unhold(s)
      BY <2>1 DEF TurnOff, TurnOn, Refresh, Hold, Unhold, engineVars, stackVars
  <2>2. CASE \E j \in Jobs : TurnedOff(j)
      BY <2>2 DEF TurnedOff
  <2>3. CASE Crash
      BY <2>3, CrashFrame
  <2>4. CASE \E s \in Stacks, way \in {"up", "down"} : StrayActs(s, way)
      BY <2>4 DEF StrayActs
  <2> QED
      BY <1>2, <2>1, <2>2, <2>3, <2>4 DEF World
<1>3. ASSUME NEW j \in Jobs, Request(j) PROVE G
    BY <1>3 DEF Request, Ensure, Ask, Stop, StopWhenDue, Destroy, Cancel, engineVars, stackVars
<1>4. ASSUME NEW j \in Jobs, Work(j) PROVE G
  <2>1. CASE \/ Operate(j) \/ TakeSlot(j) \/ NextLock(j) \/ CallOff(j) \/ SkipStop(j) \/ Begin(j)
             \/ Allow(j) \/ Refuse(j) \/ \E s \in Stacks, k \in Jobs : MakeRoom(j, s, k)
      BY <2>1 DEF Operate, TakeSlot, NextLock, CallOff, SkipStop, Begin, Allow, Refuse, MakeRoom,
                  engineVars, stackVars
  <2>2. CASE StartFails(j) \/ StopFails(j) \/ Destroys(j) \/ Disable(j) \/ Verified(j)
      BY <2>2 DEF StartFails, StopFails, Destroys, Disable, Verified, engineVars, stackVars
  <2>3. CASE Starts(j)
      BY <2>3 DEF Starts, engineVars
  <2>4. CASE Stops(j)
      BY <2>4 DEF Stops
  <2>5. CASE AdoptedEnds(j)
    <3>1. /\ j \in Adopted /\ enabled' = enabled /\ down' = down
          /\ \/ up' \subseteq up
             \/ <<at[j], "up">> \in MayDo(j)
        BY <2>5 DEF AdoptedEnds, engineVars
    <3>2. <<at[j], "up">> \in MayDo(j) => pc[j] \in {"starting", "adopted start"} \/ kind[j] = "restart"
        BY DEF MayDo
    <3> QED
        BY <3>1, <3>2 DEF Adopted
  <2> QED
      BY <1>4, <2>1, <2>2, <2>3, <2>4, <2>5 DEF Work
<1> QED
    BY <1>1, <1>2, <1>3, <1>4 DEF Next

(* The switch goes on only when no turn-off is still stopping stacks. *)
LEMMA SwitchSteps ==
    ASSUME [Next]_vars
    PROVE  \/ enabled' = enabled
           \/ ~ enabled' /\ \E j \in Jobs : TurnedOff(j)
           \/ enabled' /\ ~ Disabling /\ JobsQuiet
<1>1. CASE UNCHANGED vars
    BY <1>1 DEF vars, engineVars
<1>2. CASE World
  <2>1. CASE Crash
      BY <2>1, CrashFrame
  <2>2. CASE ~ Crash
      BY <1>2, <2>2 DEF World, TurnOff, TurnOn, TurnedOff, Refresh, StrayActs, Hold, Unhold,
                        engineVars, JobsQuiet
  <2> QED
      BY <2>1, <2>2
<1>3. ASSUME NEW j \in Jobs, Request(j) PROVE enabled' = enabled
    BY <1>3 DEF Request, Ensure, Ask, Stop, StopWhenDue, Destroy, Cancel, engineVars
<1>4. ASSUME NEW j \in Jobs, Work(j) PROVE enabled' = enabled
    BY <1>4 DEF Work, Operate, TakeSlot, NextLock, CallOff, SkipStop, Begin, Allow, Refuse,
        MakeRoom, Starts, StartFails, Verified, Stops, StopFails, Destroys, Disable, AdoptedEnds,
        engineVars
<1> QED
    BY <1>1, <1>2, <1>3, <1>4 DEF Next

LEMMA DisablesKept ==
    ASSUME TypeOK, JobsArePlaced, MakersWait, StartersAreKnown, DisablesWhileOff, [Next]_vars
    PROVE  DisablesWhileOff'
<1> DEFINE Fine(i) ==
        /\ kind[i] = "disable" => pc[i] \in {"settling", "lock", "stopping", "adopted stop"}
        /\ kind[i] = "disable" /\ pc[i] # "adopted stop" => ~ enabled
<1>0. \A i \in Jobs : /\ Fine(i)
                      /\ kind[i] = "disable" /\ pc[i] \in {"lock", "stopping"} => NoStartBegun
    BY DEF DisablesWhileOff
<1>1. JobStep
    BY JobSteps
<1>2. ASSUME NEW i \in Jobs, kind[i] = "disable", pc[i] # "adopted stop" PROVE enabled' = FALSE
  <2>1. pc[i] \in {"settling", "lock", "stopping"} /\ ~ enabled
      BY <1>0, <1>2
  <2>2. Disabling
      BY <1>2, <2>1 DEF Disabling, Active, Adopted
  <2> QED
      BY <2>1, <2>2, SwitchSteps
<1>3. ASSUME NEW i \in Jobs, kind'[i] = "disable"
      PROVE  /\ pc'[i] \in {"settling", "lock", "stopping", "adopted stop"}
             /\ pc'[i] # "adopted stop" => ~ enabled'
             /\ kind[i] = "disable" \/ pc'[i] = "settling"
  <2> DEFINE Goal == /\ pc'[i] \in {"settling", "lock", "stopping", "adopted stop"}
                     /\ pc'[i] # "adopted stop" => ~ enabled'
                     /\ kind[i] = "disable" \/ pc'[i] = "settling"
  <2>0. /\ kind[i] = "disable" => pc[i] \in {"settling", "lock", "stopping", "adopted stop"}
        /\ kind[i] = "disable" /\ pc[i] # "adopted stop" => ~ enabled'
      BY <1>0, <1>2
  <2>1. CASE JobsQuiet
      BY <1>3, <2>0, <2>1 DEF JobsQuiet, jobVars
  <2>2. CASE Crash
    <3>1. /\ i \in Jobs /\ kind[i] = "disable"
          /\ pc'[i] \in {"adopted start", "adopted stop"}
          /\ pc'[i] = "adopted start" => pc[i] \in {"starting", "adopted start"}
        BY <1>3, <2>2, CrashFrame, LifecycleAssumption DEF Kinds
    <3> QED
        BY <2>0, <3>1
  <2>3. ASSUME NEW j \in Jobs, NEW k \in Kinds, NEW S \in SUBSET Stacks, S # {},
               Enters(j, k, S), k = "disable" => ~ enabled'
        PROVE  Goal
    <3>1. CASE i = j
        BY <1>3, <2>3, <3>1, EntersFrame
    <3>2. CASE i # j
        BY <1>3, <2>0, <2>3, <3>2, EntersFrame
    <3> QED
        BY <3>1, <3>2
  <2>4. ASSUME NEW j \in Jobs, NEW s \in Stacks, NEW k \in {"recreate", "restart"}, Ask(j, s, k)
        PROVE  Goal
      BY <1>3, <2>0, <2>4 DEF Ask, TypeOK
  <2>5. ASSUME NEW j \in Jobs, Queues(j) PROVE Goal
    <3>1. kind[j] \in Kinds /\ on[j] # {} /\ on[j] \in SUBSET Stacks /\ kind[j] # "disable"
        BY <1>0, <2>5 DEF Queues, JobsArePlaced, Placed, TypeOK
    <3> QED
        BY <2>3, <2>5, <3>1 DEF Queues, Enters
  <2>6. ASSUME NEW j \in Jobs, Aborts(j) \/ NextLock(j) PROVE Goal
      BY <1>3, <2>0, <2>6 DEF Aborts, NextLock
  <2>7. ASSUME NEW j \in Jobs, TakeSlot(j) \/ Disable(j) PROVE Goal
      BY <1>3, <2>0, <2>7 DEF TakeSlot, Disable, TypeOK
  <2>8. ASSUME NEW j \in Jobs, NEW c \in BOOLEAN, Goes(j, c) PROVE Goal
    <3>1. i # j /\ kind'[i] = kind[i]
        BY <1>3, <2>8, EndedFrame, LifecycleAssumption DEF Goes, Kinds
    <3>2. pc'[i] = pc[i] \/ pc[i] = "making"
        BY <2>8, <3>1, EndedFrame, LifecycleAssumption DEF Goes, MakersWait
    <3> QED
        BY <1>3, <2>0, <3>1, <3>2
  <2>9. ASSUME NEW j \in Jobs, NEW where \in Places, Moves(j, where) PROVE Goal
      BY <1>3, <2>0, <2>9 DEF Moves, HasTurn, FirstStep, Becomes, TypeOK
  <2>10. ASSUME NEW j \in Jobs, pc[j] = "stopping", NextToDisable(j) PROVE Goal
    <3>1. kind' = kind
        BY <2>10 DEF NextToDisable
    <3> QED
        BY <1>3, <2>0, <2>10, <3>1, NextToDisableType
  <2>11. ASSUME NEW j \in Jobs, NEW s \in Stacks, NEW k \in Jobs, MakeRoom(j, s, k) PROVE Goal
    <3>1. pc[j] = "admit" /\ kind'[k] = "room"
        BY <2>11, MakeRoomFrame
    <3>2. i # k /\ kind'[i] = kind[i]
        BY <1>3, <2>11, <3>1, MakeRoomFrame
    <3>3. i # j
        BY <1>3, <2>0, <3>1, <3>2
    <3>4. pc'[i] = pc[i]
        BY <2>11, <3>2, <3>3, MakeRoomFrame
    <3> QED
        BY <1>3, <2>0, <3>2, <3>4
  <2>12. ASSUME NEW j \in Jobs, NEW k \in Kinds, NEW S \in SUBSET Stacks, S # {}, NewJob(j, k, S),
                k = "disable" => ~ enabled'
         PROVE  Goal
      BY <2>3, <2>12 DEF NewJob, Enters
  <2> QED
      BY <1>1, <2>1, <2>2, <2>12, <2>4, <2>5, <2>6, <2>7, <2>8, <2>9, <2>10, <2>11 DEF JobStep
<1>4. ASSUME NEW i \in Jobs, kind'[i] = "disable", pc'[i] \in {"lock", "stopping"}
      PROVE  NoStartBegun'
  <2>1. kind[i] = "disable"
      BY <1>3, <1>4
  <2>2. CASE pc[i] \in {"lock", "stopping"}
    <3>1. NoStartBegun /\ ~ enabled
        BY <1>0, <2>1, <2>2
    <3> QED
        BY <1>1, <3>1, NoStartBegins
  <2>3. CASE pc[i] \notin {"lock", "stopping"}
    <3>1. ~ enabled' /\ pc[i] # "adopted stop" => ~ enabled
        BY <1>0, <2>1, <1>3, <1>4
    <3>2. CASE Disable(i)
      <4>1. StartsSettled /\ kind' = kind /\ pc' = [pc EXCEPT ![i] = "lock"] /\ pc[i] = "settling"
          BY <3>2 DEF Disable
      <4> QED
          BY <2>1, <4>1 DEF StartsSettled, NoStartBegun, Active, StartingKinds, TypeOK
    <3>3. CASE ~ Disable(i)
      <4>1. pc[i] \in {"settling", "adopted stop"}
          BY <1>0, <2>1, <2>3
      <4>2. ~ JobsQuiet
          BY <1>4, <4>1 DEF JobsQuiet, jobVars
      <4>3. ~ Crash
          BY <1>4, CrashFrame
      <4>4. ASSUME NEW j \in Jobs, NEW k \in Kinds, NEW S \in SUBSET Stacks, S # {}, Enters(j, k, S),
                   pc[j] \in {"none", "asked"}
            PROVE  FALSE
        <5>1. i # j
            BY <4>1, <4>4
        <5> QED
            BY <1>4, <4>1, <4>4, <5>1, EntersFrame
      <4>5. ASSUME NEW j \in Jobs, NEW k \in Kinds, NEW S \in SUBSET Stacks, S # {},
                   NewJob(j, k, S)
            PROVE  FALSE
          BY <4>4, <4>5 DEF NewJob, Enters
      <4>6. ASSUME NEW j \in Jobs, Queues(j) PROVE FALSE
        <5>1. kind[j] \in Kinds /\ on[j] # {} /\ on[j] \in SUBSET Stacks
            BY <4>6 DEF Queues, JobsArePlaced, Placed, TypeOK
        <5> QED
            BY <4>4, <4>6, <5>1 DEF Queues, Enters
      <4>7. ASSUME NEW j \in Jobs, NEW s \in Stacks, NEW k \in {"recreate", "restart"}, Ask(j, s, k)
            PROVE  FALSE
          BY <1>4, <4>1, <4>7 DEF Ask, TypeOK
      <4>8. ASSUME NEW j \in Jobs, Aborts(j) \/ NextLock(j) \/ TakeSlot(j) PROVE FALSE
          BY <1>4, <4>1, <4>8 DEF Aborts, NextLock, TakeSlot, TypeOK
      <4>9. ASSUME NEW j \in Jobs, Disable(j) PROVE FALSE
          BY <1>4, <3>3, <4>1, <4>9 DEF Disable, TypeOK
      <4>10. ASSUME NEW j \in Jobs, NEW c \in BOOLEAN, Goes(j, c) PROVE FALSE
          BY <1>4, <4>1, <4>10, EndedFrame DEF Goes
      <4>11. ASSUME NEW j \in Jobs, NEW where \in Places, Moves(j, where) PROVE FALSE
          BY <1>4, <4>1, <4>11 DEF Moves, HasTurn, Becomes, TypeOK
      <4>12. ASSUME NEW j \in Jobs, pc[j] = "stopping", NextToDisable(j) PROVE FALSE
          BY <1>4, <4>1, <4>12, NextToDisableType
      <4>13. ASSUME NEW j \in Jobs, NEW s \in Stacks, NEW k \in Jobs, MakeRoom(j, s, k) PROVE FALSE
        <5>1. pc[j] = "admit" /\ pc[k] = "none" /\ pc'[j] = "making"
            BY <4>13, MakeRoomFrame
        <5>2. i \notin {j, k}
            BY <4>1, <5>1
        <5>3. pc'[i] = pc[i]
            BY <4>13, <5>2, MakeRoomFrame
        <5> QED
            BY <1>4, <4>1, <5>3
      <4> QED
          BY <1>1, <4>2, <4>3, <4>5, <4>6, <4>7, <4>8, <4>9, <4>10, <4>11, <4>12, <4>13 DEF JobStep
    <3> QED
        BY <3>2, <3>3
  <2> QED
      BY <2>2, <2>3
<1> QED
    BY <1>3, <1>4 DEF DisablesWhileOff

LEMMA StoppedKept ==
    ASSUME TypeOK, JobsArePlaced, MakersWait, StartersAreKnown, DisablesWhileOff,
           StoppedWhileOff, [Next]_vars
    PROVE  StoppedWhileOff'
<1> SUFFICES ASSUME ~ enabled', down' # {} PROVE NoStartBegun'
    BY DEF StoppedWhileOff
<1>1. JobStep
    BY JobSteps
<1>2. CASE enabled' = enabled /\ down' = down
    BY <1>1, <1>2, NoStartBegins DEF StoppedWhileOff
<1>3. ASSUME NEW j \in Jobs, kind[j] = "disable", pc[j] = "stopping", ~ enabled
      PROVE  NoStartBegun'
    BY <1>1, <1>3, NoStartBegins DEF DisablesWhileOff
<1>4. ASSUME NEW s \in Stacks, enabled' = enabled, down' = down \ {s}
      PROVE  NoStartBegun'
    BY <1>1, <1>4, NoStartBegins DEF StoppedWhileOff
<1> QED
    BY <1>2, <1>3, <1>4, EngineSteps

-----------------------------------------------------------------------------
LEMMA InitInv == Init => Inv
<1> SUFFICES ASSUME Init PROVE Inv
    OBVIOUS
<1>1. TypeOK
  <2>1. 0 \in 0..MaxStops /\ 0 \in 0..MaxCrashes /\ <<>> \in Seq(Jobs)
      BY LifecycleAssumption
  <2> QED
      BY <2>1 DEF Init, TypeOK, Places
<1>2. JobsArePlaced /\ MakersWait /\ WorkersHoldLocks /\ StartersAreKnown
    BY DEF Init, JobsArePlaced, Placed, MakersWait, WorkersHoldLocks, AtWork, StartersAreKnown
<1>3. SlotsRespected
  <2> SUFFICES ASSUME NEW g \in Gates PROVE Cardinality(Inside(g)) <= Slots[g]
      BY DEF SlotsRespected
  <2>1. Inside(g) = {}
      BY DEF Init, Inside, Active
  <2>2. Cardinality(Inside(g)) = 0
      BY <2>1, FS_EmptySet
  <2> QED
      BY <2>2, LifecycleAssumption DEF Slots, Gates
<1>4. DisablesWhileOff /\ StoppedWhileOff
    BY LifecycleAssumption DEF Init, DisablesWhileOff, StoppedWhileOff, Kinds
<1> QED
    BY <1>1, <1>2, <1>3, <1>4 DEF Inv

LEMMA StepInv ==
    ASSUME Inv, [Next]_vars
    PROVE  Inv'
<1>1. JobStep
    BY JobSteps DEF Inv
<1>2. TypeOK'
    BY TypeKept DEF Inv
<1>3. JobsArePlaced' /\ MakersWait'
    BY <1>1, PlacedKept, MakersKept DEF Inv
<1>4. WorkersHoldLocks' /\ SlotsRespected'
    BY <1>1, LocksKept, SlotsKept DEF Inv
<1>5. StartersAreKnown' /\ DisablesWhileOff' /\ StoppedWhileOff'
    BY <1>1, StartersKept, DisablesKept, StoppedKept DEF Inv
<1> QED
    BY <1>2, <1>3, <1>4, <1>5 DEF Inv

(* Jobs stay where their kinds belong, workers hold the locks of their     *)
(* stacks, gates their slots, and no start is past its turn while a        *)
(* turn-off stops stacks or after it did (KeyedLock, SupabaseSemaphore,    *)
(* calledOff, whenStartsSettled).                                          *)
THEOREM InvInvariant == Spec => []Inv
<1>1. Inv /\ [Next]_vars => Inv'
    BY StepInv
<1> QED
    BY InitInv, <1>1, PTL DEF Spec

(* No two jobs that the desktop runs itself work on one stack at a time    *)
(* (lockStack); the children of an earlier desktop are not among them.     *)
THEOREM OneWorker == Spec => []OneWorkerPerStack
<1>1. Inv => OneWorkerPerStack
  <2> SUFFICES ASSUME Inv, NEW i \in Jobs, NEW j \in Jobs, i # j, AtWork(i), AtWork(j),
                      NEW s \in WorksOn(i) \cap WorksOn(j)
               PROVE  FALSE
      BY DEF OneWorkerPerStack
  <2>1. Holds(i, s) /\ Holds(j, s)
      BY DEF Inv, WorkersHoldLocks
  <2> QED
      BY <2>1 DEF Holds
<1> QED
    BY <1>1, InvInvariant, PTL

(* A stack that a turn-off stopped stays down until the feature is turned  *)
(* on again, whatever starts, restarts or adoptions are under way, unless  *)
(* a child that the desktop has lost sight of brings it up (setEnabled,    *)
(* calledOff, whenStartsSettled, #followAdopted).                          *)
THEOREM TurnOffLasts == Spec => []OffStaysOff
<1>1. Init => OffStaysOff
    BY DEF Init, OffStaysOff
<1>2. Inv /\ OffStaysOff /\ [Next]_vars => OffStaysOff'
  <2> SUFFICES ASSUME Inv, OffStaysOff, [Next]_vars, ~ enabled', down' # {}
               PROVE  up' \cap down' = {}
      BY DEF OffStaysOff
  <2>1. CASE enabled' = enabled /\ down' = down /\ up' \subseteq up
      BY <2>1 DEF OffStaysOff
  <2>2. ASSUME NEW j \in Jobs, enabled' = enabled, down' = down,
               pc[j] = "starting" \/ (j \in Adopted /\ (pc[j] = "adopted start" \/ kind[j] = "restart"))
        PROVE  FALSE
    <3>1. NoStartBegun
        BY <2>2 DEF Inv, StoppedWhileOff
    <3>2. pc[j] \in {"starting", "adopted start", "adopted stop"} /\ kind[j] \in StartingKinds
        BY <2>2 DEF Inv, StartersAreKnown, Adopted, StartingKinds
    <3> QED
        BY <3>1, <3>2 DEF NoStartBegun, Active
  <2>3. ASSUME NEW j \in Jobs, enabled' = enabled, ~ enabled,
               down' = down \cup {at[j]}, up' = up \ {at[j]}
        PROVE  up' \cap down' = {}
      BY <2>3 DEF OffStaysOff
  <2>4. ASSUME NEW s \in Stacks, enabled' = enabled, down' = down \ {s}, up' = up \cup {s}
        PROVE  up' \cap down' = {}
      BY <2>4 DEF OffStaysOff
  <2>5. TypeOK /\ JobsArePlaced
      BY DEF Inv
  <2> QED
      BY <2>1, <2>2, <2>3, <2>4, <2>5, EngineSteps
<1> QED
    BY <1>1, <1>2, InvInvariant, PTL DEF Spec
-----------------------------------------------------------------------------
(* What admission counts.                                                  *)

(* A start works on the one stack it names. *)
Aimed ==
    \A j \in Jobs : kind[j] \in StartingKinds =>
        \E s \in Stacks : on[j] = {s} /\ (pc[j] # "asked" => at[j] = s)

(* Jobs that start a stack or, once they have it down, will.               *)
Claims(i) ==
    \/ pc[i] \in {"starting", "adopted start"}
    \/ kind[i] = "restart" /\ pc[i] \notin {"none", "asked", "gate", "lock"}

(* The stacks that run or are claimed.                                     *)
Claimed == up \cup {s \in Stacks : \E i \in Jobs : Claims(i) /\ s \in on[i]}
Capped == ~loose => Cardinality(Claimed) <= Cap

LEMMA AimedKept ==
    ASSUME TypeOK, JobsArePlaced, MakersWait, Aimed, JobStep
    PROVE  Aimed'
<1> DEFINE Sure(i) == \E s \in Stacks : on[i] = {s} /\ (pc[i] # "asked" => at[i] = s)
<1> SUFFICES ASSUME NEW i \in Jobs, kind'[i] \in StartingKinds PROVE Sure(i)'
    BY DEF Aimed
<1>0. kind[i] \in StartingKinds => Sure(i)
    BY DEF Aimed
<1>1. ASSUME kind'[i] = kind[i], on'[i] = on[i], at'[i] = at[i], pc'[i] = pc[i] \/ pc[i] # "asked"
      PROVE  Sure(i)'
    BY <1>0, <1>1
<1>2. CASE JobsQuiet
    BY <1>1, <1>2 DEF JobsQuiet, jobVars
<1>3. CASE Crash
  <2>1. None \notin StartingKinds
      BY LifecycleAssumption DEF Kinds, StartingKinds
  <2>2. /\ pc[i] \in {"starting", "stopping", "destroying", "adopted start", "adopted stop"}
        /\ kind'[i] = kind[i] /\ on'[i] = on[i] /\ at'[i] = at[i]
      BY <1>3, <2>1, CrashFrame DEF Children
  <2> QED
      BY <1>1, <2>2
<1>4. ASSUME NEW j \in Jobs, NEW k \in Kinds, NEW S \in SUBSET Stacks, S # {}, Enters(j, k, S),
             k \in StartingKinds => \E s \in Stacks : S = {s}
      PROVE  Sure(i)'
    BY <1>1, <1>4, EntersFrame
<1>5. ASSUME NEW j \in Jobs, NEW k \in Kinds, NEW S \in SUBSET Stacks, S # {}, NewJob(j, k, S),
             k \in StartingKinds => \E s \in Stacks : S = {s}
      PROVE  Sure(i)'
    BY <1>4, <1>5 DEF NewJob, Enters
<1>6. ASSUME NEW j \in Jobs, NEW s \in Stacks, NEW k \in {"recreate", "restart"}, Ask(j, s, k)
      PROVE  Sure(i)'
    BY <1>1, <1>6 DEF Ask, TypeOK
<1>7. ASSUME NEW j \in Jobs, Queues(j) PROVE Sure(i)'
  <2>1. kind[j] \in Kinds /\ on[j] # {} /\ on[j] \in SUBSET Stacks
      BY <1>7 DEF Queues, JobsArePlaced, Placed, TypeOK
  <2>2. kind[j] \in StartingKinds => \E s \in Stacks : on[j] = {s}
      BY DEF Aimed
  <2> QED
      BY <1>4, <1>7, <2>1, <2>2 DEF Queues, Enters
<1>8. ASSUME NEW j \in Jobs, Aborts(j) PROVE Sure(i)'
    BY <1>1, <1>8 DEF Aborts
<1>9. ASSUME NEW j \in Jobs, NEW c \in BOOLEAN, Goes(j, c) PROVE Sure(i)'
  <2>1. i # j
      BY <1>9, EndedFrame, LifecycleAssumption DEF Goes, Kinds, StartingKinds
  <2>2. pc'[i] = pc[i] \/ pc[i] = "making"
      BY <1>9, <2>1, EndedFrame, LifecycleAssumption DEF Goes, MakersWait
  <2> QED
      BY <1>1, <1>9, <2>1, <2>2, EndedFrame DEF Goes
<1>10. ASSUME NEW j \in Jobs, NEW where \in Places, Moves(j, where) PROVE Sure(i)'
  <2>1. /\ kind' = kind /\ on' = on /\ at' = at /\ pc' = [pc EXCEPT ![j] = where]
        /\ pc[j] # "asked"
      BY <1>10 DEF Moves, Becomes, HasTurn
  <2> QED
      BY <1>1, <2>1 DEF TypeOK
<1>11. ASSUME NEW j \in Jobs, TakeSlot(j) \/ Disable(j) PROVE Sure(i)'
  <2>1. /\ kind' = kind /\ on' = on /\ at' = at /\ pc' = [pc EXCEPT ![j] = "lock"]
        /\ pc[j] # "asked"
      BY <1>11 DEF TakeSlot, Disable
  <2> QED
      BY <1>1, <2>1 DEF TypeOK
<1>12. ASSUME NEW j \in Jobs, NextLock(j) PROVE Sure(i)'
  <2>1. i # j
      BY <1>12 DEF NextLock, StartingKinds
  <2> QED
      BY <1>1, <1>12, <2>1 DEF NextLock, TypeOK
<1>13. ASSUME NEW j \in Jobs, NextToDisable(j) PROVE Sure(i)'
  <2>1. i # j /\ kind' = kind /\ on' = on
      BY <1>13 DEF NextToDisable, StartingKinds
  <2> QED
      BY <1>1, <1>13, <2>1, NextToDisableType
<1>14. ASSUME NEW j \in Jobs, NEW s \in Stacks, NEW k \in Jobs, MakeRoom(j, s, k)
       PROVE  Sure(i)'
  <2>1. i # k
      BY <1>14, MakeRoomFrame DEF StartingKinds
  <2> QED
      BY <1>0, <1>14, <2>1, MakeRoomFrame
<1> QED
    BY <1>2, <1>3, <1>5, <1>6, <1>7, <1>8, <1>9, <1>10, <1>11, <1>12, <1>13, <1>14 DEF JobStep

(* No job claims a stack it did not claim before, except by a turn or an   *)
(* admission.                                                              *)
Carried == \A i \in Jobs : Claims(i)' => Claims(i) /\ on'[i] = on[i]

LEMMA ClaimsCarried ==
    ASSUME TypeOK, JobsArePlaced, MakersWait, JobStep,
           \A j \in Jobs : ~Allow(j) /\ ~Begin(j)
    PROVE  Carried
<1> SUFFICES ASSUME NEW i \in Jobs, Claims(i)' PROVE Claims(i) /\ on'[i] = on[i]
    BY DEF Carried
<1>1. ASSUME pc'[i] = pc[i], kind'[i] = kind[i], on'[i] = on[i]
      PROVE  Claims(i) /\ on'[i] = on[i]
    BY <1>1 DEF Claims
<1>2. CASE JobsQuiet
    BY <1>1, <1>2 DEF JobsQuiet, jobVars
<1>3. CASE Crash
    BY <1>3, CrashFrame DEF Claims, Children
<1>4. ASSUME NEW j \in Jobs, NEW k \in Kinds, NEW S \in SUBSET Stacks, S # {}, Enters(j, k, S)
      PROVE  Claims(i) /\ on'[i] = on[i]
  <2>1. i # j
    <3>1. kind'[j] = k /\ pc'[j] \in {"settling", "lock", "gate"} /\ (pc'[j] = "settling" <=> k = "disable")
        BY <1>4, EntersFrame
    <3> QED
        BY <3>1 DEF Claims
  <2> QED
      BY <1>1, <1>4, <2>1, EntersFrame
<1>5. ASSUME NEW j \in Jobs, NEW k \in Kinds, NEW S \in SUBSET Stacks, S # {}, NewJob(j, k, S)
      PROVE  Claims(i) /\ on'[i] = on[i]
    BY <1>4, <1>5 DEF NewJob, Enters
<1>6. ASSUME NEW j \in Jobs, NEW s \in Stacks, NEW k \in {"recreate", "restart"}, Ask(j, s, k)
      PROVE  Claims(i) /\ on'[i] = on[i]
    BY <1>1, <1>6 DEF Ask, TypeOK, Claims
<1>7. ASSUME NEW j \in Jobs, Queues(j) PROVE Claims(i) /\ on'[i] = on[i]
  <2>1. kind[j] \in Kinds /\ on[j] # {} /\ on[j] \in SUBSET Stacks
      BY <1>7 DEF Queues, JobsArePlaced, Placed, TypeOK
  <2> QED
      BY <1>4, <1>7, <2>1 DEF Queues, Enters
<1>8. ASSUME NEW j \in Jobs, Aborts(j) \/ NextLock(j) PROVE Claims(i) /\ on'[i] = on[i]
    BY <1>1, <1>8 DEF Aborts, NextLock
<1>9. ASSUME NEW j \in Jobs, NEW c \in BOOLEAN, Goes(j, c) PROVE Claims(i) /\ on'[i] = on[i]
  <2>1. i # j
      BY <1>9, EndedFrame DEF Goes, Claims
  <2>2. pc'[i] = pc[i] \/ (pc[i] = "making" /\ pc'[i] \in {"denied", "admit"})
      BY <1>9, <2>1, EndedFrame, LifecycleAssumption DEF Goes, MakersWait
  <2> QED
      BY <1>9, <2>1, <2>2, EndedFrame DEF Goes, Claims
<1>10. ASSUME NEW j \in Jobs, NEW where \in Places, Moves(j, where)
       PROVE  Claims(i) /\ on'[i] = on[i]
  <2>1. kind' = kind /\ on' = on /\ pc' = [pc EXCEPT ![j] = where]
      BY <1>10 DEF Moves, Becomes
  <2>2. CASE i # j
      BY <1>1, <2>1, <2>2 DEF TypeOK
  <2>3. CASE i = j
    <3>1. \/ pc[j] = "starting" /\ where = "verifying"
          \/ pc[j] = "stopping" /\ kind[j] = "restart" /\ where = "starting"
          \/ pc[j] = "stopping" /\ kind[j] = "recreate" /\ where = "destroying"
          \/ pc[j] = "destroying" /\ kind[j] = "recreate" /\ enabled /\ where = "admit"
        BY <1>10 DEF Moves
    <3>2. pc'[i] = where
        BY <2>1, <2>3 DEF TypeOK
    <3> QED
        BY <2>1, <2>3, <3>1, <3>2 DEF Claims
  <2> QED
      BY <2>2, <2>3
<1>11. ASSUME NEW j \in Jobs, TakeSlot(j) \/ Disable(j) PROVE Claims(i) /\ on'[i] = on[i]
  <2>1. kind' = kind /\ on' = on /\ pc' = [pc EXCEPT ![j] = "lock"]
      BY <1>11 DEF TakeSlot, Disable
  <2>2. i # j
      BY <2>1 DEF Claims, TypeOK
  <2> QED
      BY <1>1, <2>1, <2>2 DEF TypeOK
<1>12. ASSUME NEW j \in Jobs, NextToDisable(j) PROVE Claims(i) /\ on'[i] = on[i]
  <2>1. kind' = kind /\ on' = on
      BY <1>12 DEF NextToDisable
  <2>2. i # j
      BY <1>12, <2>1, NextToDisableType DEF Claims
  <2> QED
      BY <1>1, <1>12, <2>1, <2>2, NextToDisableType
<1>13. ASSUME NEW j \in Jobs, NEW s \in Stacks, NEW k \in Jobs, MakeRoom(j, s, k)
       PROVE  Claims(i) /\ on'[i] = on[i]
  <2>1. i # k
    <3>1. pc'[k] = "lock"
        BY <1>13, MakeRoomFrame
    <3> QED
        BY <3>1 DEF Claims
  <2>2. kind'[i] = kind[i] /\ on'[i] = on[i] /\ (pc'[i] = pc[i] \/ (pc[i] = "admit" /\ pc'[i] = "making"))
      BY <1>13, <2>1, MakeRoomFrame
  <2> QED
      BY <2>2 DEF Claims
<1> QED
    BY <1>2, <1>3, <1>5, <1>6, <1>7, <1>8, <1>9, <1>10, <1>11, <1>12, <1>13 DEF JobStep

(* How a step changes the stacks that run, and what it notes of the counts. *)
LEMMA UpSteps ==
    ASSUME TypeOK, [Next]_vars
    PROVE  \/ loose' = loose /\ up' \subseteq up
           \/ \E j \in Jobs : /\ loose' = loose /\ up' = up \cup {at[j]}
                             /\ \/ pc[j] \in {"starting", "adopted start"}
                                \/ pc[j] = "adopted stop" /\ kind[j] = "restart"
           \/ \E j \in Jobs : Allow(j) \/ Begin(j)
           \/ loose'
<1> DEFINE G ==
           \/ loose' = loose /\ up' \subseteq up
           \/ \E j \in Jobs : /\ loose' = loose /\ up' = up \cup {at[j]}
                             /\ \/ pc[j] \in {"starting", "adopted start"}
                                \/ pc[j] = "adopted stop" /\ kind[j] = "restart"
           \/ \E j \in Jobs : Allow(j) \/ Begin(j)
           \/ loose'
<1>1. CASE UNCHANGED vars
    BY <1>1 DEF vars, stackVars
<1>2. CASE World
  <2>1. CASE Crash
      BY <2>1, CrashFrame
  <2>2. CASE \E s \in Stacks, way \in {"up", "down"} : StrayActs(s, way)
    <3>1. PICK s \in Stacks, way \in {"up", "down"} : StrayActs(s, way)
        BY <2>2
    <3>2. CASE up' \subseteq up
      <4>1. loose' = (loose \/ FALSE)
          BY <3>1, <3>2, Zenon DEF StrayActs
      <4> QED
          BY <3>2, <4>1, Zenon DEF TypeOK
    <3>3. CASE ~(up' \subseteq up)
      <4>1. loose'
          BY <3>1, <3>3, Zenon DEF StrayActs
      <4> QED
          BY <4>1
    <3> QED
        BY <3>2, <3>3
  <2>3. CASE ~ Crash /\ ~ \E s \in Stacks, way \in {"up", "down"} : StrayActs(s, way)
      BY <1>2, <2>3 DEF World, TurnOff, TurnOn, TurnedOff, Refresh, Hold, Unhold, stackVars
  <2> QED
      BY <2>1, <2>2, <2>3
<1>3. ASSUME NEW j \in Jobs, Request(j) PROVE G
    BY <1>3 DEF Request, Ensure, Ask, Stop, StopWhenDue, Destroy, Cancel, stackVars
<1>4. ASSUME NEW j \in Jobs, Work(j) PROVE G
  <2>1. CASE \/ Operate(j) \/ TakeSlot(j) \/ NextLock(j) \/ CallOff(j) \/ SkipStop(j)
             \/ Refuse(j) \/ \E s \in Stacks, k \in Jobs : MakeRoom(j, s, k)
      BY <2>1 DEF Operate, TakeSlot, NextLock, CallOff, SkipStop, Refuse, MakeRoom, stackVars
  <2>2. CASE \/ StartFails(j) \/ StopFails(j) \/ Destroys(j) \/ Disable(j) \/ Verified(j)
             \/ Stops(j)
      BY <2>2 DEF StartFails, StopFails, Destroys, Disable, Verified, Stops, stackVars
  <2>3. CASE Starts(j)
      BY <2>3 DEF Starts
  <2>4. CASE AdoptedEnds(j)
    <3>1. /\ j \in Adopted /\ loose' = loose
          /\ \/ up' \subseteq up
             \/ <<at[j], "up">> \in MayDo(j) /\ up' = up \cup {at[j]}
        BY <2>4 DEF AdoptedEnds
    <3>2. <<at[j], "up">> \in MayDo(j) => pc[j] \in {"starting", "adopted start"} \/ kind[j] = "restart"
        BY DEF MayDo
    <3> QED
        BY <3>1, <3>2 DEF Adopted
  <2>5. CASE Allow(j) \/ Begin(j)
      BY <2>5
  <2> QED
      BY <1>4, <2>1, <2>2, <2>3, <2>4, <2>5 DEF Work
<1> QED
    BY <1>1, <1>2, <1>3, <1>4 DEF Next

LEMMA CappedByLess ==
    ASSUME TypeOK, Capped, ~loose' => ~loose, Claimed' \subseteq Claimed
    PROVE  Capped'
<1>1. Claimed \subseteq Stacks
    BY DEF Claimed, TypeOK
<1>2. IsFiniteSet(Claimed)
    BY <1>1, FS_Subset, LifecycleAssumption
<1>3. /\ Cardinality(Claimed') <= Cardinality(Claimed)
      /\ Cardinality(Claimed') \in Nat /\ Cardinality(Claimed) \in Nat
    BY <1>2, FS_Subset, FS_CardinalityType
<1>4. Cap \in Nat
    BY LifecycleAssumption
<1> QED
    BY <1>3, <1>4 DEF Capped, TypeOK

(* A restart has its turn: it claims a stack that runs, or is noted.       *)
LEMMA BeginCapped ==
    ASSUME TypeOK, TypeOK', Aimed, Capped, NEW j \in Jobs, Begin(j)
    PROVE  Capped'
<1>1. /\ kind' = kind /\ on' = on /\ pc' = [pc EXCEPT ![j] = FirstStep(j)] /\ pc[j] = "lock"
      /\ up' = up
    BY DEF Begin, Becomes, HasTurn, stackVars
<1>2. loose' = (loose \/ (kind[j] = "restart" /\ at[j] \notin up))
    BY DEF Begin
<1>3. FirstStep(j) \notin {"starting", "adopted start"}
    BY DEF FirstStep
<1>4. CASE kind[j] = "restart" /\ at[j] \notin up
    BY <1>2, <1>4 DEF Capped
<1>5. CASE ~(kind[j] = "restart" /\ at[j] \notin up)
  <2>1. \A i \in Jobs : Claims(i)' => Claims(i) \/ (i = j /\ kind[j] = "restart")
      BY <1>1, <1>3 DEF Claims, TypeOK
  <2>2. kind[j] = "restart" => on[j] \subseteq up
      BY <1>1, <1>5 DEF Aimed, StartingKinds
  <2>3. Claimed' \subseteq Claimed
      BY <1>1, <2>1, <2>2 DEF Claimed
  <2>4. ~loose' => ~loose
      BY <1>2
  <2> QED
      BY <2>3, <2>4, CappedByLess
<1> QED
    BY <1>4, <1>5

(* The stacks of starts are no more than the starts.                       *)
LEMMA StacksOfStarts ==
    ASSUME NEW I \in SUBSET Jobs
    PROVE  LET R == {at[i] : i \in I} IN
           /\ IsFiniteSet(I) /\ IsFiniteSet(R)
           /\ Cardinality(R) \in Nat /\ Cardinality(I) \in Nat
           /\ Cardinality(R) <= Cardinality(I)
<1> DEFINE R == {at[i] : i \in I}
           f == [i \in I |-> at[i]]
<1>1. f \in Surjection(I, R)
    BY DEF Surjection
<1>2. IsFiniteSet(I)
    BY FS_Subset, LifecycleAssumption
<1> QED
    BY <1>1, <1>2, FS_Surjection, FS_CardinalityType

LEMMA OneMore ==
    ASSUME NEW B, IsFiniteSet(B), NEW s
    PROVE  /\ IsFiniteSet(B \cup {s}) /\ Cardinality(B \cup {s}) \in Nat
           /\ Cardinality(B \cup {s}) <= Cardinality(B) + 1
<1>1. CASE s \in B
  <2>1. B \cup {s} = B
      BY <1>1
  <2>2. Cardinality(B) \in Nat
      BY FS_CardinalityType
  <2>3. Cardinality(B) <= Cardinality(B) + 1
      BY <2>2
  <2> QED
      BY <2>1, <2>2, <2>3
<1>2. CASE s \notin B
  <2>1. IsFiniteSet(B \cup {s}) /\ Cardinality(B \cup {s}) = Cardinality(B) + 1
      BY <1>2, FS_AddElement
  <2>2. Cardinality(B) \in Nat /\ Cardinality(B \cup {s}) \in Nat
      BY <2>1, FS_CardinalityType
  <2> QED
      BY <2>1, <2>2
<1> QED
    BY <1>1, <1>2

(* An admission: the running stacks and the starts it counted, and the     *)
(* stack it is for, are all that runs or is claimed.                       *)
LEMMA AllowCapped ==
    ASSUME TypeOK, StartersAreKnown, Aimed, Capped, NEW j \in Jobs, Allow(j)
    PROVE  Capped'
<1> DEFINE A == shown \ on[j]
           I == {i \in Active : /\ kind[i] \in CountedKinds /\ Begun(i)
                                /\ on[i] \cap on[j] = {}}
           R == {at[i] : i \in I}
           counted == UNION {on[i] : i \in {i \in Active : kind[i] \in CountedKinds /\ Begun(i)}}
<1>1. /\ kind' = kind /\ on' = on /\ pc' = [pc EXCEPT ![j] = "starting"] /\ pc[j] = "admit"
      /\ up' = up /\ loose' = (loose \/ ~CountIsComplete)
    BY DEF Allow, Becomes, stackVars
<1> SUFFICES ASSUME CountIsComplete
             PROVE  Cardinality(Claimed') <= Cap
    BY <1>1 DEF Capped
<1>2. Cardinality(A) + Cardinality(I) < Cap
    BY DEF Allow, Occupied
<1>3. PICK s \in Stacks : on[j] = {s}
    BY <1>1 DEF StartersAreKnown, Aimed
<1>4. I \in SUBSET Jobs
    BY DEF Active
<1>5. IsFiniteSet(A) /\ Cardinality(A) \in Nat
  <2>1. A \subseteq Stacks
      BY DEF TypeOK
  <2> QED
      BY <2>1, FS_Subset, FS_CardinalityType, LifecycleAssumption
<1>6. ASSUME NEW t \in Claimed' PROVE t \in (A \cup R) \cup {s}
  <2>1. CASE t \in shown
      BY <1>3, <2>1
  <2>2. CASE t \in counted
    <3>1. PICK i \in Active : kind[i] \in CountedKinds /\ Begun(i) /\ t \in on[i]
        BY <2>2
    <3>2. on[i] = {t} /\ at[i] = t
        BY <3>1 DEF Aimed, Active, StartingKinds, CountedKinds
    <3>3. t # s => i \in I
        BY <1>3, <3>1, <3>2
    <3> QED
        BY <3>2, <3>3
  <2>3. t \in up \/ \E i \in Jobs : Claims(i)' /\ t \in on[i]
      BY <1>1 DEF Claimed
  <2>4. ASSUME NEW i \in Jobs, i # j, Claims(i)', t \in on[i]
        PROVE  t \in shown \cup counted
    <3>1. Claims(i) /\ kind[i] \in StartingKinds
        BY <1>1, <2>4 DEF Claims, TypeOK, StartersAreKnown, StartingKinds
    <3>2. i \in Active /\ Begun(i)
        BY <3>1 DEF Claims, Active, Begun
    <3>3. CASE kind[i] = "restart"
        BY <2>4, <3>2, <3>3 DEF CountIsComplete
    <3>4. CASE kind[i] \in CountedKinds
        BY <2>4, <3>2, <3>4
    <3> QED
        BY <3>1, <3>3, <3>4 DEF StartingKinds, CountedKinds
  <2>5. up \subseteq shown \cup counted
      BY DEF CountIsComplete
  <2> QED
      BY <1>3, <2>1, <2>2, <2>3, <2>4, <2>5
<1>7. /\ IsFiniteSet(R) /\ Cardinality(R) \in Nat /\ Cardinality(I) \in Nat
      /\ Cardinality(R) <= Cardinality(I)
    BY <1>4, StacksOfStarts
<1> HIDE DEF A, I, R, counted
<1> DEFINE B == A \cup R
<1>8. /\ IsFiniteSet(B) /\ Cardinality(B) \in Nat
      /\ Cardinality(B) <= Cardinality(A) + Cardinality(R)
  <2>1. /\ Cardinality(A \cup R) = Cardinality(A) + Cardinality(R) - Cardinality(A \cap R)
        /\ IsFiniteSet(A \cup R)
      BY <1>5, <1>7, FS_Union
  <2>2. Cardinality(A \cap R) \in Nat /\ Cardinality(A \cup R) \in Nat
      BY <1>5, <2>1, FS_Subset, FS_CardinalityType
  <2> QED
      BY <1>5, <1>7, <2>1, <2>2
<1> HIDE DEF B
<1>9. /\ IsFiniteSet(B \cup {s}) /\ Cardinality(B \cup {s}) \in Nat
      /\ Cardinality(B \cup {s}) <= Cardinality(B) + 1
    BY <1>8, OneMore
<1>10. Claimed' \subseteq B \cup {s}
    BY <1>6 DEF B
<1>11. Cardinality(Claimed') <= Cardinality(B \cup {s}) /\ Cardinality(Claimed') \in Nat
    BY <1>9, <1>10, FS_Subset, FS_CardinalityType
<1>12. Cap \in Nat
    BY LifecycleAssumption
<1> QED
    BY <1>2, <1>5, <1>7, <1>8, <1>9, <1>11, <1>12

LEMMA CappedKept ==
    ASSUME Inv, Aimed, Capped, [Next]_vars
    PROVE  Capped'
<1>0. TypeOK /\ TypeOK' /\ JobStep
    BY StepInv, JobSteps DEF Inv
<1>1. ASSUME NEW j \in Jobs, Allow(j) \/ Begin(j) PROVE Capped'
    BY <1>0, <1>1, AllowCapped, BeginCapped DEF Inv
<1>2. CASE \A j \in Jobs : ~Allow(j) /\ ~Begin(j)
  <2>1. Carried
      BY <1>0, <1>2, ClaimsCarried DEF Inv
  <2>2. CASE loose' = loose /\ up' \subseteq up
    <3>1. Claimed' \subseteq Claimed
        BY <2>1, <2>2 DEF Claimed, Carried
    <3> QED
        BY <1>0, <2>2, <3>1, CappedByLess
  <2>3. ASSUME NEW j \in Jobs, loose' = loose, up' = up \cup {at[j]},
               \/ pc[j] \in {"starting", "adopted start"}
               \/ pc[j] = "adopted stop" /\ kind[j] = "restart"
        PROVE  Capped'
    <3>1. kind[j] \in StartingKinds /\ Claims(j) /\ pc[j] # "asked"
        BY <2>3 DEF Inv, StartersAreKnown, StartingKinds, Claims
    <3>2. at[j] \in Stacks /\ at[j] \in on[j]
        BY <3>1 DEF Aimed
    <3>3. Claimed' \subseteq Claimed
        BY <2>1, <2>3, <3>1, <3>2 DEF Claimed, Carried
    <3> QED
        BY <1>0, <2>3, <3>3, CappedByLess
  <2>4. CASE loose'
      BY <2>4 DEF Capped
  <2>5. TypeOK
      BY DEF Inv
  <2> QED
      BY <1>2, <2>2, <2>3, <2>4, <2>5, UpSteps
<1> QED
    BY <1>1, <1>2

(* While every start is admitted on a complete count, no restart brings up *)
(* a stack that was down and no child the desktop has lost sight of starts *)
(* one, the stacks that run or are being started are no more than the cap  *)
(* (admitCreate, #occupied, runAdmitted).                                  *)
THEOREM CapHolds == Spec => []WithinCap
<1> DEFINE CapInv == Inv /\ Aimed /\ Capped
<1>1. Init => CapInv
  <2> SUFFICES ASSUME Init PROVE Aimed /\ Capped
      BY InitInv
  <2>1. None \notin StartingKinds
      BY LifecycleAssumption DEF Kinds, StartingKinds
  <2>2. Aimed
      BY <2>1 DEF Init, Aimed
  <2>3. Claimed = {}
      BY LifecycleAssumption DEF Init, Claimed, Claims
  <2>4. Capped
      BY <2>3, FS_EmptySet, LifecycleAssumption DEF Capped
  <2> QED
      BY <2>2, <2>4
<1>2. CapInv /\ [Next]_vars => CapInv'
  <2> SUFFICES ASSUME CapInv, [Next]_vars PROVE CapInv'
      OBVIOUS
  <2>1. JobStep
      BY JobSteps DEF Inv
  <2>2. Aimed'
      BY <2>1, AimedKept DEF Inv
  <2> QED
      BY <2>2, StepInv, CappedKept
<1>3. CapInv => WithinCap
  <2> SUFFICES ASSUME Inv, Capped, ~loose PROVE Cardinality(up \cup Coming) <= Cap
      BY DEF WithinCap
  <2>1. up \cup Coming \subseteq Claimed /\ Claimed \subseteq Stacks
      BY DEF Coming, Claimed, Claims, Active, Inv, TypeOK
  <2>2. IsFiniteSet(Claimed)
      BY <2>1, FS_Subset, LifecycleAssumption
  <2>3. /\ Cardinality(up \cup Coming) <= Cardinality(Claimed)
        /\ Cardinality(up \cup Coming) \in Nat /\ Cardinality(Claimed) \in Nat
      BY <2>1, <2>2, FS_Subset, FS_CardinalityType
  <2> QED
      BY <2>3, LifecycleAssumption DEF Capped
<1> QED
    BY <1>1, <1>2, <1>3, PTL DEF Spec
=============================================================================
