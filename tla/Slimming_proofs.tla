-------------------------- MODULE Slimming_proofs --------------------------
(***************************************************************************)
(* For any number of Simulators, jobs, crashes and refused writes: the     *)
(* safety properties of Slimming, from one inductive invariant.            *)
(***************************************************************************)
EXTENDS Slimming, TLAPS

(* An update that leaves the record of its Simulator as it is.             *)
Harmless(w) == w.what \in {"note", "keep"}

(* A job that has its goal and the record it is to settle.                 *)
Aims(j) ==
    \/ phase[j] \in {"preparing", "beginning", "mutating"}
    \/ phase[j] = "settling" /\ kind[j] # "forget"

(* Where the record of a target can be that of the very job at it.         *)
Late == {"mutating", "settling", "noting", "next"}

-----------------------------------------------------------------------------
(* The inductive invariant.                                                *)

(* What every job has at its phase.                                        *)
JobShape(j) ==
    /\ phase[j] = "unused" => place[j] = 1
    /\ phase[j] \in {"unused", "line", "turn"} => record[j] = None
    /\ phase[j] = "turn" => \E i \in 1..Len(turns) : turns[i] = j
    /\ phase[j] \notin {"unused", "done"} => kind[j] # None
    /\ kind[j] = "forget" => phase[j] \notin {"preparing", "beginning", "mutating", "noting"}
    /\ Aims(j) => /\ record[j] \in Jobs /\ goal[j] \in ServiceSets
                  /\ Target(j) \notin forgotten => goal[j] # "partial"

Shape ==
    /\ DOMAIN holder = Simulators
    /\ place \in [Jobs -> Nat \ {0}]
    /\ \A j \in Jobs : JobShape(j)
    /\ guest \in {"line", "refreshing", "back"} => guestAt \in Simulators
    /\ guest \in {"refreshing", "back"} => holder[guestAt] = Guest
    /\ refresh \in {"trying", "inspecting", "settling"} => at \in Simulators

(* Records are those of jobs that have been at that Simulator, and none is *)
(* to reach what only a broken change leaves.                              *)
RecordOK(s) ==
    pending[s] # None =>
        LET k == pending[s].id IN
        /\ phase[k] # "unused"
        /\ Active(k) =>
              \E i \in 1..place[k] :
                  /\ i \in DOMAIN targets[k] /\ targets[k][i] = s
                  /\ i = place[k] => phase[k] \in Late
        /\ s \notin forgotten => pending[s].after # "partial"

(* A change of its own starts from no record, an undoing from the one it   *)
(* is to settle.                                                           *)
Undone(j) ==
    LET p == pending[Target(j)] IN
    /\ phase[j] \in {"preparing", "beginning"} /\ ~Emergency(j) => p = None
    /\ phase[j] = "beginning" => Changes(j)
    /\ phase[j] = "mutating" /\ ~Emergency(j) /\ ~Changes(j) => p = None
    /\ phase[j] \in {"preparing", "beginning", "mutating"} /\ Emergency(j) /\ p # None =>
          p.id = record[j] /\ goal[j] = p.before

(* While the helper changes a Simulator its attempt is on record, and      *)
(* nothing on its way to the disk will take that away.                     *)
Begun(j) ==
    LET p == pending[Target(j)] IN
    phase[j] = "mutating" /\ Changes(j) =>
        /\ p # None
        /\ IF Emergency(j)
           THEN p.recovery # None /\ p.recovery.id = j /\ p.recovery.before = services[Target(j)]
           ELSE p.id = j /\ p.before = services[Target(j)] /\ p.after = goal[j]
        /\ \A i \in 1..Len(writes) : writes[i].sim = Target(j) => Harmless(writes[i])

(* What each update on its way to the disk is. *)
JobWrites(w, j) ==
    LET p == pending[w.sim] IN
    /\ w.sim = Target(j)
    /\ phase[j] \in {"beginning", "settling", "noting"}
    /\ phase[j] = "beginning" => w = Journal(j)
    /\ phase[j] = "settling" /\ kind[j] = "forget" => w.what = "clear"
    /\ phase[j] = "settling" /\ kind[j] # "forget" =>
          /\ w.what \in {"note", "complete", "promote"}
          /\ services[w.sim] = goal[j]
          /\ w.what = "promote" => p # None /\ p.after = goal[j]
    /\ phase[j] = "noting" =>
          /\ w.what \in {"note", "keep", "unrecover", "complete"}
          /\ w.what = "complete" => w.id = j
          /\ w.what = "complete" /\ p # None /\ p.id = w.id => services[w.sim] = p.before

RefreshWrites(w) ==
    LET p == pending[at] IN
    /\ refresh = "settling" /\ w.sim = at
    /\ w.id = p.id
    /\ w.what \in {"keep", "unrecover", "complete", "promote"}
    /\ w.what = "complete" => services[at] = p.before
    /\ w.what = "promote" => services[at] = p.after

WriteOK(w) == IF w.by = Refresh THEN RefreshWrites(w) ELSE JobWrites(w, w.by)

(* Everybody has one update under way at most; behind one that begins, and *)
(* beside one that promotes, a record stand only harmless ones.            *)
Ordered(q) ==
    \A i, k \in 1..Len(q) :
        /\ q[i].by = q[k].by => i = k
        /\ i < k /\ q[i].what \in {"begin", "recover"} /\ q[k].sim = q[i].sim => Harmless(q[k])
        /\ i # k /\ q[i].what = "promote" /\ q[i].by # Refresh /\ q[k].sim = q[i].sim =>
              Harmless(q[k])

Queued ==
    /\ \A w \in Updates : (\E i \in 1..Len(writes) : w = writes[i]) => WriteOK(w)
    /\ Ordered(writes)

(* The reconciler has the record to itself.                                *)
Sole ==
    refresh \in {"inspecting", "settling"} =>
        /\ pending[at] # None
        /\ \A i \in 1..Len(writes) :
              writes[i].sim = at /\ writes[i].by # Refresh => Harmless(writes[i])

IInv ==
    /\ TypeOK /\ LeaseHeld /\ Shape
    /\ \A s \in Simulators : RecordOK(s)
    /\ \A j \in Jobs : Undone(j) /\ Begun(j)
    /\ Queued /\ Sole
    /\ NoChangeForgotten /\ RestorePointsAreWhole

-----------------------------------------------------------------------------
(* Lists, batches and leases.                                              *)
LEMMA AppendIs ==
    ASSUME NEW S, NEW q \in Seq(S), NEW e \in S
    PROVE  /\ Append(q, e) \in Seq(S) /\ Len(Append(q, e)) = Len(q) + 1 /\ Len(q) \in Nat
           /\ \A i \in 1..Len(q) : Append(q, e)[i] = q[i] /\ q[i] \in S
           /\ Append(q, e)[Len(q) + 1] = e
  OBVIOUS

LEMMA TailIs ==
    ASSUME NEW S, NEW q \in Seq(S), q # <<>>
    PROVE  /\ Tail(q) \in Seq(S) /\ Len(q) \in Nat \ {0} /\ Len(Tail(q)) = Len(q) - 1
           /\ Head(q) = q[1] /\ q[1] \in S
           /\ \A i \in 1..Len(Tail(q)) : i + 1 \in 2..Len(q) /\ Tail(q)[i] = q[i + 1]
  OBVIOUS

LEMMA BatchesAre ==
    \A b \in Batches \cup {<<>>} :
        /\ b \in Seq(Simulators) /\ Len(b) \in Nat /\ DOMAIN b = 1..Len(b)
        /\ \A i \in 1..Len(b) : b[i] \in Simulators
        /\ \A i, k \in 1..Len(b) : b[i] = b[k] => i = k
        /\ b \in Batches => 1 \in 1..Len(b)
  <1> SUFFICES ASSUME NEW b \in Batches \cup {<<>>}
               PROVE  /\ b \in Seq(Simulators) /\ Len(b) \in Nat /\ DOMAIN b = 1..Len(b)
                      /\ \A i \in 1..Len(b) : b[i] \in Simulators
                      /\ \A i, k \in 1..Len(b) : b[i] = b[k] => i = k
                      /\ b \in Batches => 1 \in 1..Len(b)
    OBVIOUS
  <1>1. b \in Seq(Simulators) /\ (b \in Batches => b # <<>>)
    <2>1. CASE b \in Batches
      BY ONLY <2>1, SlimmingAssumption DEF SlimmingAssumption
    <2>2. CASE b = <<>>
      <3>1. b \in Seq(Simulators)
        BY <2>2
      <3> QED
        BY <3>1, <2>2, SlimmingAssumption DEF SlimmingAssumption
    <2> QED
      BY <2>1, <2>2
  <1>2. Len(b) \in Nat /\ DOMAIN b = 1..Len(b) /\ (b # <<>> => 1 \in 1..Len(b))
    BY <1>1
  <1>3. \A i, k \in DOMAIN b : b[i] = b[k] => i = k
    <2>1. CASE b \in Batches
      BY <2>1, SlimmingAssumption DEF SlimmingAssumption
    <2>2. CASE b = <<>>
      BY <2>2
    <2> QED
      BY <2>1, <2>2
  <1>4. \A i \in 1..Len(b) : b[i] \in Simulators
    BY <1>1
  <1> QED
    BY <1>1, <1>2, <1>3, <1>4

LEMMA NamesAre ==
    /\ None \notin Jobs /\ None \notin Simulators
    /\ Refresh \notin Jobs /\ Guest \notin Jobs /\ Refresh # Guest /\ Refresh # None /\ Guest # None
    /\ None \notin Recoveries /\ None \notin Records
    /\ None \notin ServiceSets /\ None \notin Kinds
  BY SlimmingAssumption, NoneAssumption DEF SlimmingAssumption

LEMMA TargetIs ==
    ASSUME TypeOK, NEW j \in Jobs, Active(j)
    PROVE  /\ Target(j) \in Simulators /\ targets[j] \in Batches
           /\ place[j] \in 1..Len(targets[j])
           /\ \E i \in DOMAIN targets[j] : targets[j][i] = Target(j)
  <1>1. targets[j] \in Batches \cup {<<>>} /\ place[j] \in DOMAIN targets[j]
    BY DEF TypeOK
  <1>2. DOMAIN targets[j] = 1..Len(targets[j]) /\ Target(j) \in Simulators
    BY <1>1, BatchesAre DEF Target
  <1> QED
    BY <1>1, <1>2 DEF Target

LEMMA WorkingIsActive == \A j \in Jobs : Working(j) => Active(j)
  BY DEF Working, Active

(* One lease, one holder. *)
LEMMA Apart ==
    ASSUME TypeOK, LeaseHeld, NEW j \in Jobs, Working(j)
    PROVE  /\ Target(j) \in Simulators
           /\ \A k \in Jobs \ {j} : Working(k) => Target(k) # Target(j)
           /\ refresh \in {"inspecting", "settling"} => Target(j) # at
  BY TargetIs, NamesAre, WorkingIsActive DEF LeaseHeld

LEMMA ClaimIs == \A u, c : Lease!Claim(u, c) => holder' = holder
  BY DEF Lease!Claim
LEMMA GiveUpIs == \A u, c : Lease!GiveUp(u, c) => holder' = holder
  BY DEF Lease!GiveUp
LEMMA ReleaseIs == \A u : Lease!Release(u) => holder' = [holder EXCEPT ![u] = None]
  BY DEF Lease!Release
LEMMA GrantIs ==
    \A u : Lease!Grant(u) =>
        holder[u] = None /\ holder' = [holder EXCEPT ![u] = Head(line[u])]
  BY DEF Lease!Grant

LEMMA TailOrdered ==
    ASSUME NEW q \in Seq(Updates), q # <<>>, Ordered(q)
    PROVE  /\ Tail(q) \in Seq(Updates) /\ Head(q) \in Updates /\ Ordered(Tail(q))
           /\ \A i \in 1..Len(Tail(q)) : /\ Tail(q)[i].by # Head(q).by
                                         /\ \E n \in 2..Len(q) : Tail(q)[i] = q[n]
  <1>1. /\ Tail(q) \in Seq(Updates) /\ Len(q) \in Nat \ {0} /\ Len(Tail(q)) = Len(q) - 1
        /\ Head(q) = q[1] /\ q[1] \in Updates
        /\ \A i \in 1..Len(Tail(q)) : i + 1 \in 2..Len(q) /\ Tail(q)[i] = q[i + 1]
    BY TailIs
  <1> DEFINE t == Tail(q)
  <1>2. \A i \in 1..Len(t) : i + 1 \in 1..Len(q) /\ i + 1 # 1 /\ 1 \in 1..Len(q)
    BY <1>1
  <1>3. \A i, k \in 1..Len(t) : (i = k <=> i + 1 = k + 1) /\ (i < k <=> i + 1 < k + 1)
    BY <1>1
  <1> HIDE DEF t
  <1>4. Ordered(t)
    BY <1>1, <1>2, <1>3 DEF Ordered, t
  <1>5. \A i \in 1..Len(t) : t[i].by # q[1].by
    BY <1>1, <1>2 DEF Ordered, t
  <1> QED
    BY <1>1, <1>2, <1>4, <1>5 DEF t

LEMMA AppendOrdered ==
    ASSUME NEW q \in Seq(Updates), NEW w \in Updates, Ordered(q),
           \A i \in 1..Len(q) : q[i].by # w.by,
           \A i \in 1..Len(q) : q[i].sim = w.sim =>
               /\ q[i].what \in {"begin", "recover"} => Harmless(w)
               /\ q[i].what = "promote" /\ q[i].by # Refresh => Harmless(w)
               /\ w.what = "promote" /\ w.by # Refresh => Harmless(q[i])
    PROVE  Ordered(Append(q, w))
  <1> DEFINE a == Append(q, w)
  <1>1. /\ Len(a) = Len(q) + 1 /\ Len(q) \in Nat
        /\ \A i \in 1..Len(q) : a[i] = q[i]
        /\ a[Len(q) + 1] = w
    BY AppendIs
  <1>2. \A i \in 1..Len(a) : i \in 1..Len(q) \/ i = Len(q) + 1
    BY <1>1
  <1>3. \A i \in 1..Len(q) : i < Len(q) + 1 /\ i # Len(q) + 1 /\ ~(Len(q) + 1 < i)
    BY <1>1
  <1>5. ~(Len(q) + 1 < Len(q) + 1)
    BY <1>1
  <1> HIDE DEF a
  <1>4. SUFFICES ASSUME NEW i \in 1..Len(a), NEW k \in 1..Len(a)
                 PROVE  /\ a[i].by = a[k].by => i = k
                        /\ i < k /\ a[i].what \in {"begin", "recover"} /\ a[k].sim = a[i].sim
                              => Harmless(a[k])
                        /\ i # k /\ a[i].what = "promote" /\ a[i].by # Refresh
                              /\ a[k].sim = a[i].sim => Harmless(a[k])
    BY DEF Ordered, a
  <1>6. CASE i \in 1..Len(q) /\ k \in 1..Len(q)
    BY <1>1, <1>6 DEF Ordered
  <1>7. CASE i \in 1..Len(q) /\ k = Len(q) + 1
    BY <1>1, <1>3, <1>7
  <1>8. CASE i = Len(q) + 1 /\ k \in 1..Len(q)
    BY <1>1, <1>3, <1>8
  <1>9. CASE i = Len(q) + 1 /\ k = Len(q) + 1
    BY <1>1, <1>5, <1>9
  <1> QED
    BY <1>2, <1>6, <1>7, <1>8, <1>9

-----------------------------------------------------------------------------
(* Steps of a job that leave the store to itself.                          *)

Same(k) ==
    /\ kind'[k] = kind[k] /\ targets'[k] = targets[k] /\ place'[k] = place[k]
    /\ goal'[k] = goal[k] /\ record'[k] = record[k] /\ phase'[k] = phase[k]

(* No job goes back to a target.                                           *)
Onward(k) ==
    phase[k] # "unused" =>
        /\ phase'[k] # "unused"
        /\ phase'[k] # "done" =>
              /\ phase[k] # "done"
              /\ targets'[k] = targets[k]
              /\ \/ place'[k] = place[k] /\ (phase[k] \in Late => phase'[k] \in Late)
                 \/ place'[k] = place[k] + 1

(* The update a job adds to the queue q.                                   *)
NewWrite(w, j, q) ==
    /\ w \in Updates /\ w.by = j /\ w.sim = Target(j)
    /\ Working(j) \/ Harmless(w)
    /\ w.what = "promote" => \A i \in 1..Len(q) : q[i].sim = w.sim => Harmless(q[i])
    /\ JobWrites(w, j)'

(* The queue without the job's own update.                                 *)
Others(j, q) ==
    /\ q \in Seq(Updates) /\ Ordered(q)
    /\ \A i \in 1..Len(q) : q[i].by # j /\ \E n \in 1..Len(writes) : q[i] = writes[n]

(* Where the step leads the job, and what it does with lease and turn.     *)
JobMoves(j) ==
    /\ \A k \in Jobs \ {j} : Same(k)
    /\ Onward(j)
    /\ UNCHANGED <<refresh, at, guest, guestAt>>
    /\ DOMAIN holder' = Simulators
    /\ \A s \in Simulators : holder'[s] = holder[s] \/ holder[s] = j
    /\ \/ turns' = turns
       \/ turns' = Append(turns, j)
       \/ turns # <<>> /\ turns' = Tail(turns) /\ Head(turns) = j

JobStep(j) ==
    /\ JobMoves(j)
    /\ UNCHANGED <<pending, checkpoint, forgotten>>
    /\ \A s \in Simulators :
          services'[s] = services[s] \/ (phase[j] = "mutating" /\ s = Target(j) /\ Changes(j))
    /\ \E q : /\ Others(j, q)
              /\ writes' = q \/ \E w : writes' = Append(q, w) /\ NewWrite(w, j, q)

(* What the step has to establish for the job itself.                      *)
JobHeld(j) ==
    /\ Working(j) => holder[Target(j)] = j
    /\ Working(j) /\ phase[j] # "turn" => turns # <<>> /\ Head(turns) = j
    /\ JobShape(j)

JobDone(j) ==
    /\ JobHeld(j) /\ Undone(j)
    /\ ~(phase[j] = "mutating" /\ Changes(j))

LEMMA SameIs ==
    ASSUME NEW k \in Jobs, Same(k)
    PROVE  /\ Target(k)' = Target(k) /\ Active(k)' = Active(k) /\ Working(k)' = Working(k)
           /\ Emergency(k)' = Emergency(k) /\ Aims(k)' = Aims(k) /\ Onward(k)
           /\ services'[Target(k)] = services[Target(k)] =>
                 Changes(k)' = Changes(k) /\ Journal(k)' = Journal(k)
  <1>1. /\ Target(k)' = Target(k) /\ Active(k)' = Active(k) /\ Working(k)' = Working(k)
        /\ Emergency(k)' = Emergency(k) /\ Aims(k)' = Aims(k)
    BY DEF Same, Target, Active, Working, Emergency, Aims
  <1>2. Onward(k)
    BY DEF Same, Onward
  <1>3. services'[Target(k)] = services[Target(k)] =>
            Changes(k)' = Changes(k) /\ Journal(k)' = Journal(k)
    BY <1>1 DEF Same, Changes, Journal, Write
  <1> QED
    BY <1>1, <1>2, <1>3

LEMMA LeasesInMove ==
    ASSUME IInv, TypeOK', NEW j \in Jobs, JobMoves(j), JobHeld(j)'
    PROVE  LeaseHeld'
  <1>1. turns \in Seq(Jobs) /\ TypeOK /\ LeaseHeld
    BY DEF IInv, TypeOK
  <1>2. ASSUME NEW k \in Jobs, Working(k)'
        PROVE  /\ holder'[Target(k)'] = k
               /\ phase'[k] # "turn" => turns' # <<>> /\ Head(turns') = k
    <2>1. CASE k = j
      BY <1>2, <2>1 DEF JobHeld
    <2>2. CASE k # j
      <3>1. Same(k) /\ Working(k) /\ Target(k)' = Target(k) /\ phase'[k] = phase[k]
        BY <1>2, <2>2, SameIs DEF JobMoves, Same
      <3>2. holder[Target(k)] = k /\ Target(k) \in Simulators
        BY <1>1, <3>1, Apart DEF LeaseHeld
      <3>3. holder'[Target(k)] = k
        BY <2>2, <3>2 DEF JobMoves
      <3>4. phase[k] # "turn" => turns' # <<>> /\ Head(turns') = k
        <4> SUFFICES ASSUME phase[k] # "turn"
                     PROVE  turns' # <<>> /\ Head(turns') = k
          OBVIOUS
        <4>1. turns # <<>> /\ Head(turns) = k
          BY <1>1, <3>1 DEF LeaseHeld
        <4>2. turns' = turns \/ turns' = Append(turns, j)
          BY <2>2, <4>1 DEF JobMoves
        <4> QED
          BY <1>1, <4>1, <4>2
      <3> QED
        BY <3>1, <3>3, <3>4
    <2> QED
      BY <2>1, <2>2
  <1>3. refresh' \in {"inspecting", "settling"} => holder'[at'] = Refresh
    <2>1. refresh' = refresh /\ at' = at
      BY DEF JobMoves
    <2>2. refresh \in {"inspecting", "settling"} => holder[at] = Refresh /\ at \in Simulators
      BY DEF IInv, LeaseHeld, Shape
    <2> QED
      BY <2>1, <2>2, NamesAre DEF JobMoves
  <1> QED
    BY <1>2, <1>3 DEF LeaseHeld

LEMMA ShapeInMove ==
    ASSUME IInv, TypeOK', NEW j \in Jobs, JobMoves(j), JobHeld(j)',
           forgotten \subseteq forgotten', place' \in [Jobs -> Nat \ {0}]
    PROVE  Shape'
  <1>1. turns \in Seq(Jobs) /\ TypeOK /\ Shape
    BY DEF IInv, TypeOK
  <1>2. ASSUME NEW k \in Jobs
        PROVE  JobShape(k)'
    <2>1. CASE k = j
      BY <2>1 DEF JobHeld
    <2>2. CASE k # j
      <3>1. Same(k) /\ JobShape(k)
        BY <1>1, <2>2 DEF JobMoves, Shape
      <3>3. phase[k] = "turn" => \E i \in 1..Len(turns') : turns'[i] = k
        <4> SUFFICES ASSUME phase[k] = "turn"
                     PROVE  \E i \in 1..Len(turns') : turns'[i] = k
          OBVIOUS
        <4>1. PICK i \in 1..Len(turns) : turns[i] = k
          BY <3>1 DEF JobShape
        <4>2. CASE turns' = turns
          BY <4>1, <4>2
        <4>3. CASE turns' = Append(turns, j)
          BY <1>1, <4>1, <4>3
        <4>4. CASE turns # <<>> /\ turns' = Tail(turns) /\ Head(turns) = j
          <5>1. /\ Len(turns) \in Nat \ {0} /\ Len(turns') = Len(turns) - 1
                /\ turns[1] = j
                /\ \A n \in 1..Len(turns') : turns'[n] = turns[n + 1]
            BY <1>1, <4>4, TailIs
          <5>2. i # 1
            BY <2>2, <4>1, <5>1
          <5>3. i - 1 \in 1..Len(turns') /\ (i - 1) + 1 = i
            BY <5>1, <5>2
          <5> QED
            BY <4>1, <5>1, <5>3
        <4> QED
          BY <4>2, <4>3, <4>4 DEF JobMoves
      <3>4. Target(k)' = Target(k) /\ Aims(k)' = Aims(k)
        BY <3>1, SameIs
      <3> QED
        BY <3>1, <3>3, <3>4 DEF JobShape, Same
    <2> QED
      BY <2>1, <2>2
  <1>3. /\ guest' \in {"line", "refreshing", "back"} => guestAt' \in Simulators
        /\ guest' \in {"refreshing", "back"} => holder'[guestAt'] = Guest
    <2>1. /\ guest \in {"line", "refreshing", "back"} => guestAt \in Simulators
          /\ guest \in {"refreshing", "back"} => holder[guestAt] = Guest
      BY <1>1 DEF Shape
    <2>2. guestAt \in Simulators => holder'[guestAt] = holder[guestAt] \/ holder[guestAt] = j
      BY DEF JobMoves
    <2> QED
      BY <2>1, <2>2, NamesAre DEF JobMoves
  <1>4. refresh' \in {"trying", "inspecting", "settling"} => at' \in Simulators
    BY <1>1 DEF JobMoves, Shape
  <1>5. DOMAIN holder' = Simulators
    BY DEF JobMoves
  <1> QED
    BY <1>2, <1>3, <1>4, <1>5 DEF Shape

LEMMA RecordsInStep ==
    ASSUME TypeOK, TypeOK', NEW s \in Simulators, RecordOK(s),
           pending'[s] # None => /\ pending[s] # None /\ pending'[s].id = pending[s].id
                                 /\ pending'[s].after = pending[s].after,
           forgotten \subseteq forgotten', place \in [Jobs -> Nat \ {0}],
           \A k \in Jobs : Onward(k)
    PROVE  RecordOK(s)'
  <1> SUFFICES ASSUME pending'[s] # None
               PROVE  RecordOK(s)'
    BY DEF RecordOK
  <1> DEFINE k == pending[s].id
  <1>1. k \in Jobs /\ pending'[s].id = k /\ k = pending[s].id
    BY DEF TypeOK, Records
  <1> HIDE DEF k
  <1>2. phase[k] # "unused" /\ phase'[k] # "unused"
    BY <1>1 DEF RecordOK, Onward
  <1>3. s \notin forgotten' => pending'[s].after # "partial"
    BY DEF RecordOK
  <1>4. ASSUME phase'[k] # "done"
        PROVE  \E i \in 1..place'[k] :
                  /\ i \in DOMAIN targets'[k] /\ targets'[k][i] = s
                  /\ i = place'[k] => phase'[k] \in Late
    <2>1. /\ phase[k] # "done" /\ targets'[k] = targets[k]
          /\ \/ place'[k] = place[k] /\ (phase[k] \in Late => phase'[k] \in Late)
             \/ place'[k] = place[k] + 1
      BY <1>1, <1>2, <1>4 DEF Onward
    <2>2. PICK i \in 1..place[k] : /\ i \in DOMAIN targets[k] /\ targets[k][i] = s
                                   /\ i = place[k] => phase[k] \in Late
      BY <1>1, <1>2, <2>1 DEF RecordOK, Active
    <2>3. place[k] \in Nat
      BY <1>1
    <2>4. i \in 1..place'[k] /\ (i = place'[k] => phase'[k] \in Late)
      BY <2>1, <2>2, <2>3
    <2> QED
      BY <2>1, <2>2, <2>4
  <1> QED
    BY <1>1, <1>2, <1>3, <1>4 DEF RecordOK, Active

LEMMA OtherUpdates ==
    ASSUME NEW j \in Jobs, NEW q, Others(j, q),
           writes' = q \/ \E w : writes' = Append(q, w) /\ NewWrite(w, j, q),
           NEW n \in 1..Len(writes'), NEW v, v = writes'[n]
    PROVE  \/ \E i \in 1..Len(writes) : v = writes[i] /\ v.by # j
           \/ NewWrite(v, j, q)
  <1>1. CASE writes' = q
    BY <1>1 DEF Others
  <1>2. CASE writes' # q
    <2>1. PICK w : writes' = Append(q, w) /\ NewWrite(w, j, q)
      BY <1>2
    <2>2. q \in Seq(Updates) /\ w \in Updates
      BY <2>1 DEF Others, NewWrite
    <2>3. /\ Len(writes') = Len(q) + 1 /\ Len(q) \in Nat
          /\ \A i \in 1..Len(q) : writes'[i] = q[i]
          /\ writes'[Len(q) + 1] = w
      BY <2>1, <2>2, AppendIs
    <2>4. n \in 1..Len(q) \/ n = Len(q) + 1
      BY <2>3
    <2>5. CASE n \in 1..Len(q)
      <3>1. writes'[n] = q[n]
        BY <2>3, <2>5
      <3> QED
        BY <2>5, <3>1 DEF Others
    <2>6. CASE n = Len(q) + 1
      BY <2>1, <2>3, <2>6
    <2> QED
      BY <2>4, <2>5, <2>6
  <1> QED
    BY <1>1, <1>2

(* What other jobs at work rely on stays.                                  *)
LEMMA UndoneFrame ==
    ASSUME TypeOK, NEW k \in Jobs, Same(k), Undone(k), Working(k),
           services'[Target(k)] = services[Target(k)],
           pending[Target(k)] = None => pending'[Target(k)] = None,
           pending'[Target(k)] # None => /\ pending'[Target(k)].id = pending[Target(k)].id
                                         /\ pending'[Target(k)].before = pending[Target(k)].before
    PROVE  Undone(k)'
  <1>1. /\ Target(k)' = Target(k) /\ Emergency(k)' = Emergency(k) /\ Changes(k)' = Changes(k)
    BY SameIs
  <1> QED
    BY <1>1 DEF Undone, Same

LEMMA BegunFrame ==
    ASSUME TypeOK, NEW k \in Jobs, Same(k), Begun(k), phase[k] = "mutating",
           services'[Target(k)] = services[Target(k)], pending'[Target(k)] = pending[Target(k)],
           \A n \in 1..Len(writes') : writes'[n].sim = Target(k) =>
               Harmless(writes'[n]) \/ \E i \in 1..Len(writes) : writes'[n] = writes[i]
    PROVE  Begun(k)'
  <1>1. /\ Target(k)' = Target(k) /\ Emergency(k)' = Emergency(k) /\ Changes(k)' = Changes(k)
    BY SameIs
  <1> SUFFICES ASSUME Changes(k)
               PROVE  Begun(k)'
    BY <1>1 DEF Begun
  <1>2. \A n \in 1..Len(writes') : writes'[n].sim = Target(k) => Harmless(writes'[n])
    BY DEF Begun
  <1> QED
    BY <1>1, <1>2 DEF Begun, Same, Harmless

LEMMA OwnInJobStep ==
    ASSUME IInv, TypeOK', NEW j \in Jobs, JobStep(j), JobDone(j)', NEW k \in Jobs
    PROVE  Undone(k)' /\ Begun(k)'
  <1>1. CASE k = j
    BY <1>1 DEF JobDone, JobHeld, Begun
  <1>2. CASE k # j
    <2>1. Same(k) /\ TypeOK /\ LeaseHeld /\ Undone(k) /\ Begun(k)
      BY <1>2 DEF JobStep, JobMoves, IInv
    <2>2. CASE ~Working(k)
      BY <2>1, <2>2 DEF Undone, Begun, Same, Working
    <2>3. CASE Working(k)
      <3>1. Target(k) \in Simulators /\ (Working(j) => Target(k) # Target(j))
        BY <1>2, <2>1, <2>3, Apart
      <3>2. services'[Target(k)] = services[Target(k)] /\ pending'[Target(k)] = pending[Target(k)]
        BY <3>1 DEF JobStep, JobMoves, Working
      <3>3. PICK q : /\ Others(j, q)
                     /\ writes' = q \/ \E w : writes' = Append(q, w) /\ NewWrite(w, j, q)
        BY DEF JobStep, JobMoves
      <3>4. ASSUME NEW n \in 1..Len(writes'), writes'[n].sim = Target(k)
            PROVE  Harmless(writes'[n]) \/ \E i \in 1..Len(writes) : writes'[n] = writes[i]
        BY <3>1, <3>3, <3>4, OtherUpdates DEF NewWrite
      <3>5. phase[k] = "mutating" => Begun(k)'
        BY <2>1, <3>2, <3>4, BegunFrame
      <3>6. phase[k] # "mutating" => Begun(k)'
        BY <2>1 DEF Begun, Same
      <3> QED
        BY <2>1, <2>3, <3>2, <3>5, <3>6, UndoneFrame
    <2> QED
      BY <2>2, <2>3
  <1> QED
    BY <1>1, <1>2

LEMMA WriteFrame ==
    ASSUME NEW k \in Jobs, NEW w, Same(k), JobWrites(w, k), pending'[w.sim] = pending[w.sim],
           services'[w.sim] = services[w.sim] \/ (phase[k] = "noting" /\ w.what # "complete")
    PROVE  JobWrites(w, k)'
  <1>1. /\ Target(k)' = Target(k)
        /\ services'[Target(k)] = services[Target(k)] => Journal(k)' = Journal(k)
    BY SameIs
  <1> QED
    BY <1>1 DEF JobWrites, Same

(* A job with an update in the queue and its lease is at the Simulator     *)
(* that update is for.                                                     *)
LEMMA WriterIs ==
    ASSUME IInv, NEW i \in 1..Len(writes), NEW w, w = writes[i], w.by # Refresh
    PROVE  /\ w \in Updates /\ w.by \in Jobs /\ w.sim \in Simulators
           /\ JobWrites(w, w.by)
           /\ phase[w.by] \in {"beginning", "settling", "noting"}
           /\ Working(w.by) \/ phase[w.by] = "noting"
           /\ Active(w.by)
           /\ Target(w.by) = w.sim
           /\ w.what \in {"begin", "recover"} => phase[w.by] = "beginning"
           /\ w.what = "promote" => phase[w.by] = "settling"
  <1>1. w \in Updates
    BY DEF IInv, TypeOK
  <1>2. w.by \in Jobs /\ w.sim \in Simulators
    BY <1>1 DEF Updates
  <1>3. JobWrites(w, w.by)
    BY <1>1 DEF IInv, Queued, WriteOK
  <1>4. phase[w.by] \in {"beginning", "settling", "noting"} /\ w.sim = Target(w.by)
    BY <1>3 DEF JobWrites
  <1>5. w.what \in {"begin", "recover"} => phase[w.by] = "beginning"
    BY <1>3, <1>4 DEF JobWrites
  <1>6. w.what = "promote" => phase[w.by] = "settling"
    BY <1>3, <1>4 DEF JobWrites, Journal, Write
  <1> QED
    BY <1>1, <1>2, <1>3, <1>4, <1>5, <1>6 DEF Working, Active

LEMMA QueuedInJobStep ==
    ASSUME IInv, TypeOK', NEW j \in Jobs, JobStep(j), JobDone(j)'
    PROVE  Queued'
  <1>1. PICK q : /\ Others(j, q)
                 /\ writes' = q \/ \E w : writes' = Append(q, w) /\ NewWrite(w, j, q)
    BY DEF JobStep, JobMoves
  <1>2. TypeOK /\ LeaseHeld
        /\ \A w \in Updates : (\E i \in 1..Len(writes) : w = writes[i]) => WriteOK(w)
    BY DEF IInv, Queued
  <1>3. ASSUME NEW v \in Updates, NEW n \in 1..Len(writes'), v = writes'[n]
        PROVE  WriteOK(v)'
    <2>1. CASE NewWrite(v, j, q)
      <3>1. v.by = j /\ j # Refresh /\ JobWrites(v, j)'
        BY <2>1, NamesAre DEF NewWrite
      <3> QED
        BY <3>1 DEF WriteOK
    <2>2. CASE \E i \in 1..Len(writes) : v = writes[i] /\ v.by # j
      <3>1. PICK i \in 1..Len(writes) : v = writes[i] /\ v.by # j
        BY <2>2
      <3>2. CASE v.by = Refresh
        <4>1. RefreshWrites(v)
          BY <1>2, <3>1, <3>2 DEF WriteOK
        <4>2. refresh = "settling" /\ at \in Simulators
          BY <4>1 DEF RefreshWrites, IInv, Shape
        <4>3. services'[at] = services[at] /\ pending' = pending /\ refresh' = refresh /\ at' = at
          BY <1>2, <4>2, Apart DEF JobStep, JobMoves, Working
        <4> QED
          BY <3>2, <4>1, <4>3 DEF WriteOK, RefreshWrites
      <3>3. CASE v.by # Refresh
        <4>1. PICK k \in Jobs :
                 /\ k = v.by /\ JobWrites(v, k) /\ Target(k) = v.sim
                 /\ v.sim \in Simulators
                 /\ Working(k) \/ phase[k] = "noting"
          BY <3>1, <3>3, WriterIs
        <4>2. k # j
          BY <3>1, <4>1
        <4>3. Same(k) /\ pending' = pending
          BY <4>1, <4>2 DEF JobStep, JobMoves
        <4>4. \/ services'[v.sim] = services[v.sim]
              \/ phase[k] = "noting" /\ v.what # "complete"
          <5> SUFFICES ASSUME services'[v.sim] # services[v.sim]
                       PROVE  phase[k] = "noting" /\ v.what # "complete"
            OBVIOUS
          <5>1. phase[j] = "mutating" /\ v.sim = Target(j) /\ Changes(j)
            BY <4>1 DEF JobStep, JobMoves
          <5>2. ~Working(k)
            BY <1>2, <4>1, <4>2, <5>1, Apart DEF Working
          <5>3. Harmless(v)
            BY <3>1, <5>1 DEF IInv, Begun
          <5> QED
            BY <4>1, <5>2, <5>3 DEF Harmless
        <4>5. JobWrites(v, k)'
          BY <4>1, <4>3, <4>4, WriteFrame
        <4> QED
          BY <3>3, <4>1, <4>5 DEF WriteOK
      <3> QED
        BY <3>2, <3>3
    <2> QED
      BY <1>1, <1>3, <2>1, <2>2, OtherUpdates
  <1>4. Ordered(writes')
    <2>1. CASE writes' = q
      BY <1>1, <2>1 DEF Others
    <2>2. CASE writes' # q
      <3>1. PICK w : writes' = Append(q, w) /\ NewWrite(w, j, q)
        BY <1>1, <2>2
      <3>2. q \in Seq(Updates) /\ w \in Updates /\ Ordered(q) /\ w.by = j /\ w.sim = Target(j)
        BY <1>1, <3>1 DEF NewWrite, Others
      <3>3. ASSUME NEW i \in 1..Len(q), q[i].sim = w.sim
            PROVE  /\ q[i].what \in {"begin", "recover"} => Harmless(w)
                   /\ q[i].what = "promote" /\ q[i].by # Refresh => Harmless(w)
                   /\ w.what = "promote" /\ w.by # Refresh => Harmless(q[i])
        <4>1. q[i].by # j /\ \E n \in 1..Len(writes) : q[i] = writes[n]
          BY <1>1 DEF Others
        <4>2. PICK n \in 1..Len(writes) : q[i] = writes[n]
          BY <4>1
        <4>3. ASSUME \/ q[i].what \in {"begin", "recover"}
                     \/ q[i].what = "promote" /\ q[i].by # Refresh
              PROVE  Harmless(w)
          <5>1. q[i].by # Refresh
            <6>1. q[i] \in Updates
              BY <3>2
            <6>2. WriteOK(q[i])
              BY <1>2, <4>2, <6>1
            <6> QED
              BY <4>3, <6>2 DEF WriteOK, RefreshWrites
          <5>2. q[i].by \in Jobs /\ Working(q[i].by) /\ Target(q[i].by) = w.sim
            <6>1. /\ q[i].by \in Jobs /\ Target(q[i].by) = w.sim
                  /\ Working(q[i].by) \/ phase[q[i].by] = "noting"
                  /\ q[i].what \in {"begin", "recover"} => phase[q[i].by] = "beginning"
                  /\ q[i].what = "promote" => phase[q[i].by] = "settling"
              BY <3>3, <4>2, <5>1, WriterIs
            <6> QED
              BY <4>3, <6>1
          <5>3. ~Working(j)
            BY <1>2, <3>2, <4>1, <5>2, Apart
          <5> QED
            BY <3>1, <5>3 DEF NewWrite
        <4>4. w.what = "promote" => Harmless(q[i])
          BY <3>1, <3>3 DEF NewWrite
        <4> QED
          BY <4>3, <4>4
      <3>4. \A i \in 1..Len(q) : q[i].by # w.by
        BY <1>1, <3>2 DEF Others
      <3>5. Ordered(Append(q, w))
        BY <3>2, <3>3, <3>4, AppendOrdered
      <3> QED
        BY <3>1, <3>5
    <2> QED
      BY <2>1, <2>2
  <1> QED
    BY <1>3, <1>4 DEF Queued

LEMMA SoleInJobStep ==
    ASSUME IInv, NEW j \in Jobs, JobStep(j)
    PROVE  Sole'
  <1> SUFFICES ASSUME refresh \in {"inspecting", "settling"}
               PROVE  Sole'
    BY DEF Sole, JobStep, JobMoves
  <1>1. PICK q : /\ Others(j, q)
                 /\ writes' = q \/ \E w : writes' = Append(q, w) /\ NewWrite(w, j, q)
    BY DEF JobStep, JobMoves
  <1>2. /\ pending[at] # None
        /\ \A i \in 1..Len(writes) :
              writes[i].sim = at /\ writes[i].by # Refresh => Harmless(writes[i])
    BY DEF IInv, Sole
  <1>3. Working(j) => Target(j) # at
    BY Apart DEF IInv
  <1>4. ASSUME NEW n \in 1..Len(writes'), writes'[n].sim = at, writes'[n].by # Refresh
        PROVE  Harmless(writes'[n])
    BY <1>1, <1>2, <1>3, <1>4, OtherUpdates DEF NewWrite
  <1> QED
    BY <1>2, <1>4 DEF Sole, JobStep, JobMoves

LEMMA StoreInJobStep ==
    ASSUME IInv, NEW j \in Jobs, JobStep(j)
    PROVE  NoChangeForgotten' /\ RestorePointsAreWhole'
  <1>1. ASSUME NEW s \in Simulators, services'[s] = "partial", s \notin forgotten
        PROVE  pending[s] # None
    <2>1. CASE services'[s] = services[s]
      BY <1>1, <2>1 DEF IInv, NoChangeForgotten
    <2>2. CASE services'[s] # services[s]
      <3>1. phase[j] = "mutating" /\ s = Target(j) /\ Changes(j)
        BY <2>2 DEF JobStep, JobMoves
      <3> QED
        BY <3>1 DEF IInv, Begun
    <2> QED
      BY <2>1, <2>2
  <1>2. NoChangeForgotten'
    BY <1>1 DEF NoChangeForgotten, JobStep, JobMoves
  <1>3. RestorePointsAreWhole'
    BY DEF IInv, RestorePointsAreWhole, JobStep, JobMoves
  <1> QED
    BY <1>2, <1>3

LEMMA JobStepKept ==
    ASSUME IInv, TypeOK', NEW j \in Jobs, JobStep(j), JobDone(j)',
           place' \in [Jobs -> Nat \ {0}]
    PROVE  IInv'
  <1>1. LeaseHeld' /\ Shape' /\ Queued' /\ Sole' /\ NoChangeForgotten' /\ RestorePointsAreWhole'
    <2>1. JobMoves(j) /\ JobHeld(j)' /\ forgotten' = forgotten
      BY DEF JobStep, JobDone
    <2> QED
      BY <2>1, LeasesInMove, ShapeInMove, QueuedInJobStep, SoleInJobStep, StoreInJobStep
  <1>2. \A k \in Jobs : Undone(k)' /\ Begun(k)'
    BY OwnInJobStep
  <1>3. \A k \in Jobs : Onward(k)
    BY SameIs DEF JobStep, JobMoves
  <1>4. \A s \in Simulators : RecordOK(s)'
    BY <1>3, RecordsInStep DEF IInv, Shape, JobStep, JobMoves
  <1> QED
    BY <1>1, <1>2, <1>4 DEF IInv

-----------------------------------------------------------------------------
(* What a failure records. *)
LEMMA OutcomeIs ==
    ASSUME IInv, NEW j \in Jobs, Active(j), NEW safe \in BOOLEAN,
           phase[j] = "line" => ~safe,
           safe => phase[j] \in {"preparing", "mutating"}
    PROVE  LET w == Bookkeeping(j, safe)
               p == pending[Target(j)]
           IN  /\ w \in Updates /\ w.by = j /\ w.sim = Target(j)
               /\ w.what \in {"note", "keep", "unrecover", "complete"}
               /\ phase[j] = "line" => Harmless(w)
               /\ w.what = "complete" => /\ safe /\ w.id = j /\ p # None
                                         /\ services[Target(j)] = p.before
  <1> DEFINE p == pending[Target(j)]
             w == Bookkeeping(j, safe)
  <1>1. /\ Target(j) \in Simulators /\ p \in Records \cup {None}
    BY TargetIs DEF IInv, TypeOK
  <1>2. /\ w.by = j /\ w.sim = Target(j) /\ w.what = Outcome(j, safe)
        /\ w.id = IF p = None THEN None ELSE p.id
        /\ w = [by |-> j, sim |-> Target(j), what |-> Outcome(j, safe),
                id |-> IF p = None THEN None ELSE p.id, before |-> None, after |-> None]
    BY DEF Bookkeeping, Write
  <1>3. Outcome(j, safe) \in {"note", "keep", "unrecover", "complete"}
    BY DEF Outcome
  <1>4. (IF p = None THEN None ELSE p.id) \in Jobs \cup {None}
    BY <1>1 DEF Records
  <1>5. w \in Updates
    BY <1>1, <1>2, <1>3, <1>4 DEF Updates, Whats
  <1>6. ASSUME phase[j] = "line"
        PROVE  Harmless(w)
    <2>1. record[j] = None
      BY <1>6 DEF IInv, Shape, JobShape
    <2>2. ~Emergency(j)
      BY <2>1 DEF Emergency
    <2>3. Outcome(j, safe) \in {"note", "keep"}
      BY <1>6, <2>2 DEF Outcome
    <2> QED
      BY <1>2, <2>3 DEF Harmless
  <1>7. ASSUME Outcome(j, safe) = "complete"
        PROVE  /\ safe /\ p # None /\ p.id = j
               /\ services[Target(j)] = p.before
    <2>1. safe /\ p # None /\ ~Emergency(j)
      BY <1>7 DEF Outcome
    <2>2. phase[j] = "mutating" /\ Changes(j)
      BY <2>1 DEF IInv, Undone
    <2>3. p.id = j /\ p.before = services[Target(j)]
      BY <2>1, <2>2 DEF IInv, Begun
    <2> QED
      BY <2>1, <2>3
  <1> HIDE DEF w, p
  <1>8. w.what = "complete" => safe /\ w.id = j /\ p # None /\ services[Target(j)] = p.before
    BY <1>2, <1>7
  <1> QED
    BY <1>2, <1>3, <1>5, <1>6, <1>8 DEF w, p

LEMMA ThrowsKept ==
    ASSUME IInv, NEW j \in Jobs, NEW safe \in BOOLEAN, NEW q, Others(j, q), Throws(j, safe, q),
           UNCHANGED <<pending, checkpoint, forgotten, refresh, at, guest, guestAt>>,
           services' \in [Simulators -> ServiceSets],
           \A s \in Simulators :
               services'[s] = services[s] \/ (phase[j] = "mutating" /\ s = Target(j) /\ Changes(j)),
           phase[j] \in {"line", "turn", "preparing", "beginning", "mutating", "settling"},
           phase[j] = "turn" => Head(turns) = j,
           phase[j] = "line" => ~safe,
           safe => phase[j] \in {"preparing", "mutating"} /\ services' = services
    PROVE  IInv'
  <1>1. TypeOK /\ LeaseHeld /\ Active(j) /\ JobShape(j)
    BY DEF IInv, Active, Shape
  <1>2. Target(j) \in Simulators
    BY <1>1, TargetIs
  <1>3. DOMAIN holder' = Simulators /\ \A s \in Simulators : holder'[s] = holder[s] \/ holder[s] = j
    <2>1. DOMAIN holder = Simulators
      BY DEF IInv, Shape
    <2>2. CASE holder[Target(j)] = j
      <3>1. holder' = [holder EXCEPT ![Target(j)] = None]
        BY <2>2, ReleaseIs DEF Throws
      <3> QED
        BY <2>1, <2>2, <3>1
    <2>3. CASE holder[Target(j)] # j
      <3>1. holder' = holder
        BY <2>3, GiveUpIs DEF Throws
      <3> QED
        BY <2>1, <3>1
    <2> QED
      BY <2>2, <2>3
  <1>4. \/ turns' = turns
        \/ turns # <<>> /\ turns' = Tail(turns) /\ Head(turns) = j
    <2>1. CASE phase[j] = "line"
      BY <2>1 DEF Throws
    <2>2. CASE phase[j] = "turn"
      <3>1. turns # <<>>
        <4>1. \E i \in 1..Len(turns) : turns[i] = j
          BY <1>1, <2>2 DEF JobShape
        <4>2. Len(<<>>) = 0
          OBVIOUS
        <4> QED
          BY <4>1, <4>2
      <3> QED
        BY <2>2, <3>1 DEF Throws
    <2>3. CASE phase[j] \in {"preparing", "beginning", "mutating", "settling"}
      <3>1. turns # <<>> /\ Head(turns) = j
        BY <1>1, <2>3 DEF LeaseHeld, Working
      <3> QED
        BY <2>3, <3>1 DEF Throws
    <2> QED
      BY <2>1, <2>2, <2>3
  <1>5. /\ kind' = kind /\ targets' = targets /\ place' = place /\ goal' = goal /\ record' = record
        /\ phase' = [phase EXCEPT ![j] = IF kind[j] = "forget" THEN "next" ELSE "noting"]
        /\ phase \in [Jobs -> Phases]
    BY <1>1 DEF Throws, taskVars, TypeOK
  <1>6. /\ phase'[j] = IF kind[j] = "forget" THEN "next" ELSE "noting"
        /\ \A k \in Jobs \ {j} : phase'[k] = phase[k]
        /\ phase' \in [Jobs -> Phases]
    BY <1>5 DEF Phases
  <1>7. \A k \in Jobs \ {j} : Same(k)
    BY <1>5, <1>6 DEF Same
  <1>8. Onward(j)
    BY <1>1, <1>5, <1>6 DEF Onward, Late, Active
  <1>9. writes' = q \/ \E w : writes' = Append(q, w) /\ NewWrite(w, j, q)
    <2>1. CASE kind[j] = "forget"
      BY <2>1 DEF Throws
    <2>2. CASE kind[j] # "forget"
      <3>1. PICK w \in {Bookkeeping(j, safe)} : w = Bookkeeping(j, safe)
        OBVIOUS
      <3>2. /\ w \in Updates /\ w.by = j /\ w.sim = Target(j)
            /\ w.what \in {"note", "keep", "unrecover", "complete"}
            /\ phase[j] = "line" => Harmless(w)
            /\ w.what = "complete" => /\ safe /\ w.id = j /\ pending[Target(j)] # None
                                      /\ services[Target(j)] = pending[Target(j)].before
        BY <1>1, <3>1, OutcomeIs
      <3>3. writes' = Append(q, w)
        BY <2>2, <3>1 DEF Throws
      <3>4. Working(j) \/ Harmless(w)
        BY <3>2 DEF Working
      <3>5. Target(j)' = Target(j)
        BY <1>5 DEF Target
      <3>6. JobWrites(w, j)'
        BY <1>6, <2>2, <3>2, <3>5 DEF JobWrites
      <3>7. NewWrite(w, j, q)
        BY <3>2, <3>4, <3>6 DEF NewWrite
      <3> QED
        BY <3>3, <3>7
    <2> QED
      BY <2>1, <2>2
  <1>10. JobStep(j)
    BY <1>3, <1>4, <1>7, <1>8, <1>9 DEF JobStep, JobMoves
  <1>11. JobDone(j)'
    <2>1. ~Working(j)' /\ ~Aims(j)'
      BY <1>6 DEF Working, Aims
    <2>2. JobShape(j)'
      BY <1>1, <1>5, <1>6, <2>1 DEF JobShape
    <2>3. Undone(j)' /\ ~(phase'[j] = "mutating")
      BY <1>6 DEF Undone
    <2> QED
      BY <2>1, <2>2, <2>3 DEF JobDone, JobHeld
  <1>12. TypeOK'
    <2>1. turns' \in Seq(Jobs)
      <3>1. turns \in Seq(Jobs)
        BY <1>1 DEF TypeOK
      <3>2. turns # <<>> => Tail(turns) \in Seq(Jobs)
        BY <3>1, TailIs
      <3> QED
        BY <1>4, <3>1, <3>2
    <2>2. writes' \in Seq(Updates)
      BY <1>9 DEF Others, NewWrite
    <2>3. \A k \in Jobs : Active(k)' => place'[k] \in DOMAIN targets'[k]
      BY <1>1, <1>5, <1>6 DEF TypeOK, Active
    <2> QED
      BY <1>1, <1>5, <1>6, <2>1, <2>2, <2>3 DEF TypeOK
  <1> QED
    BY <1>5, <1>10, <1>11, <1>12, JobStepKept DEF IInv, Shape

LEMMA OthersAre ==
    ASSUME IInv, NEW j \in Jobs, phase[j] \notin {"beginning", "settling", "noting"}
    PROVE  Others(j, writes)
  <1>1. writes \in Seq(Updates) /\ Ordered(writes)
    BY DEF IInv, TypeOK, Queued
  <1>2. \A i \in 1..Len(writes) : writes[i].by # j
    BY WriterIs, NamesAre
  <1> QED
    BY <1>1, <1>2 DEF Others

LEMMA OthersBehind ==
    ASSUME IInv, writes # <<>>
    PROVE  /\ Head(writes) = writes[1] /\ 1 \in 1..Len(writes) /\ Head(writes) \in Updates
           /\ WriteOK(Head(writes))
           /\ Others(Head(writes).by, Tail(writes))
           /\ \A i \in 1..Len(Tail(writes)) : \E n \in 2..Len(writes) : Tail(writes)[i] = writes[n]
  <1>1. writes \in Seq(Updates) /\ Ordered(writes)
    BY DEF IInv, TypeOK, Queued
  <1>2. /\ Tail(writes) \in Seq(Updates) /\ Head(writes) \in Updates /\ Ordered(Tail(writes))
        /\ \A i \in 1..Len(Tail(writes)) :
              /\ Tail(writes)[i].by # Head(writes).by
              /\ \E n \in 2..Len(writes) : Tail(writes)[i] = writes[n]
    BY <1>1, TailOrdered
  <1>3. /\ Len(writes) \in Nat \ {0} /\ Head(writes) = writes[1]
    BY <1>1, TailIs
  <1>4. 1 \in 1..Len(writes) /\ 2..Len(writes) \subseteq 1..Len(writes)
    BY <1>3
  <1>5. WriteOK(Head(writes))
    <2>1. PICK w \in Updates : w = Head(writes)
      BY <1>2
    <2>2. WriteOK(w)
      BY <1>3, <1>4, <2>1 DEF IInv, Queued
    <2> QED
      BY <2>1, <2>2
  <1>6. Others(Head(writes).by, Tail(writes))
    BY <1>2, <1>4 DEF Others
  <1> QED
    BY <1>2, <1>3, <1>4, <1>5, <1>6

LEMMA LeaveLineKept ==
    ASSUME IInv, NEW j \in Jobs, LeaveLine(j)
    PROVE  IInv'
  <1>1. /\ phase[j] = "line" /\ Throws(j, FALSE, writes)
        /\ UNCHANGED <<services, pending, checkpoint, forgotten, refresh, at, guest, guestAt>>
    BY DEF LeaveLine, storeVars, refreshVars, guestVars
  <1>2. Others(j, writes) /\ services \in [Simulators -> ServiceSets]
    BY <1>1, OthersAre DEF IInv, TypeOK
  <1> QED
    BY <1>1, <1>2, ThrowsKept

LEMMA TurnRefusedKept ==
    ASSUME IInv, NEW j \in Jobs, TurnRefused(j)
    PROVE  IInv'
  <1>1. /\ phase[j] = "turn" /\ Head(turns) = j /\ Throws(j, FALSE, writes)
        /\ UNCHANGED <<services, pending, checkpoint, forgotten, refresh, at, guest, guestAt>>
    BY DEF TurnRefused, HasTurn, storeVars, refreshVars, guestVars
  <1>2. Others(j, writes) /\ services \in [Simulators -> ServiceSets]
    BY <1>1, OthersAre DEF IInv, TypeOK
  <1> QED
    BY <1>1, <1>2, ThrowsKept

LEMMA PrepareFailsKept ==
    ASSUME IInv, NEW j \in Jobs, PrepareFails(j)
    PROVE  IInv'
  <1>1. /\ phase[j] = "preparing"
        /\ UNCHANGED <<services, pending, checkpoint, forgotten, refresh, at, guest, guestAt>>
    BY DEF PrepareFails, storeVars, refreshVars, guestVars
  <1>2. PICK safe \in BOOLEAN : Throws(j, safe, writes)
    BY DEF PrepareFails
  <1>3. Others(j, writes) /\ services \in [Simulators -> ServiceSets]
    BY <1>1, OthersAre DEF IInv, TypeOK
  <1> QED
    BY <1>1, <1>2, <1>3, ThrowsKept

LEMMA RolledBackKept ==
    ASSUME IInv, NEW j \in Jobs, RolledBack(j)
    PROVE  IInv'
  <1>1. /\ phase[j] = "mutating" /\ Throws(j, TRUE, writes)
        /\ UNCHANGED <<services, pending, checkpoint, forgotten, refresh, at, guest, guestAt>>
    BY DEF RolledBack, storeVars, refreshVars, guestVars
  <1>2. Others(j, writes) /\ services \in [Simulators -> ServiceSets]
    BY <1>1, OthersAre DEF IInv, TypeOK
  <1> QED
    BY <1>1, <1>2, ThrowsKept

(* What a broken-off change leaves: nothing new without a record of it.    *)
LEMMA RemainsAre ==
    ASSUME IInv, NEW j \in Jobs, phase[j] = "mutating", NEW x \in Remains(j),
           services' = [services EXCEPT ![Target(j)] = x]
    PROVE  /\ services' \in [Simulators -> ServiceSets]
           /\ \A s \in Simulators : services'[s] = services[s] \/ (s = Target(j) /\ Changes(j))
  <1>1. services \in [Simulators -> ServiceSets] /\ Target(j) \in Simulators
    BY TargetIs DEF IInv, TypeOK, Active
  <1>2. goal[j] \in ServiceSets
    BY DEF IInv, Shape, JobShape, Aims
  <1>3. x \in ServiceSets /\ (~Changes(j) => x = services[Target(j)])
    BY <1>1, <1>2 DEF Remains, Changes, ServiceSets
  <1> QED
    BY <1>1, <1>3

LEMMA BreaksOffKept ==
    ASSUME IInv, NEW j \in Jobs, BreaksOff(j)
    PROVE  IInv'
  <1>1. /\ phase[j] = "mutating" /\ Throws(j, FALSE, writes)
        /\ UNCHANGED <<pending, checkpoint, forgotten, refresh, at, guest, guestAt>>
    BY DEF BreaksOff, storeVars, refreshVars, guestVars
  <1>2. PICK x \in Remains(j) : services' = [services EXCEPT ![Target(j)] = x]
    BY DEF BreaksOff
  <1>3. Others(j, writes)
    BY <1>1, OthersAre
  <1>4. /\ services' \in [Simulators -> ServiceSets]
        /\ \A s \in Simulators : services'[s] = services[s] \/ (s = Target(j) /\ Changes(j))
    BY <1>1, <1>2, RemainsAre
  <1> QED
    BY <1>1, <1>3, <1>4, ThrowsKept

LEMMA AttemptRefusedKept ==
    ASSUME IInv, NEW j \in Jobs, AttemptRefused(j)
    PROVE  IInv'
  <1>1. /\ writes # <<>> /\ Head(writes).by = j /\ phase[j] # "noting"
        /\ Throws(j, FALSE, Tail(writes))
        /\ UNCHANGED <<services, pending, checkpoint, forgotten, refresh, at, guest, guestAt>>
    BY DEF AttemptRefused, Refused, guestVars
  <1>2. Others(j, Tail(writes)) /\ phase[j] \in {"beginning", "settling"}
    BY <1>1, OthersBehind, WriterIs, NamesAre
  <1>3. services \in [Simulators -> ServiceSets]
    BY DEF IInv, TypeOK
  <1> QED
    BY <1>1, <1>2, <1>3, ThrowsKept

LEMMA NoteRefusedKept ==
    ASSUME IInv, NEW j \in Jobs, NoteRefused(j)
    PROVE  IInv'
  <1>1. /\ writes # <<>> /\ Head(writes).by = j /\ phase[j] = "noting"
        /\ writes' = Tail(writes) /\ phase' = [phase EXCEPT ![j] = "next"]
        /\ UNCHANGED <<services, pending, checkpoint, forgotten, refresh, at, guest, guestAt>>
        /\ UNCHANGED <<holder, turns, kind, targets, place, goal, record>>
    BY DEF NoteRefused, Refused, guestVars, leaseVars, taskVars
  <1>2. TypeOK /\ JobShape(j) /\ Others(j, Tail(writes)) /\ DOMAIN holder = Simulators
    BY <1>1, OthersBehind DEF IInv, Shape
  <1>3. /\ phase'[j] = "next" /\ \A k \in Jobs \ {j} : phase'[k] = phase[k]
        /\ phase' \in [Jobs -> Phases]
    BY <1>1, <1>2 DEF TypeOK, Phases
  <1>4. \A k \in Jobs \ {j} : Same(k)
    BY <1>1, <1>3 DEF Same
  <1>5. Onward(j)
    BY <1>1, <1>3 DEF Onward, Late
  <1>6. JobStep(j)
    BY <1>1, <1>2, <1>4, <1>5 DEF JobStep, JobMoves
  <1>7. JobDone(j)'
    <2>1. ~Working(j)' /\ ~Aims(j)' /\ Undone(j)'
      BY <1>3 DEF Working, Aims, Undone
    <2> QED
      BY <1>1, <1>2, <1>3, <2>1 DEF JobDone, JobHeld, JobShape
  <1>8. TypeOK'
    <2>1. writes' \in Seq(Updates)
      BY <1>1, <1>2 DEF Others
    <2>2. \A k \in Jobs : Active(k)' => place'[k] \in DOMAIN targets'[k]
      BY <1>1, <1>2, <1>3 DEF TypeOK, Active
    <2> QED
      BY <1>1, <1>2, <1>3, <2>1, <2>2 DEF TypeOK
  <1> QED
    BY <1>1, <1>6, <1>7, <1>8, JobStepKept DEF IInv, Shape

LEMMA RunActionKept ==
    ASSUME IInv, NEW j \in Jobs, NEW k \in Requests, NEW b \in Batches, RunAction(j, k, b)
    PROVE  IInv'
  <1>1. /\ phase[j] = "unused"
        /\ kind' = [kind EXCEPT ![j] = k]
        /\ targets' = [targets EXCEPT ![j] = b]
        /\ phase' = [phase EXCEPT ![j] = "line"]
        /\ UNCHANGED <<services, pending, checkpoint, forgotten, refresh, at, guest, guestAt>>
        /\ UNCHANGED <<turns, writes, place, goal, record>>
    BY DEF RunAction, storeVars, refreshVars, guestVars
  <1>2. holder' = holder
    BY ClaimIs DEF RunAction
  <1>3. TypeOK /\ JobShape(j) /\ Others(j, writes) /\ DOMAIN holder = Simulators
    BY <1>1, OthersAre DEF IInv, Shape
  <1>4. /\ kind'[j] = k /\ targets'[j] = b /\ phase'[j] = "line"
        /\ \A i \in Jobs \ {j} :
              kind'[i] = kind[i] /\ targets'[i] = targets[i] /\ phase'[i] = phase[i]
        /\ phase' \in [Jobs -> Phases] /\ targets' \in [Jobs -> Batches \cup {<<>>}]
    BY <1>1, <1>3 DEF TypeOK, Phases
  <1>5. k \in Kinds /\ k # None /\ kind' \in [Jobs -> Kinds \cup {None}]
    <2>1. k \in Kinds
      BY SlimmingAssumption DEF SlimmingAssumption
    <2>2. kind \in [Jobs -> Kinds \cup {None}]
      BY <1>3 DEF TypeOK
    <2>3. None \notin Kinds
      BY NamesAre
    <2> QED
      BY <1>1, <2>1, <2>2, <2>3
  <1>6. \A i \in Jobs \ {j} : Same(i)
    BY <1>1, <1>4 DEF Same
  <1>7. JobStep(j)
    BY <1>1, <1>2, <1>3, <1>6 DEF JobStep, JobMoves, Onward
  <1>8. JobDone(j)'
    <2>1. ~Working(j)' /\ ~Aims(j)' /\ Undone(j)'
      BY <1>4 DEF Working, Aims, Undone
    <2> QED
      BY <1>1, <1>3, <1>4, <1>5, <2>1 DEF JobDone, JobHeld, JobShape
  <1>9. TypeOK'
    <2>1. 1 \in DOMAIN b
      BY BatchesAre
    <2>2. \A i \in Jobs : Active(i)' => place'[i] \in DOMAIN targets'[i]
      BY <1>1, <1>3, <1>4, <2>1 DEF TypeOK, Active, JobShape
    <2> QED
      BY <1>1, <1>3, <1>4, <1>5, <2>2 DEF TypeOK
  <1> QED
    BY <1>1, <1>7, <1>8, <1>9, JobStepKept DEF IInv, Shape

LEMMA TakeTurnKept ==
    ASSUME IInv, NEW j \in Jobs, TakeTurn(j)
    PROVE  IInv'
  <1>1. /\ phase[j] = "line" /\ holder[Target(j)] = j
        /\ phase' = [phase EXCEPT ![j] = "turn"]
        /\ turns' = Append(turns, j)
        /\ UNCHANGED <<services, pending, checkpoint, forgotten, refresh, at, guest, guestAt>>
        /\ UNCHANGED <<holder, writes, kind, targets, place, goal, record>>
    BY DEF TakeTurn, storeVars, refreshVars, guestVars, leaseVars, taskVars
  <1>2. TypeOK /\ JobShape(j) /\ Others(j, writes) /\ DOMAIN holder = Simulators
    BY <1>1, OthersAre DEF IInv, Shape
  <1>3. /\ phase'[j] = "turn" /\ \A k \in Jobs \ {j} : phase'[k] = phase[k]
        /\ phase' \in [Jobs -> Phases]
    BY <1>1, <1>2 DEF TypeOK, Phases
  <1>4. \A k \in Jobs \ {j} : Same(k)
    BY <1>1, <1>3 DEF Same
  <1>5. Onward(j)
    BY <1>1, <1>3 DEF Onward, Late
  <1>6. JobStep(j)
    BY <1>1, <1>2, <1>4, <1>5 DEF JobStep, JobMoves
  <1>7. turns' \in Seq(Jobs) /\ \E i \in 1..Len(turns') : turns'[i] = j
    <2>1. turns \in Seq(Jobs)
      BY <1>2 DEF TypeOK
    <2>2. /\ turns' \in Seq(Jobs) /\ Len(turns') = Len(turns) + 1 /\ Len(turns) \in Nat
          /\ turns'[Len(turns) + 1] = j
      BY <1>1, <2>1, AppendIs
    <2> QED
      BY <2>2
  <1>8. JobDone(j)'
    <2>1. ~Aims(j)' /\ Undone(j)' /\ Target(j)' = Target(j)
      BY <1>1, <1>3 DEF Aims, Undone, Target
    <2> QED
      BY <1>1, <1>2, <1>3, <1>7, <2>1 DEF JobDone, JobHeld, JobShape
  <1>9. TypeOK'
    <2>1. \A k \in Jobs : Active(k)' => place'[k] \in DOMAIN targets'[k]
      BY <1>1, <1>2, <1>3 DEF TypeOK, Active
    <2> QED
      BY <1>1, <1>2, <1>3, <1>7, <2>1 DEF TypeOK
  <1> QED
    BY <1>1, <1>6, <1>8, <1>9, JobStepKept DEF IInv, Shape

(* A job in its turn is alone in the queue and has no record of its own.   *)
LEMMA TurnIs ==
    ASSUME IInv, NEW j \in Jobs, HasTurn(j)
    PROVE  /\ phase[j] = "turn" /\ turns # <<>> /\ Head(turns) = j /\ holder[Target(j)] = j
           /\ Target(j) \in Simulators /\ TypeOK /\ JobShape(j) /\ Others(j, writes)
           /\ pending[Target(j)] # None => pending[Target(j)].id # j
           /\ pending[Target(j)] \in Records \cup {None}
           /\ \A i \in 1..Len(writes) : writes[i].by # j
  <1>1. phase[j] = "turn" /\ Head(turns) = j /\ Active(j) /\ Working(j)
    BY DEF HasTurn, Active, Working
  <1>2. TypeOK /\ LeaseHeld /\ JobShape(j)
    BY DEF IInv, Shape
  <1>3. turns # <<>>
    <2>1. \E i \in 1..Len(turns) : turns[i] = j
      BY <1>1, <1>2 DEF JobShape
    <2>2. Len(<<>>) = 0
      OBVIOUS
    <2> QED
      BY <2>1, <2>2
  <1>4. /\ Target(j) \in Simulators /\ targets[j] \in Batches /\ place[j] \in 1..Len(targets[j])
    BY <1>1, <1>2, TargetIs
  <1>5. holder[Target(j)] = j /\ pending[Target(j)] \in Records \cup {None}
    BY <1>1, <1>2, <1>4 DEF LeaseHeld, TypeOK
  <1>6. ASSUME pending[Target(j)] # None, pending[Target(j)].id = j
        PROVE  FALSE
    <2>1. RecordOK(Target(j))
      BY <1>4 DEF IInv
    <2>2. PICK i \in 1..place[j] : /\ i \in DOMAIN targets[j] /\ targets[j][i] = Target(j)
                                   /\ i = place[j] => phase[j] \in Late
      BY <1>1, <1>6, <2>1 DEF RecordOK
    <2>3. i = place[j]
      BY <1>4, <2>2, BatchesAre DEF Target
    <2> QED
      BY <1>1, <2>2, <2>3 DEF Late
  <1>7. Others(j, writes)
    BY <1>1, OthersAre
  <1> QED
    BY <1>1, <1>2, <1>3, <1>4, <1>5, <1>6, <1>7 DEF Others

LEMMA ForgetKept ==
    ASSUME IInv, NEW j \in Jobs, Forget(j)
    PROVE  IInv'
  <1>1. /\ HasTurn(j) /\ kind[j] = "forget" /\ pending[Target(j)] # None
        /\ phase' = [phase EXCEPT ![j] = "settling"]
        /\ UNCHANGED <<services, pending, checkpoint, forgotten, refresh, at, guest, guestAt>>
        /\ UNCHANGED <<holder, turns, kind, targets, place, goal, record>>
    BY DEF Forget, Blocked, storeVars, refreshVars, guestVars, leaseVars, taskVars
  <1>2. PICK w : /\ w = Write(j, Target(j), "clear", pending[Target(j)].id, None, None)
                 /\ writes' = Append(writes, w)
    BY DEF Forget
  <1>3. /\ phase[j] = "turn" /\ turns # <<>> /\ Head(turns) = j /\ holder[Target(j)] = j
        /\ Target(j) \in Simulators /\ TypeOK /\ JobShape(j) /\ Others(j, writes)
        /\ pending[Target(j)] \in Records /\ DOMAIN holder = Simulators
    BY <1>1, TurnIs DEF IInv, Shape
  <1>4. /\ phase'[j] = "settling" /\ \A k \in Jobs \ {j} : phase'[k] = phase[k]
        /\ phase' \in [Jobs -> Phases]
    BY <1>1, <1>3 DEF TypeOK, Phases
  <1>5. \A k \in Jobs \ {j} : Same(k)
    BY <1>1, <1>4 DEF Same
  <1>6. Onward(j)
    BY <1>1, <1>3, <1>4 DEF Onward, Late
  <1>7. /\ w.by = j /\ w.sim = Target(j) /\ w.what = "clear" /\ w \in Updates
    BY <1>2, <1>3 DEF Write, Updates, Whats, Records
  <1>8. Target(j)' = Target(j)
    BY <1>1 DEF Target
  <1>9. NewWrite(w, j, writes)
    <2>1. JobWrites(w, j)'
      BY <1>1, <1>4, <1>7, <1>8 DEF JobWrites
    <2> QED
      BY <1>3, <1>7, <2>1 DEF NewWrite, Working
  <1>10. JobStep(j)
    BY <1>1, <1>2, <1>3, <1>5, <1>6, <1>9 DEF JobStep, JobMoves
  <1>11. JobDone(j)'
    <2>1. ~Aims(j)' /\ Undone(j)'
      BY <1>1, <1>4 DEF Aims, Undone
    <2> QED
      BY <1>1, <1>3, <1>4, <1>8, <2>1, NamesAre DEF JobDone, JobHeld, JobShape
  <1>12. TypeOK'
    <2>1. writes' \in Seq(Updates)
      BY <1>2, <1>3, <1>7 DEF TypeOK
    <2>2. \A k \in Jobs : Active(k)' => place'[k] \in DOMAIN targets'[k]
      BY <1>1, <1>3, <1>4 DEF TypeOK, Active
    <2> QED
      BY <1>1, <1>3, <1>4, <2>1, <2>2 DEF TypeOK
  <1> QED
    BY <1>1, <1>10, <1>11, <1>12, JobStepKept DEF IInv, Shape

LEMMA PrepareKept ==
    ASSUME IInv, NEW j \in Jobs, Prepare(j)
    PROVE  IInv'
  <1>1. /\ HasTurn(j) /\ kind[j] # "forget" /\ ~Blocked(j)
        /\ goal' = [goal EXCEPT ![j] = GoalOf(j)]
        /\ record' = [record EXCEPT ![j] = RecordOf(j)]
        /\ phase' = [phase EXCEPT ![j] = "preparing"]
        /\ UNCHANGED <<services, pending, checkpoint, forgotten, refresh, at, guest, guestAt>>
        /\ UNCHANGED <<holder, turns, writes, kind, targets, place>>
    BY DEF Prepare, storeVars, refreshVars, guestVars, leaseVars
  <1>2. /\ phase[j] = "turn" /\ turns # <<>> /\ Head(turns) = j /\ holder[Target(j)] = j
        /\ Target(j) \in Simulators /\ TypeOK /\ JobShape(j) /\ Others(j, writes)
        /\ pending[Target(j)] # None => pending[Target(j)].id # j
        /\ pending[Target(j)] \in Records \cup {None} /\ DOMAIN holder = Simulators
    BY <1>1, TurnIs DEF IInv, Shape
  <1>3. kind[j] \in {"apply", "restore", "undo"}
    BY <1>1, <1>2 DEF TypeOK, Kinds, JobShape
  <1>4. /\ RecordOf(j) \in Jobs
        /\ pending[Target(j)] = None => RecordOf(j) = j
        /\ pending[Target(j)] # None =>
              /\ kind[j] = "undo" /\ RecordOf(j) = pending[Target(j)].id /\ RecordOf(j) # j
              /\ GoalOf(j) = pending[Target(j)].before
    <2>1. pending[Target(j)] # None => kind[j] = "undo" /\ pending[Target(j)].id \in Jobs
      BY <1>1, <1>2, <1>3 DEF Blocked, Records
    <2> QED
      BY <1>2, <2>1 DEF RecordOf, GoalOf
  <1>5. GoalOf(j) \in ServiceSets /\ (Target(j) \notin forgotten => GoalOf(j) # "partial")
    <2>1. CASE kind[j] \in {"apply", "restore"}
      BY <2>1 DEF GoalOf, ServiceSets
    <2>2. CASE kind[j] = "undo" /\ pending[Target(j)] # None
      <3>1. GoalOf(j) = pending[Target(j)].before /\ pending[Target(j)] \in Records
        BY <1>2, <2>2 DEF GoalOf
      <3> QED
        BY <1>2, <2>2, <3>1 DEF Records, IInv, RestorePointsAreWhole
    <2>3. CASE kind[j] = "undo" /\ pending[Target(j)] = None
      <3>1. GoalOf(j) = checkpoint[Target(j)] /\ checkpoint[Target(j)] # None
        BY <1>1, <2>3 DEF GoalOf, Blocked
      <3>2. checkpoint[Target(j)] \in ServiceSets \cup {None}
        BY <1>2 DEF TypeOK
      <3> QED
        BY <1>2, <3>1, <3>2 DEF IInv, RestorePointsAreWhole
    <2> QED
      BY <1>3, <2>1, <2>2, <2>3
  <1>6. /\ phase'[j] = "preparing" /\ goal'[j] = GoalOf(j) /\ record'[j] = RecordOf(j)
        /\ \A k \in Jobs \ {j} :
              phase'[k] = phase[k] /\ goal'[k] = goal[k] /\ record'[k] = record[k]
        /\ phase' \in [Jobs -> Phases] /\ goal' \in [Jobs -> ServiceSets \cup {None}]
        /\ record' \in [Jobs -> Jobs \cup {None}]
    <2>1. /\ phase \in [Jobs -> Phases] /\ goal \in [Jobs -> ServiceSets \cup {None}]
          /\ record \in [Jobs -> Jobs \cup {None}]
      BY <1>2 DEF TypeOK
    <2> QED
      BY <1>1, <1>4, <1>5, <2>1 DEF Phases
  <1>7. \A k \in Jobs \ {j} : Same(k)
    BY <1>1, <1>6 DEF Same
  <1>8. Onward(j)
    BY <1>1, <1>2, <1>6 DEF Onward, Late
  <1>9. JobStep(j)
    BY <1>1, <1>2, <1>7, <1>8 DEF JobStep, JobMoves
  <1>10. JobDone(j)'
    <2>1. Target(j)' = Target(j)
      BY <1>1 DEF Target
    <2>2. JobShape(j)'
      BY <1>1, <1>2, <1>4, <1>5, <1>6, <2>1 DEF JobShape
    <2>3. Emergency(j)' <=> pending[Target(j)] # None
      BY <1>4, <1>6, NamesAre DEF Emergency
    <2>4. Undone(j)'
      BY <1>1, <1>4, <1>6, <2>1, <2>3 DEF Undone
    <2> QED
      BY <1>1, <1>2, <1>6, <2>1, <2>2, <2>4 DEF JobDone, JobHeld
  <1>11. TypeOK'
    <2>1. \A k \in Jobs : Active(k)' => place'[k] \in DOMAIN targets'[k]
      BY <1>1, <1>2, <1>6 DEF TypeOK, Active
    <2> QED
      BY <1>1, <1>2, <1>6, <2>1 DEF TypeOK
  <1> QED
    BY <1>1, <1>9, <1>10, <1>11, JobStepKept DEF IInv, Shape

(* A job past its turn has everything its attempt needs.                   *)
LEMMA AttemptIs ==
    ASSUME IInv, NEW j \in Jobs, phase[j] \in {"preparing", "beginning", "mutating"}
    PROVE  /\ turns # <<>> /\ Head(turns) = j /\ holder[Target(j)] = j /\ Working(j) /\ Active(j)
           /\ Target(j) \in Simulators /\ TypeOK /\ JobShape(j)
           /\ record[j] \in Jobs /\ goal[j] \in ServiceSets /\ kind[j] # "forget"
           /\ pending[Target(j)] \in Records \cup {None}
           /\ services[Target(j)] \in ServiceSets
           /\ DOMAIN holder = Simulators
  <1>1. TypeOK /\ LeaseHeld /\ JobShape(j) /\ Active(j) /\ Working(j) /\ DOMAIN holder = Simulators
    BY DEF IInv, Shape, Active, Working
  <1>2. Target(j) \in Simulators
    BY <1>1, TargetIs
  <1>3. record[j] \in Jobs /\ goal[j] \in ServiceSets /\ kind[j] # "forget"
    BY <1>1 DEF JobShape, Aims
  <1>4. pending[Target(j)] \in Records \cup {None} /\ services[Target(j)] \in ServiceSets
    BY <1>1, <1>2 DEF TypeOK
  <1> QED
    BY <1>1, <1>2, <1>3, <1>4 DEF LeaseHeld

LEMMA PreparedKept ==
    ASSUME IInv, NEW j \in Jobs, Prepared(j)
    PROVE  IInv'
  <1>1. /\ phase[j] = "preparing"
        /\ UNCHANGED <<services, pending, checkpoint, forgotten, refresh, at, guest, guestAt>>
        /\ UNCHANGED <<holder, turns, kind, targets, place, goal, record>>
    BY DEF Prepared, storeVars, refreshVars, guestVars, leaseVars, taskVars
  <1>2. PICK f \in {"beginning", "mutating"} :
           /\ phase' = [phase EXCEPT ![j] = f]
           /\ Changes(j) => f = "beginning" /\ writes' = Append(writes, Journal(j))
           /\ ~Changes(j) => f = "mutating" /\ writes' = writes
    BY DEF Prepared
  <1>3. /\ turns # <<>> /\ Head(turns) = j /\ holder[Target(j)] = j /\ Working(j)
        /\ Target(j) \in Simulators /\ TypeOK /\ JobShape(j)
        /\ record[j] \in Jobs /\ goal[j] \in ServiceSets /\ kind[j] # "forget"
        /\ services[Target(j)] \in ServiceSets /\ DOMAIN holder = Simulators
    BY <1>1, AttemptIs
  <1>4. Others(j, writes)
    BY <1>1, OthersAre
  <1>5. /\ phase'[j] = f /\ \A k \in Jobs \ {j} : phase'[k] = phase[k]
        /\ phase' \in [Jobs -> Phases]
    BY <1>2, <1>3 DEF TypeOK, Phases
  <1>6. \A k \in Jobs \ {j} : Same(k)
    BY <1>1, <1>5 DEF Same
  <1>7. Onward(j)
    BY <1>1, <1>5 DEF Onward, Late
  <1>8. /\ Target(j)' = Target(j) /\ Emergency(j)' = Emergency(j) /\ Changes(j)' = Changes(j)
        /\ Journal(j)' = Journal(j)
    BY <1>1 DEF Target, Emergency, Changes, Journal, Write
  <1>9. writes' = writes \/ \E w : writes' = Append(writes, w) /\ NewWrite(w, j, writes)
    <2> SUFFICES ASSUME Changes(j)
                 PROVE  \E w : writes' = Append(writes, w) /\ NewWrite(w, j, writes)
      BY <1>2
    <2>1. PICK w : w = Journal(j) /\ writes' = Append(writes, w)
      BY <1>2
    <2>2. /\ w \in Updates /\ w.by = j /\ w.sim = Target(j) /\ w.what # "promote"
      BY <1>3, <2>1 DEF Journal, Write, Updates, Whats
    <2>3. JobWrites(w, j)'
      BY <1>2, <1>5, <1>8, <2>1, <2>2 DEF JobWrites
    <2>4. NewWrite(w, j, writes)
      BY <1>3, <2>2, <2>3 DEF NewWrite
    <2> QED
      BY <2>1, <2>4
  <1>10. JobStep(j)
    BY <1>1, <1>3, <1>4, <1>6, <1>7, <1>9 DEF JobStep, JobMoves
  <1>11. JobDone(j)'
    <2>1. JobShape(j)'
      BY <1>1, <1>3, <1>5, <1>8 DEF JobShape, Aims
    <2>2. Undone(j)
      BY DEF IInv
    <2>3. Undone(j)'
      BY <1>1, <1>2, <1>5, <1>8, <2>2 DEF Undone
    <2> QED
      BY <1>1, <1>2, <1>3, <1>5, <1>8, <2>1, <2>3 DEF JobDone, JobHeld
  <1>12. TypeOK'
    <2>1. writes' \in Seq(Updates)
      <3>1. writes \in Seq(Updates)
        BY <1>4 DEF Others
      <3>2. CASE writes' # writes
        <4>1. PICK w : writes' = Append(writes, w) /\ NewWrite(w, j, writes)
          BY <1>9, <3>2
        <4> QED
          BY <3>1, <4>1 DEF NewWrite
      <3> QED
        BY <3>1, <3>2
    <2>2. \A k \in Jobs : Active(k)' => place'[k] \in DOMAIN targets'[k]
      BY <1>1, <1>3, <1>5 DEF TypeOK, Active
    <2> QED
      BY <1>1, <1>3, <1>5, <2>1, <2>2 DEF TypeOK
  <1> QED
    BY <1>1, <1>10, <1>11, <1>12, JobStepKept DEF IInv, Shape

LEMMA MutatedKept ==
    ASSUME IInv, NEW j \in Jobs, Mutated(j)
    PROVE  IInv'
  <1>1. /\ phase[j] = "mutating"
        /\ services' = [services EXCEPT ![Target(j)] = goal[j]]
        /\ phase' = [phase EXCEPT ![j] = "settling"]
        /\ UNCHANGED <<pending, checkpoint, forgotten, refresh, at, guest, guestAt>>
        /\ UNCHANGED <<holder, turns, kind, targets, place, goal, record>>
    BY DEF Mutated, storeVars, refreshVars, guestVars, leaseVars, taskVars
  <1>2. PICK w : w = Settlement(j) /\ writes' = Append(writes, w)
    BY DEF Mutated
  <1>3. /\ turns # <<>> /\ Head(turns) = j /\ holder[Target(j)] = j /\ Working(j)
        /\ Target(j) \in Simulators /\ TypeOK /\ JobShape(j)
        /\ record[j] \in Jobs /\ goal[j] \in ServiceSets /\ kind[j] # "forget"
        /\ DOMAIN holder = Simulators
    BY <1>1, AttemptIs
  <1>4. Others(j, writes)
    BY <1>1, OthersAre
  <1>5. /\ phase'[j] = "settling" /\ \A k \in Jobs \ {j} : phase'[k] = phase[k]
        /\ phase' \in [Jobs -> Phases]
    BY <1>1, <1>3 DEF TypeOK, Phases
  <1>6. \A k \in Jobs \ {j} : Same(k)
    BY <1>1, <1>5 DEF Same
  <1>7. Onward(j)
    BY <1>1, <1>5 DEF Onward, Late
  <1>8. /\ services' \in [Simulators -> ServiceSets]
        /\ services'[Target(j)] = goal[j]
        /\ \A s \in Simulators : services'[s] = services[s] \/ (s = Target(j) /\ Changes(j))
    BY <1>1, <1>3 DEF TypeOK, Changes
  <1>9. Target(j)' = Target(j)
    BY <1>1 DEF Target
  <1>10. /\ w \in Updates /\ w.by = j /\ w.sim = Target(j)
         /\ w.what \in {"note", "complete", "promote"}
         /\ w.what = "promote" => Changes(j) /\ ~Emergency(j)
    BY <1>2, <1>3 DEF Settlement, Write, Updates, Whats
  <1>11. NewWrite(w, j, writes)
    <2>1. w.what = "promote" =>
             /\ pending[Target(j)] # None /\ pending[Target(j)].after = goal[j]
             /\ \A i \in 1..Len(writes) : writes[i].sim = Target(j) => Harmless(writes[i])
      BY <1>1, <1>10 DEF IInv, Begun
    <2>2. JobWrites(w, j)'
      BY <1>1, <1>3, <1>5, <1>8, <1>9, <1>10, <2>1 DEF JobWrites
    <2> QED
      BY <1>3, <1>10, <2>1, <2>2 DEF NewWrite
  <1>12. JobStep(j)
    BY <1>1, <1>2, <1>3, <1>4, <1>6, <1>7, <1>8, <1>11 DEF JobStep, JobMoves
  <1>13. JobDone(j)'
    <2>1. JobShape(j)'
      BY <1>1, <1>3, <1>5, <1>9 DEF JobShape, Aims
    <2>2. Undone(j)'
      BY <1>5 DEF Undone
    <2> QED
      BY <1>1, <1>3, <1>5, <1>9, <2>1, <2>2 DEF JobDone, JobHeld
  <1>14. TypeOK'
    <2>1. writes' \in Seq(Updates)
      BY <1>2, <1>4, <1>10 DEF Others
    <2>2. \A k \in Jobs : Active(k)' => place'[k] \in DOMAIN targets'[k]
      BY <1>1, <1>3, <1>5 DEF TypeOK, Active
    <2> QED
      BY <1>1, <1>3, <1>5, <1>8, <2>1, <2>2 DEF TypeOK
  <1> QED
    BY <1>1, <1>12, <1>13, <1>14, JobStepKept DEF IInv, Shape

LEMMA NextTargetKept ==
    ASSUME IInv, NEW j \in Jobs, NextTarget(j)
    PROVE  IInv'
  <1>1. /\ phase[j] = "next"
        /\ record' = [record EXCEPT ![j] = None] /\ goal' = [goal EXCEPT ![j] = None]
        /\ UNCHANGED <<services, pending, checkpoint, forgotten, refresh, at, guest, guestAt>>
        /\ UNCHANGED <<turns, writes>>
    BY DEF NextTarget, storeVars, refreshVars, guestVars
  <1>2. TypeOK /\ JobShape(j) /\ Others(j, writes) /\ DOMAIN holder = Simulators /\ Active(j)
        /\ place \in [Jobs -> Nat \ {0}]
    BY <1>1, OthersAre DEF IInv, Shape, Active
  <1>3. /\ targets[j] \in Batches /\ place[j] \in 1..Len(targets[j]) /\ Len(targets[j]) \in Nat
        /\ DOMAIN targets[j] = 1..Len(targets[j])
    BY <1>2, TargetIs, BatchesAre
  <1>4. /\ record'[j] = None /\ goal'[j] = None
        /\ \A k \in Jobs \ {j} : record'[k] = record[k] /\ goal'[k] = goal[k]
        /\ record' \in [Jobs -> Jobs \cup {None}] /\ goal' \in [Jobs -> ServiceSets \cup {None}]
    BY <1>1, <1>2 DEF TypeOK
  <1>5. \/ /\ phase' = [phase EXCEPT ![j] = "done"]
           /\ kind' = [kind EXCEPT ![j] = None]
           /\ targets' = [targets EXCEPT ![j] = <<>>]
           /\ place' = [place EXCEPT ![j] = 1]
           /\ holder' = holder
        \/ /\ place[j] # Len(targets[j])
           /\ phase' = [phase EXCEPT ![j] = "line"]
           /\ place' = [place EXCEPT ![j] = place[j] + 1]
           /\ UNCHANGED <<kind, targets, holder>>
    BY ClaimIs DEF NextTarget, leaseVars
  <1>12. /\ phase \in [Jobs -> Phases] /\ kind \in [Jobs -> Kinds \cup {None}]
         /\ targets \in [Jobs -> Batches \cup {<<>>}]
         /\ place[j] + 1 \in Nat \ {0} /\ {"done", "line"} \subseteq Phases
    BY <1>2, <1>3 DEF TypeOK, Phases
  <1>6. /\ \A k \in Jobs \ {j} : /\ phase'[k] = phase[k] /\ kind'[k] = kind[k]
                                 /\ targets'[k] = targets[k] /\ place'[k] = place[k]
        /\ phase' \in [Jobs -> Phases] /\ kind' \in [Jobs -> Kinds \cup {None}]
        /\ targets' \in [Jobs -> Batches \cup {<<>>}] /\ place' \in [Jobs -> Nat \ {0}]
        /\ holder' = holder
        /\ \/ phase'[j] = "done" /\ kind'[j] = None
           \/ /\ phase'[j] = "line" /\ place'[j] = place[j] + 1 /\ targets'[j] = targets[j]
              /\ kind'[j] = kind[j] /\ place[j] # Len(targets[j])
    <2>1. CASE phase' = [phase EXCEPT ![j] = "done"] /\ kind' = [kind EXCEPT ![j] = None]
               /\ targets' = [targets EXCEPT ![j] = <<>>] /\ place' = [place EXCEPT ![j] = 1]
               /\ holder' = holder
      BY ONLY <1>2, <1>12, <2>1
    <2>2. CASE place[j] # Len(targets[j]) /\ phase' = [phase EXCEPT ![j] = "line"]
               /\ place' = [place EXCEPT ![j] = place[j] + 1]
               /\ UNCHANGED <<kind, targets, holder>>
      BY ONLY <1>2, <1>12, <2>2
    <2> QED
      BY <1>5, <2>1, <2>2
  <1>7. \A k \in Jobs \ {j} : Same(k)
    BY <1>4, <1>6 DEF Same
  <1>8. Onward(j)
    BY <1>1, <1>6 DEF Onward
  <1>9. JobStep(j)
    BY <1>1, <1>2, <1>6, <1>7, <1>8 DEF JobStep, JobMoves
  <1>10. JobDone(j)'
    <2>1. ~Working(j)' /\ ~Aims(j)' /\ Undone(j)'
      BY <1>6 DEF Working, Aims, Undone
    <2>2. phase'[j] = "line" => kind'[j] # None
      BY <1>1, <1>2, <1>6 DEF JobShape
    <2> QED
      BY <1>4, <1>6, <2>1, <2>2 DEF JobDone, JobHeld, JobShape
  <1>11. TypeOK'
    <2>1. Active(j)' => place'[j] \in DOMAIN targets'[j]
      BY <1>3, <1>6 DEF Active
    <2>2. \A k \in Jobs : Active(k)' => place'[k] \in DOMAIN targets'[k]
      BY <1>2, <1>6, <2>1 DEF TypeOK, Active
    <2> QED
      BY <1>1, <1>2, <1>4, <1>6, <2>2 DEF TypeOK
  <1> QED
    BY <1>6, <1>9, <1>10, <1>11, JobStepKept

-----------------------------------------------------------------------------
(* Steps of the refresh, of guests and of the lease, which leave jobs and  *)
(* records alone.                                                          *)
IdleStep ==
    /\ UNCHANGED <<services, pending, checkpoint, forgotten, turns>>
    /\ UNCHANGED <<kind, targets, place, goal, record, phase>>
    /\ DOMAIN holder' = Simulators
    /\ \A s \in Simulators : holder'[s] = holder[s] \/ holder[s] \notin Jobs
    /\ refresh' \in {"idle", "looking", "walking", "trying", "inspecting", "settling"}
    /\ at' \in Simulators \cup {None}
    /\ refresh' \in {"trying", "inspecting", "settling"} => at' \in Simulators
    /\ refresh' \in {"inspecting", "settling"} => holder'[at'] = Refresh
    /\ guest' \in {"away", "line", "refreshing", "back"}
    /\ guest' \in {"line", "refreshing", "back"} => guestAt' \in Simulators
    /\ guest' \in {"refreshing", "back"} => holder'[guestAt'] = Guest

LEMMA IdleSame ==
    ASSUME IdleStep, NEW k \in Jobs
    PROVE  /\ Same(k) /\ Onward(k) /\ Target(k)' = Target(k) /\ Active(k)' = Active(k)
           /\ Working(k)' = Working(k) /\ Emergency(k)' = Emergency(k)
           /\ Aims(k)' = Aims(k) /\ Changes(k)' = Changes(k) /\ Journal(k)' = Journal(k)
  <1>1. Same(k)
    BY DEF IdleStep, Same
  <1>2. services' = services
    BY DEF IdleStep
  <1> QED
    BY <1>1, <1>2, SameIs

(* What an idle step keeps, whatever it does to the queue.                 *)
LEMMA IdleKeeps ==
    ASSUME IInv, IdleStep, writes' \in Seq(Updates), Queued', Sole',
           \A n \in 1..Len(writes') :
               \/ \E i \in 1..Len(writes) : writes'[n] = writes[i]
               \/ refresh = "inspecting" /\ writes'[n].sim = at
    PROVE  IInv'
  <1>1. TypeOK'
    <2>1. \A k \in Jobs : Active(k)' => place'[k] \in DOMAIN targets'[k]
      BY IdleSame DEF IInv, TypeOK, IdleStep
    <2> QED
      BY <2>1 DEF IInv, TypeOK, IdleStep
  <1>2. LeaseHeld'
    <2>1. ASSUME NEW k \in Jobs, Working(k)'
          PROVE  holder'[Target(k)'] = k
      <3>1. Working(k) /\ Target(k)' = Target(k)
        BY <2>1, IdleSame
      <3>2. Target(k) \in Simulators /\ holder[Target(k)] = k
        BY <3>1, Apart DEF IInv, LeaseHeld
      <3> QED
        BY <3>1, <3>2 DEF IdleStep
    <2>2. \A k \in Jobs : Working(k)' /\ phase'[k] # "turn" => turns' # <<>> /\ Head(turns') = k
      BY IdleSame DEF IInv, LeaseHeld, IdleStep
    <2> QED
      BY <2>1, <2>2 DEF LeaseHeld, IdleStep
  <1>3. Shape'
    <2>1. ASSUME NEW k \in Jobs
          PROVE  JobShape(k)'
      <3>1. JobShape(k)
        BY DEF IInv, Shape
      <3> QED
        BY <3>1, IdleSame DEF JobShape, IdleStep
    <2>2. place' \in [Jobs -> Nat \ {0}]
      BY DEF IInv, Shape, IdleStep
    <2> QED
      BY <2>1, <2>2 DEF Shape, IdleStep
  <1>4. \A s \in Simulators : RecordOK(s)'
    BY <1>1, IdleSame, RecordsInStep DEF IInv, IdleStep, Shape
  <1>5. ASSUME NEW k \in Jobs
        PROVE  Undone(k)' /\ Begun(k)'
    <2>1. Undone(k) /\ Begun(k) /\ TypeOK
      BY DEF IInv
    <2>2. Undone(k)'
      BY <2>1, IdleSame DEF Undone, IdleStep
    <2>3. CASE phase[k] = "mutating"
      <3>1. Target(k) \in Simulators /\ (refresh = "inspecting" => Target(k) # at)
        BY <2>3, Apart DEF IInv, Working
      <3>2. Begun(k)'
        BY <2>1, <2>3, <3>1, IdleSame, BegunFrame DEF IdleStep
      <3> QED
        BY <2>2, <3>2
    <2>4. CASE phase[k] # "mutating"
      BY <2>2, <2>4 DEF Begun, IdleStep
    <2> QED
      BY <2>3, <2>4
  <1>6. NoChangeForgotten' /\ RestorePointsAreWhole'
    BY DEF IInv, IdleStep, NoChangeForgotten, RestorePointsAreWhole
  <1> QED
    BY <1>1, <1>2, <1>3, <1>4, <1>5, <1>6 DEF IInv

LEMMA IdleWrites ==
    ASSUME IdleStep, NEW v, NEW k \in Jobs, JobWrites(v, k)
    PROVE  JobWrites(v, k)'
  BY IdleSame, WriteFrame DEF IdleStep

LEMMA IdleKept ==
    ASSUME IInv, IdleStep, writes' = writes,
           \/ refresh' = refresh /\ at' = at
           \/ refresh # "settling" /\ refresh' \notin {"inspecting", "settling"}
    PROVE  IInv'
  <1>1. ASSUME NEW v \in Updates, NEW i \in 1..Len(writes), v = writes[i]
        PROVE  WriteOK(v)'
    <2>1. WriteOK(v)
      BY <1>1 DEF IInv, Queued
    <2>2. CASE v.by = Refresh
      <3>1. RefreshWrites(v)
        BY <2>1, <2>2 DEF WriteOK
      <3>2. refresh' = refresh /\ at' = at
        BY <3>1 DEF RefreshWrites
      <3> QED
        BY <2>2, <3>1, <3>2 DEF WriteOK, RefreshWrites, IdleStep
    <2>3. CASE v.by # Refresh
      <3>1. v.by \in Jobs /\ JobWrites(v, v.by)
        BY <1>1, <2>3, WriterIs
      <3> QED
        BY <2>3, <3>1, IdleWrites DEF WriteOK
    <2> QED
      BY <2>2, <2>3
  <1>2. Queued'
    <2>1. \A v \in Updates : (\E i \in 1..Len(writes') : v = writes'[i]) => WriteOK(v)'
      BY <1>1
    <2>2. Ordered(writes')
      BY DEF IInv, Queued
    <2> QED
      BY <2>1, <2>2 DEF Queued
  <1>3. Sole'
    BY DEF IInv, Sole, IdleStep
  <1>4. writes' \in Seq(Updates)
    BY DEF IInv, TypeOK
  <1> QED
    BY <1>2, <1>3, <1>4, IdleKeeps

LEMMA CancelKept ==
    ASSUME IInv, NEW j \in Jobs, Cancel(j)
    PROVE  IInv'
  <1>1. IdleStep /\ writes' = writes /\ refresh' = refresh /\ at' = at
    BY DEF Cancel, IdleStep, IInv, TypeOK, Shape, LeaseHeld,
           storeVars, leaseVars, taskVars, refreshVars, guestVars
  <1> QED
    BY <1>1, IdleKept

LEMMA StopKept ==
    ASSUME IInv, Stop
    PROVE  IInv'
  <1>1. IdleStep /\ writes' = writes /\ refresh' = refresh /\ at' = at
    BY DEF Stop, IdleStep, IInv, TypeOK, Shape, LeaseHeld,
           storeVars, leaseVars, taskVars, refreshVars, guestVars
  <1> QED
    BY <1>1, IdleKept

LEMMA GrantKept ==
    ASSUME IInv, NEW s \in Simulators, Grant(s)
    PROVE  IInv'
  <1>1. /\ holder[s] = None /\ holder' = [holder EXCEPT ![s] = Head(line[s])]
        /\ UNCHANGED <<services, pending, checkpoint, forgotten, turns, writes>>
        /\ UNCHANGED <<kind, targets, place, goal, record, phase>>
        /\ UNCHANGED <<refresh, at, guest, guestAt>>
    BY GrantIs DEF Grant, storeVars, taskVars, refreshVars, guestVars
  <1>2. TypeOK /\ Shape /\ LeaseHeld
    BY DEF IInv
  <1>3. /\ DOMAIN holder' = Simulators
        /\ \A u \in Simulators : holder'[u] = holder[u] \/ holder[u] = None
    BY <1>1, <1>2 DEF Shape
  <1>4. IdleStep
    BY <1>1, <1>2, <1>3, NamesAre DEF IdleStep, TypeOK, Shape, LeaseHeld
  <1> QED
    BY <1>1, <1>4, IdleKept

LEMMA StartRefreshKept ==
    ASSUME IInv, StartRefresh
    PROVE  IInv'
  <1>1. IdleStep /\ writes' = writes /\ refresh = "idle" /\ refresh' = "looking"
    BY DEF StartRefresh, IdleStep, IInv, TypeOK, Shape, LeaseHeld,
           storeVars, leaseVars, taskVars, guestVars
  <1> QED
    BY <1>1, IdleKept

LEMMA LookedKept ==
    ASSUME IInv, Looked
    PROVE  IInv'
  <1>1. IdleStep /\ writes' = writes /\ refresh = "looking" /\ refresh' = "walking"
    BY DEF Looked, IdleStep, IInv, TypeOK, Shape, LeaseHeld,
           storeVars, leaseVars, taskVars, guestVars
  <1> QED
    BY <1>1, IdleKept

LEMMA LookFailsKept ==
    ASSUME IInv, LookFails
    PROVE  IInv'
  <1>1. IdleStep /\ writes' = writes /\ refresh = "looking" /\ refresh' = "idle"
    BY DEF LookFails, EndsRefresh, IdleStep, IInv, TypeOK, Shape, LeaseHeld,
           storeVars, leaseVars, taskVars
  <1> QED
    BY <1>1, IdleKept

LEMMA EndRefreshKept ==
    ASSUME IInv, EndRefresh
    PROVE  IInv'
  <1>1. IdleStep /\ writes' = writes /\ refresh = "walking" /\ refresh' = "idle"
    BY DEF EndRefresh, EndsRefresh, IdleStep, IInv, TypeOK, Shape, LeaseHeld,
           storeVars, leaseVars, taskVars
  <1> QED
    BY <1>1, IdleKept

LEMMA PassOverKept ==
    ASSUME IInv, NEW s \in Simulators, PassOver(s)
    PROVE  IInv'
  <1>1. IdleStep /\ writes' = writes /\ refresh' = refresh /\ at' = at
    BY DEF PassOver, IdleStep, IInv, TypeOK, Shape, LeaseHeld,
           storeVars, leaseVars, taskVars, guestVars
  <1> QED
    BY <1>1, IdleKept

LEMMA TryLeaseKept ==
    ASSUME IInv, NEW s \in Simulators, TryLease(s)
    PROVE  IInv'
  <1>1. /\ refresh = "walking" /\ refresh' = "trying" /\ at' = s /\ writes' = writes
        /\ UNCHANGED <<services, pending, checkpoint, forgotten, turns>>
        /\ UNCHANGED <<kind, targets, place, goal, record, phase, guest, guestAt>>
    BY DEF TryLease, storeVars, taskVars, guestVars
  <1>2. holder' = holder
    BY ClaimIs DEF TryLease
  <1>3. IdleStep
    BY <1>1, <1>2 DEF IdleStep, IInv, TypeOK, Shape
  <1> QED
    BY <1>1, <1>3, IdleKept

(* The reconciler gives a lease back that it has. *)
LEMMA RefreshReleases ==
    ASSUME IInv, at \in Simulators, holder[at] = Refresh, Lease!Release(at)
    PROVE  /\ DOMAIN holder' = Simulators
           /\ \A s \in Simulators : holder'[s] = holder[s] \/ holder[s] \notin Jobs
           /\ guest \in {"refreshing", "back"} => holder'[guestAt] = Guest
  <1>1. holder' = [holder EXCEPT ![at] = None]
    BY ReleaseIs
  <1>2. /\ DOMAIN holder = Simulators
        /\ guest \in {"refreshing", "back"} => holder[guestAt] = Guest /\ guestAt \in Simulators
    BY DEF IInv, Shape
  <1> QED
    BY <1>1, <1>2, NamesAre

LEMMA LeaveAloneKept ==
    ASSUME IInv, LeaveAlone
    PROVE  IInv'
  <1>1. /\ refresh = "trying" /\ holder[at] = Refresh /\ Lease!Release(at)
        /\ refresh' = "walking" /\ at' = None /\ writes' = writes
        /\ UNCHANGED <<services, pending, checkpoint, forgotten, turns>>
        /\ UNCHANGED <<kind, targets, place, goal, record, phase, guest, guestAt>>
    BY DEF LeaveAlone, HasLease, storeVars, taskVars, guestVars
  <1>2. at \in Simulators
    BY <1>1 DEF IInv, Shape
  <1>3. IdleStep
    BY <1>1, <1>2, RefreshReleases DEF IdleStep, IInv, TypeOK, Shape
  <1> QED
    BY <1>1, <1>3, IdleKept

LEMMA AlreadyKeptKept ==
    ASSUME IInv, AlreadyKept
    PROVE  IInv'
  <1>1. /\ refresh = "inspecting" /\ Lease!Release(at)
        /\ refresh' = "walking" /\ at' = None /\ writes' = writes
        /\ UNCHANGED <<services, pending, checkpoint, forgotten, turns>>
        /\ UNCHANGED <<kind, targets, place, goal, record, phase, guest, guestAt>>
    BY DEF AlreadyKept, storeVars, taskVars, guestVars
  <1>2. at \in Simulators /\ holder[at] = Refresh
    BY <1>1 DEF IInv, Shape, LeaseHeld
  <1>3. IdleStep
    BY <1>1, <1>2, RefreshReleases DEF IdleStep, IInv, TypeOK, Shape
  <1> QED
    BY <1>1, <1>3, IdleKept

LEMMA ClaimAbortedKept ==
    ASSUME IInv, ClaimAborted
    PROVE  IInv'
  <1>1. /\ refresh = "trying" /\ refresh' = "idle" /\ at' = None /\ writes' = writes
        /\ guestAt' = guestAt
        /\ guest' = IF guest = "refreshing" THEN "back" ELSE guest
        /\ UNCHANGED <<services, pending, checkpoint, forgotten, turns>>
        /\ UNCHANGED <<kind, targets, place, goal, record, phase>>
    BY DEF ClaimAborted, EndsRefresh, storeVars, taskVars
  <1>2. at \in Simulators
    BY <1>1 DEF IInv, Shape
  <1>3. /\ DOMAIN holder' = Simulators
        /\ \A s \in Simulators : holder'[s] = holder[s] \/ holder[s] \notin Jobs
        /\ guest \in {"refreshing", "back"} => holder'[guestAt] = Guest
    <2>1. CASE holder[at] = Refresh
      BY <1>2, <2>1, RefreshReleases DEF ClaimAborted
    <2>2. CASE holder[at] # Refresh
      <3>1. holder' = holder
        BY <2>2, GiveUpIs DEF ClaimAborted
      <3> QED
        BY <3>1 DEF IInv, Shape
    <2> QED
      BY <2>1, <2>2
  <1>4. IdleStep
    BY <1>1, <1>3 DEF IdleStep, IInv, TypeOK, Shape
  <1> QED
    BY <1>1, <1>4, IdleKept

LEMMA GuestClaimsKept ==
    ASSUME IInv, NEW s \in Simulators, GuestClaims(s)
    PROVE  IInv'
  <1>1. /\ guest' = "line" /\ guestAt' = s /\ writes' = writes /\ refresh' = refresh /\ at' = at
        /\ UNCHANGED <<services, pending, checkpoint, forgotten, turns>>
        /\ UNCHANGED <<kind, targets, place, goal, record, phase>>
    BY DEF GuestClaims, storeVars, taskVars, refreshVars
  <1>2. holder' = holder
    BY ClaimIs DEF GuestClaims
  <1>3. IdleStep
    BY <1>1, <1>2 DEF IdleStep, IInv, TypeOK, Shape, LeaseHeld
  <1> QED
    BY <1>1, <1>3, IdleKept

LEMMA GuestRefreshesKept ==
    ASSUME IInv, GuestRefreshes
    PROVE  IInv'
  <1>1. /\ guest = "line" /\ holder[guestAt] = Guest /\ guest' \in {"back", "refreshing"}
        /\ refresh' = refresh \/ (refresh = "idle" /\ refresh' = "looking")
        /\ writes' = writes /\ at' = at /\ guestAt' = guestAt /\ holder' = holder
        /\ UNCHANGED <<services, pending, checkpoint, forgotten, turns>>
        /\ UNCHANGED <<kind, targets, place, goal, record, phase>>
    BY DEF GuestRefreshes, storeVars, taskVars, leaseVars
  <1>2. IdleStep
    BY <1>1 DEF IdleStep, IInv, TypeOK, Shape, LeaseHeld
  <1> QED
    BY <1>1, <1>2, IdleKept

LEMMA GuestReleasesKept ==
    ASSUME IInv, GuestReleases
    PROVE  IInv'
  <1>1. /\ guest = "back" /\ Lease!Release(guestAt) /\ guest' = "away" /\ guestAt' = None
        /\ writes' = writes /\ refresh' = refresh /\ at' = at
        /\ UNCHANGED <<services, pending, checkpoint, forgotten, turns>>
        /\ UNCHANGED <<kind, targets, place, goal, record, phase>>
    BY DEF GuestReleases, storeVars, taskVars, refreshVars
  <1>2. holder[guestAt] = Guest /\ DOMAIN holder = Simulators
    BY <1>1 DEF IInv, Shape
  <1>3. /\ DOMAIN holder' = Simulators
        /\ \A s \in Simulators : holder'[s] = holder[s] \/ holder[s] = Guest
    BY <1>1, <1>2, ReleaseIs
  <1>4. refresh \in {"inspecting", "settling"} => holder'[at] = Refresh
    BY <1>3, NamesAre DEF IInv, LeaseHeld, Shape
  <1>5. IdleStep
    BY <1>1, <1>3, <1>4, NamesAre DEF IdleStep, IInv, TypeOK, Shape
  <1> QED
    BY <1>1, <1>5, IdleKept

(* No job at the Simulator, no update of one for it. *)
LEMMA InspectKept ==
    ASSUME IInv, Inspect
    PROVE  IInv'
  <1>1. /\ refresh = "trying" /\ holder[at] = Refresh /\ ~HasActiveJob(at) /\ pending[at] # None
        /\ refresh' = "inspecting"
        /\ UNCHANGED <<services, pending, checkpoint, forgotten, turns>>
        /\ UNCHANGED <<kind, targets, place, goal, record, phase, guest, guestAt>>
        /\ UNCHANGED <<holder, writes, at>>
    BY DEF Inspect, HasLease, StillFree, storeVars, taskVars, guestVars, leaseVars
  <1>2. at \in Simulators
    BY <1>1 DEF IInv, Shape
  <1>3. IdleStep
    BY <1>1, <1>2 DEF IdleStep, IInv, TypeOK, Shape
  <1>4. ASSUME NEW i \in 1..Len(writes), writes[i].sim = at, writes[i].by # Refresh
        PROVE  FALSE
    <2>1. PICK k \in Jobs : k = writes[i].by /\ Active(k) /\ Target(k) = at
      BY <1>4, WriterIs
    <2>2. \E n \in DOMAIN targets[k] : targets[k][n] = Target(k)
      BY <2>1, TargetIs DEF IInv
    <2> QED
      BY <1>1, <2>1, <2>2 DEF HasActiveJob
  <1>5. Sole'
    BY <1>1, <1>4 DEF Sole
  <1>6. ASSUME NEW v \in Updates, NEW i \in 1..Len(writes), v = writes[i]
        PROVE  WriteOK(v)'
    <2>1. WriteOK(v)
      BY <1>6 DEF IInv, Queued
    <2>2. v.by # Refresh
      BY <1>1, <2>1 DEF WriteOK, RefreshWrites
    <2>3. v.by \in Jobs /\ JobWrites(v, v.by)
      BY <1>6, <2>2, WriterIs
    <2> QED
      BY <1>3, <2>2, <2>3, IdleWrites DEF WriteOK
  <1>7. Queued'
    <2>1. \A v \in Updates : (\E i \in 1..Len(writes') : v = writes'[i]) => WriteOK(v)'
      BY <1>1, <1>6
    <2>2. Ordered(writes')
      BY <1>1 DEF IInv, Queued
    <2> QED
      BY <2>1, <2>2 DEF Queued
  <1>8. writes' \in Seq(Updates)
    BY <1>1 DEF IInv, TypeOK
  <1> QED
    BY <1>1, <1>3, <1>5, <1>7, <1>8, IdleKeeps

LEMMA ReconcileKept ==
    ASSUME IInv, Reconcile
    PROVE  IInv'
  <1>1. /\ refresh = "inspecting" /\ refresh' = "settling"
        /\ UNCHANGED <<services, pending, checkpoint, forgotten, turns>>
        /\ UNCHANGED <<kind, targets, place, goal, record, phase, guest, guestAt>>
        /\ UNCHANGED <<holder, at>>
    BY DEF Reconcile, storeVars, taskVars, guestVars, leaseVars
  <1>2. PICK what \in {Verdict(at), "keep"} :
           writes' = Append(writes, Write(Refresh, at, what, pending[at].id, None, None))
    BY DEF Reconcile
  <1>3. PICK w : w = Write(Refresh, at, what, pending[at].id, None, None)
    OBVIOUS
  <1>4. TypeOK /\ Shape /\ LeaseHeld /\ at \in Simulators /\ holder[at] = Refresh
        /\ pending[at] \in Records
        /\ \A i \in 1..Len(writes) :
              writes[i].sim = at /\ writes[i].by # Refresh => Harmless(writes[i])
    BY <1>1 DEF IInv, Shape, LeaseHeld, Sole, TypeOK
  <1>5. IdleStep
    BY <1>1, <1>4 DEF IdleStep, TypeOK, Shape
  <1>6. /\ what \in {"keep", "unrecover", "complete", "promote"}
        /\ what = "complete" => services[at] = pending[at].before
        /\ what = "promote" => services[at] = pending[at].after
    BY <1>2 DEF Verdict
  <1>7. /\ w \in Updates /\ w.by = Refresh /\ w.sim = at /\ w.what = what
        /\ w.id = pending[at].id
    BY <1>3, <1>4, <1>6 DEF Write, Updates, Whats, Records
  <1>8. WriteOK(w)'
    BY <1>1, <1>6, <1>7 DEF WriteOK, RefreshWrites
  <1>9. ASSUME NEW i \in 1..Len(writes), NEW v, v = writes[i]
        PROVE  v.by # Refresh /\ WriteOK(v)'
    <2>1. v \in Updates
      BY <1>4, <1>9 DEF TypeOK
    <2>2. WriteOK(v)
      BY <1>9, <2>1 DEF IInv, Queued
    <2>3. v.by # Refresh
      BY <1>1, <2>2 DEF WriteOK, RefreshWrites
    <2>4. v.by \in Jobs /\ JobWrites(v, v.by)
      BY <1>9, <2>3, WriterIs
    <2> QED
      BY <1>5, <2>3, <2>4, IdleWrites DEF WriteOK
  <1>10. writes \in Seq(Updates) /\ writes' = Append(writes, w) /\ Ordered(writes)
    BY <1>2, <1>3, <1>4 DEF TypeOK, IInv, Queued
  <1>11. /\ writes' \in Seq(Updates) /\ Len(writes') = Len(writes) + 1 /\ Len(writes) \in Nat
         /\ \A i \in 1..Len(writes) : writes'[i] = writes[i]
         /\ writes'[Len(writes) + 1] = w
    BY <1>7, <1>10, AppendIs
  <1>12. \A n \in 1..Len(writes') : n \in 1..Len(writes) \/ n = Len(writes) + 1
    BY <1>11
  <1>13. \A n \in 1..Len(writes') : (\E i \in 1..Len(writes) : writes'[n] = writes[i]) \/ writes'[n] = w
    BY <1>11, <1>12
  <1>14. Queued'
    <2>1. Ordered(Append(writes, w))
      <3>1. \A i \in 1..Len(writes) : writes[i].by # w.by
        BY <1>7, <1>9
      <3>2. ASSUME NEW i \in 1..Len(writes), writes[i].sim = w.sim
            PROVE  writes[i].what \notin {"begin", "recover", "promote"}
        BY <1>4, <1>7, <1>9, <3>2 DEF Harmless
      <3> QED
        BY <1>7, <1>10, <3>1, <3>2, AppendOrdered
    <2>2. \A v \in Updates : (\E n \in 1..Len(writes') : v = writes'[n]) => WriteOK(v)'
      BY <1>8, <1>9, <1>13
    <2> QED
      BY <1>10, <2>1, <2>2 DEF Queued
  <1>15. Sole'
    <2>1. \A n \in 1..Len(writes') :
             writes'[n].sim = at /\ writes'[n].by # Refresh => Harmless(writes'[n])
      BY <1>4, <1>7, <1>13
    <2>2. pending[at] # None
      BY <1>4, NamesAre
    <2> QED
      BY <1>1, <2>1, <2>2 DEF Sole
  <1> QED
    BY <1>1, <1>5, <1>7, <1>11, <1>13, <1>14, <1>15, IdleKeeps

LEMMA RefreshRefusedKept ==
    ASSUME IInv, RefreshRefused
    PROVE  IInv'
  <1>1. /\ writes # <<>> /\ Head(writes).by = Refresh /\ writes' = Tail(writes)
        /\ Lease!Release(at) /\ refresh' = "idle" /\ at' = None
        /\ guest' = IF guest = "refreshing" THEN "back" ELSE guest
        /\ guestAt' = guestAt
        /\ UNCHANGED <<services, pending, checkpoint, forgotten, turns>>
        /\ UNCHANGED <<kind, targets, place, goal, record, phase>>
    BY DEF RefreshRefused, Refused, EndsRefresh, taskVars
  <1>2. /\ WriteOK(Head(writes)) /\ Others(Refresh, Tail(writes))
    BY <1>1, OthersBehind
  <1>3. refresh = "settling"
    BY <1>1, <1>2 DEF WriteOK, RefreshWrites
  <1>4. at \in Simulators /\ holder[at] = Refresh
    BY <1>3 DEF IInv, Shape, LeaseHeld
  <1>5. IdleStep
    BY <1>1, <1>4, RefreshReleases DEF IdleStep, IInv, TypeOK, Shape
  <1>6. Queued' /\ writes' \in Seq(Updates)
    <2>1. ASSUME NEW v \in Updates, NEW n \in 1..Len(writes'), v = writes'[n]
          PROVE  WriteOK(v)'
      <3>1. PICK i \in 1..Len(writes) : v = writes[i] /\ v.by # Refresh
        BY <1>1, <1>2, <2>1 DEF Others
      <3>2. v.by \in Jobs /\ JobWrites(v, v.by)
        BY <3>1, WriterIs
      <3> QED
        BY <1>5, <3>1, <3>2, IdleWrites DEF WriteOK
    <2> QED
      BY <1>1, <1>2, <2>1 DEF Queued, Others
  <1>7. Sole'
    BY <1>1 DEF Sole
  <1>8. \A n \in 1..Len(writes') : \E i \in 1..Len(writes) : writes'[n] = writes[i]
    BY <1>1, <1>2 DEF Others
  <1> QED
    BY <1>5, <1>6, <1>7, <1>8, IdleKeeps

-----------------------------------------------------------------------------
(* The disk takes an update.                                               *)
LEMMA RecordedIs ==
    ASSUME TypeOK, NEW w \in Updates, Fits(w),
           w.what \in {"begin", "recover"} => /\ w.by \in Jobs /\ w.id \in Jobs
                                              /\ w.before \in ServiceSets /\ w.after \in ServiceSets
    PROVE  LET p == pending[w.sim]
               r == Recorded(w)
           IN  /\ p \in Records \cup {None} /\ w.sim \in Simulators
               /\ Harmless(w) => r = p
               /\ w.what = "begin" =>
                     p = None /\ r = [id |-> w.id, before |-> w.before, after |-> w.after,
                                      recovery |-> None]
               /\ w.what \notin {"note", "begin"} => p \in Records /\ p.id = w.id
               /\ w.what \in {"recover", "unrecover"} =>
                     r.id = p.id /\ r.before = p.before /\ r.after = p.after
               /\ w.what = "recover" =>
                     r = [id |-> p.id, before |-> p.before, after |-> p.after,
                          recovery |-> [id |-> w.by, before |-> w.before]]
               /\ w.what = "unrecover" =>
                     r = [id |-> p.id, before |-> p.before, after |-> p.after, recovery |-> None]
               /\ w.what \in {"begin", "recover", "unrecover"} => r \in Records
               /\ w.what \in {"complete", "promote", "clear"} => r = None
  <1> DEFINE p == pending[w.sim]
             r == Recorded(w)
  <1>1. w.sim \in Simulators /\ p \in Records \cup {None} /\ w.what \in Whats
    BY DEF TypeOK, Updates
  <1>2. w.what \notin {"note", "begin"} => p \in Records /\ p.id = w.id
    BY <1>1 DEF Fits
  <1>3. Harmless(w) => r = p
    BY DEF Harmless, Recorded
  <1>4. w.what = "begin" =>
           p = None /\ r = [id |-> w.id, before |-> w.before, after |-> w.after, recovery |-> None]
    BY DEF Fits, Recorded
  <1>5. w.what = "recover" =>
           r = [id |-> p.id, before |-> p.before, after |-> p.after,
                recovery |-> [id |-> w.by, before |-> w.before]]
    <2>1. w.what = "recover" =>
             p \in Records /\ r = [p EXCEPT !.recovery = [id |-> w.by, before |-> w.before]]
      BY <1>2 DEF Recorded
    <2> QED
      BY <2>1 DEF Records
  <1>6. w.what = "unrecover" =>
           r = [id |-> p.id, before |-> p.before, after |-> p.after, recovery |-> None]
    <2>1. w.what = "unrecover" => p \in Records /\ r = [p EXCEPT !.recovery = None]
      BY <1>2 DEF Recorded
    <2> QED
      BY <2>1 DEF Records
  <1>7. w.what \in {"complete", "promote", "clear"} => r = None
    BY DEF Recorded
  <1>9. p \in Records => /\ p.id \in Jobs /\ p.before \in ServiceSets /\ p.after \in ServiceSets
    BY DEF Records
  <1> HIDE DEF r, p
  <1>10. w.what \in {"begin", "recover", "unrecover"} => r \in Records
    BY <1>2, <1>4, <1>5, <1>6, <1>9 DEF Records, Recoveries
  <1>8. w.what \in {"recover", "unrecover"} =>
           r.id = p.id /\ r.before = p.before /\ r.after = p.after
    BY <1>5, <1>6
  <1> QED
    BY <1>1, <1>2, <1>3, <1>4, <1>5, <1>6, <1>7, <1>8, <1>10 DEF p, r

(* What the store has after an update by whoever. *)
LEMMA StoreIs ==
    ASSUME TypeOK, NEW w \in Updates, Fits(w), Store(w),
           w.what \in {"begin", "recover"} => /\ w.by \in Jobs /\ w.id \in Jobs
                                              /\ w.before \in ServiceSets /\ w.after \in ServiceSets
    PROVE  /\ pending'[w.sim] = Recorded(w)
           /\ \A s \in Simulators : s # w.sim => pending'[s] = pending[s]
           /\ Harmless(w) => pending'[w.sim] = pending[w.sim]
           /\ w.what # "begin" => \A s \in Simulators :
                 /\ pending[s] = None => pending'[s] = None
                 /\ pending'[s] # None => /\ pending'[s].id = pending[s].id
                                          /\ pending'[s].before = pending[s].before
                                          /\ pending'[s].after = pending[s].after
           /\ forgotten \subseteq forgotten'
           /\ \A s \in Simulators : pending[s] # None /\ pending'[s] = None =>
                 s = w.sim /\ w.what \in {"complete", "promote", "clear"}
           /\ w.what = "clear" => w.sim \in forgotten'
           /\ w.what = "promote" => pending[w.sim] \in Records
           /\ \A s \in Simulators : checkpoint'[s] # checkpoint[s] =>
                 s = w.sim /\ w.what = "promote" /\ checkpoint'[s] = pending[s].before
           /\ checkpoint' \in [Simulators -> ServiceSets \cup {None}]
           /\ pending' \in [Simulators -> Records \cup {None}]
  <1>1. /\ w.sim \in Simulators /\ pending[w.sim] \in Records \cup {None} /\ w.what \in Whats
        /\ Harmless(w) => Recorded(w) = pending[w.sim]
        /\ w.what \notin {"note", "begin"} =>
              pending[w.sim] \in Records /\ pending[w.sim].id = w.id
        /\ w.what \in {"recover", "unrecover"} =>
              /\ Recorded(w).id = pending[w.sim].id
              /\ Recorded(w).before = pending[w.sim].before
              /\ Recorded(w).after = pending[w.sim].after
        /\ w.what \in {"begin", "recover", "unrecover"} => Recorded(w) \in Records
        /\ w.what \in {"complete", "promote", "clear"} => Recorded(w) = None
    BY RecordedIs DEF Updates
  <1>2. /\ pending' = [pending EXCEPT ![w.sim] = Recorded(w)]
        /\ checkpoint' = IF w.what = "promote"
                         THEN [checkpoint EXCEPT ![w.sim] = pending[w.sim].before] ELSE checkpoint
        /\ forgotten' = IF w.what = "clear" THEN forgotten \cup {w.sim} ELSE forgotten
        /\ pending \in [Simulators -> Records \cup {None}]
        /\ checkpoint \in [Simulators -> ServiceSets \cup {None}]
    BY DEF Store, TypeOK
  <1>3. w.what \in {"note", "keep", "begin", "recover", "unrecover", "complete", "promote", "clear"}
    BY <1>1 DEF Whats
  <1>4. Recorded(w) \in Records \cup {None} /\ (Harmless(w) <=> w.what \in {"note", "keep"})
    BY <1>1, <1>3 DEF Harmless
  <1>5. pending[w.sim] \in Records => pending[w.sim].before \in ServiceSets
    BY DEF Records
  <1>6. /\ pending'[w.sim] = Recorded(w)
        /\ \A s \in Simulators : s # w.sim => pending'[s] = pending[s]
        /\ pending' \in [Simulators -> Records \cup {None}]
    BY <1>1, <1>2, <1>4
  <1>7. /\ \A s \in Simulators : checkpoint'[s] # checkpoint[s] =>
              s = w.sim /\ w.what = "promote" /\ checkpoint'[s] = pending[s].before
        /\ checkpoint' \in [Simulators -> ServiceSets \cup {None}]
        /\ w.what = "promote" => pending[w.sim] \in Records
    BY <1>1, <1>2, <1>5
  <1>8. /\ forgotten \subseteq forgotten' /\ (w.what = "clear" => w.sim \in forgotten')
    BY <1>2
  <1>9. None \notin Records
    BY NamesAre
  <1>10. w.what # "begin" => \A s \in Simulators :
            /\ pending[s] = None => pending'[s] = None
            /\ pending'[s] # None => /\ pending'[s].id = pending[s].id
                                     /\ pending'[s].before = pending[s].before
                                     /\ pending'[s].after = pending[s].after
    BY <1>1, <1>3, <1>4, <1>6, <1>9
  <1>11. \A s \in Simulators : pending[s] # None /\ pending'[s] = None =>
            s = w.sim /\ w.what \in {"complete", "promote", "clear"}
    BY <1>1, <1>3, <1>4, <1>6, <1>9
  <1> QED
    BY <1>1, <1>6, <1>7, <1>8, <1>10, <1>11

(* A job's update is taken: what it was, and where the job goes. *)
LEMMA JobStoredIs ==
    ASSUME IInv, Stored, NEW w, w = Head(writes), w.by # Refresh
    PROVE  /\ w \in Updates /\ w.by \in Jobs /\ w.sim \in Simulators /\ Target(w.by) = w.sim
           /\ WriteOK(w) /\ JobWrites(w, w.by) /\ Fits(w) /\ Store(w) /\ 1 \in 1..Len(writes)
           /\ w = writes[1] /\ writes # <<>>
           /\ Others(w.by, writes')
           /\ \A n \in 1..Len(writes') : \E i \in 2..Len(writes) : writes'[n] = writes[i]
           /\ phase[w.by] \in {"beginning", "settling", "noting"}
           /\ w.what \in {"begin", "recover"} => phase[w.by] = "beginning"
           /\ w.what \in {"begin", "recover"} =>
                 w.by \in Jobs /\ w.id \in Jobs /\ w.before \in ServiceSets /\ w.after \in ServiceSets
           /\ phase' = [phase EXCEPT ![w.by] = IF phase[w.by] = "beginning" THEN "mutating" ELSE "next"]
           /\ phase[w.by] = "settling" => holder' = [holder EXCEPT ![w.sim] = None] /\ turns' = Tail(turns)
           /\ phase[w.by] # "settling" => holder' = holder /\ turns' = turns
           /\ UNCHANGED <<services, kind, targets, place, goal, record, refresh, at, guest, guestAt>>
  <1>1. /\ writes # <<>> /\ Fits(w) /\ Store(w) /\ writes' = Tail(writes)
        /\ UNCHANGED <<services, kind, targets, place, goal, record, guest, guestAt>>
    BY DEF Stored, taskVars, guestVars
  <1>2. /\ phase[w.by] = "settling" => Lease!Release(w.sim) /\ turns' = Tail(turns)
        /\ phase[w.by] # "settling" => holder' = holder /\ turns' = turns
        /\ phase' = [phase EXCEPT ![w.by] = IF phase[w.by] = "beginning" THEN "mutating" ELSE "next"]
        /\ refresh' = refresh /\ at' = at
    BY DEF Stored, leaseVars
  <1>3. /\ w = writes[1] /\ 1 \in 1..Len(writes) /\ WriteOK(w)
        /\ Others(w.by, writes')
        /\ \A n \in 1..Len(writes') : \E i \in 2..Len(writes) : writes'[n] = writes[i]
    BY <1>1, OthersBehind
  <1>4. /\ w \in Updates /\ w.by \in Jobs /\ w.sim \in Simulators /\ JobWrites(w, w.by)
        /\ phase[w.by] \in {"beginning", "settling", "noting"} /\ Target(w.by) = w.sim
        /\ w.what \in {"begin", "recover"} => phase[w.by] = "beginning"
    BY <1>3, WriterIs
  <1>5. ASSUME phase[w.by] = "beginning"
        PROVE  w.by \in Jobs /\ w.id \in Jobs /\ w.before \in ServiceSets /\ w.after \in ServiceSets
    <2>1. w = Journal(w.by)
      BY <1>4, <1>5 DEF JobWrites
    <2>2. record[w.by] \in Jobs /\ goal[w.by] \in ServiceSets /\ services[Target(w.by)] \in ServiceSets
      BY <1>4, <1>5, AttemptIs
    <2> QED
      BY <1>4, <2>1, <2>2 DEF Journal, Write
  <1> QED
    BY <1>1, <1>2, <1>3, <1>4, <1>5, ReleaseIs

LEMMA JobStoredMoves ==
    ASSUME IInv, Stored, NEW w, w = Head(writes), w.by # Refresh
    PROVE  /\ TypeOK' /\ JobMoves(w.by)
           /\ phase'[w.by] \in {"mutating", "next"}
           /\ phase'[w.by] = "mutating" <=> phase[w.by] = "beginning"
  <1> DEFINE j == w.by
  <1>1. /\ w \in Updates /\ j \in Jobs /\ w.sim \in Simulators /\ Target(j) = w.sim
        /\ Fits(w) /\ Store(w) /\ Others(j, writes')
        /\ phase[j] \in {"beginning", "settling", "noting"}
        /\ w.what \in {"begin", "recover"} =>
              w.by \in Jobs /\ w.id \in Jobs /\ w.before \in ServiceSets /\ w.after \in ServiceSets
        /\ phase' = [phase EXCEPT ![j] = IF phase[j] = "beginning" THEN "mutating" ELSE "next"]
        /\ phase[j] = "settling" => holder' = [holder EXCEPT ![w.sim] = None] /\ turns' = Tail(turns)
        /\ phase[j] # "settling" => holder' = holder /\ turns' = turns
        /\ UNCHANGED <<services, kind, targets, place, goal, record, refresh, at, guest, guestAt>>
    BY JobStoredIs
  <1> HIDE DEF j
  <1>2. TypeOK /\ LeaseHeld /\ DOMAIN holder = Simulators
    BY DEF IInv, Shape
  <1>3. /\ phase'[j] = IF phase[j] = "beginning" THEN "mutating" ELSE "next"
        /\ \A k \in Jobs \ {j} : phase'[k] = phase[k]
        /\ phase' \in [Jobs -> Phases]
    BY <1>1, <1>2 DEF TypeOK, Phases
  <1>4. phase[j] = "settling" => turns # <<>> /\ Head(turns) = j /\ holder[w.sim] = j
    BY <1>1, <1>2 DEF LeaseHeld, Working
  <1>5. \A k \in Jobs \ {j} : Same(k)
    BY <1>1, <1>3 DEF Same
  <1>6. Onward(j)
    BY <1>1, <1>3 DEF Onward, Late
  <1>7. DOMAIN holder' = Simulators /\ \A s \in Simulators : holder'[s] = holder[s] \/ holder[s] = j
    BY <1>1, <1>2, <1>4
  <1>8. JobMoves(j)
    BY <1>1, <1>4, <1>5, <1>6, <1>7 DEF JobMoves
  <1>9. TypeOK'
    <2>1. /\ pending' \in [Simulators -> Records \cup {None}]
          /\ checkpoint' \in [Simulators -> ServiceSets \cup {None}]
      BY <1>1, <1>2, StoreIs
    <2>2. \A k \in Jobs : Active(k)' => place'[k] \in DOMAIN targets'[k]
      BY <1>1, <1>2, <1>3 DEF TypeOK, Active
    <2>3. turns' \in Seq(Jobs)
      <3>1. turns \in Seq(Jobs)
        BY <1>2 DEF TypeOK
      <3>2. turns # <<>> => Tail(turns) \in Seq(Jobs)
        BY <3>1, TailIs
      <3> QED
        BY <1>1, <1>4, <3>1, <3>2
    <2>4. writes' \in Seq(Updates)
      BY <1>1 DEF Others
    <2> QED
      BY <1>1, <1>2, <1>3, <2>1, <2>2, <2>3, <2>4 DEF TypeOK
  <1> QED
    BY <1>1, <1>3, <1>8, <1>9 DEF j

(* For the job whose begin or recover is on disk now.                      *)
LEMMA JobStoredOwn ==
    ASSUME IInv, Stored, NEW w, w = Head(writes), w.by # Refresh, phase[w.by] = "beginning"
    PROVE  /\ w = Journal(w.by) /\ w.what \in {"begin", "recover"}
           /\ Undone(w.by)' /\ Begun(w.by)' /\ RecordOK(w.sim)'
  <1>1. PICK j \in Jobs : j = w.by
    BY JobStoredIs
  <1>2. /\ w \in Updates /\ w.sim \in Simulators /\ Target(j) = w.sim
        /\ JobWrites(w, j) /\ Fits(w) /\ Store(w) /\ w = writes[1] /\ 1 \in 1..Len(writes)
        /\ \A n \in 1..Len(writes') : \E i \in 2..Len(writes) : writes'[n] = writes[i]
        /\ w.what \in {"begin", "recover"} =>
              w.by \in Jobs /\ w.id \in Jobs /\ w.before \in ServiceSets /\ w.after \in ServiceSets
        /\ UNCHANGED <<services, kind, targets, place, goal, record>>
    BY <1>1, JobStoredIs
  <1>3. phase'[j] = "mutating" /\ JobMoves(j) /\ TypeOK'
    BY <1>1, JobStoredMoves
  <1>4. w = Journal(j)
    BY <1>1, <1>2 DEF JobWrites
  <1>5. /\ w.by = j /\ w.sim = Target(j) /\ w.id = record[j]
        /\ w.what = (IF Emergency(j) THEN "recover" ELSE "begin")
        /\ w.before = services[Target(j)] /\ w.after = goal[j]
    BY <1>4 DEF Journal, Write
  <1>6. /\ TypeOK /\ Undone(j) /\ JobShape(j) /\ Aims(j) /\ Active(j)
        /\ record[j] \in Jobs /\ goal[j] \in ServiceSets
        /\ goal[j] # "partial" \/ Target(j) \in forgotten
        /\ place \in [Jobs -> Nat \ {0}]
    BY <1>1 DEF IInv, Shape, Aims, JobShape, Active
  <1>7. /\ Target(j)' = Target(j) /\ Emergency(j)' = Emergency(j) /\ Changes(j)' = Changes(j)
        /\ Changes(j)
    BY <1>1, <1>2, <1>6 DEF Target, Emergency, Changes, Undone
  <1>8. /\ pending'[w.sim] = Recorded(w) /\ Recorded(w) # None
        /\ w.what = "begin" => Recorded(w) = [id |-> w.id, before |-> w.before,
                                              after |-> w.after, recovery |-> None]
        /\ w.what = "recover" =>
              /\ pending[w.sim] \in Records /\ pending[w.sim].id = w.id
              /\ Recorded(w) = [id |-> pending[w.sim].id, before |-> pending[w.sim].before,
                                after |-> pending[w.sim].after,
                                recovery |-> [id |-> w.by, before |-> w.before]]
        /\ forgotten \subseteq forgotten'
    BY <1>2, <1>5, <1>6, StoreIs, RecordedIs, NamesAre
  <1>9. [id |-> w.by, before |-> w.before] # None
    BY <1>2, <1>5, NamesAre DEF Recoveries
  <1>10. ASSUME NEW n \in 1..Len(writes'), writes'[n].sim = Target(j)
         PROVE  Harmless(writes'[n])
    <2>1. PICK i \in 2..Len(writes) : writes'[n] = writes[i]
      BY <1>2
    <2>2. Ordered(writes) /\ 1 < i /\ i \in 1..Len(writes) /\ writes[i].sim = writes[1].sim
      BY <1>2, <1>5, <1>10, <2>1 DEF IInv, Queued
    <2>3. 1 \in 1..Len(writes) /\ writes[1].what \in {"begin", "recover"}
      BY <1>2, <1>5
    <2>4. Harmless(writes[i])
      BY <2>2, <2>3 DEF Ordered
    <2> QED
      BY <2>1, <2>4
  <1>11. CASE Emergency(j)
    <2>1. /\ pending'[Target(j)].id = record[j] /\ pending'[Target(j)] # None
          /\ pending'[Target(j)].before = pending[Target(j)].before
          /\ pending'[Target(j)].after = pending[Target(j)].after
          /\ pending'[Target(j)].recovery = [id |-> j, before |-> services[Target(j)]]
      BY <1>5, <1>8, <1>11
    <2>2. pending[Target(j)] # None /\ goal[j] = pending[Target(j)].before
      BY <1>1, <1>5, <1>6, <1>8, <1>11, NamesAre DEF Undone
    <2>3. Undone(j)'
      BY <1>2, <1>3, <1>7, <1>11, <2>1, <2>2 DEF Undone
    <2>4. Begun(j)'
      BY <1>2, <1>5, <1>7, <1>9, <1>10, <1>11, <2>1 DEF Begun
    <2>5. RecordOK(w.sim)'
      <3>1. \A k \in Jobs : Onward(k)
        BY <1>3, SameIs DEF JobMoves
      <3>2. RecordOK(w.sim)
        BY <1>2 DEF IInv
      <3>3. /\ pending[w.sim] # None /\ pending'[w.sim].id = pending[w.sim].id
            /\ pending'[w.sim].after = pending[w.sim].after
        BY <1>5, <1>8, <1>11, <2>1, <2>2
      <3> QED
        BY <1>2, <1>3, <1>6, <1>8, <3>1, <3>2, <3>3, RecordsInStep
    <2> QED
      BY <1>1, <1>4, <1>5, <1>11, <2>3, <2>4, <2>5
  <1>12. CASE ~Emergency(j)
    <2>1. record[j] = j
      BY <1>6, <1>12, NamesAre DEF Emergency
    <2>2. /\ pending'[Target(j)].id = j /\ pending'[Target(j)] # None
          /\ pending'[Target(j)].before = services[Target(j)]
          /\ pending'[Target(j)].after = goal[j]
      BY <1>5, <1>8, <1>12, <2>1
    <2>3. Undone(j)'
      BY <1>3, <1>7, <1>12 DEF Undone
    <2>4. Begun(j)'
      BY <1>2, <1>7, <1>10, <1>12, <2>2 DEF Begun
    <2>5. place'[j] \in 1..place'[j] /\ place'[j] \in DOMAIN targets'[j]
          /\ targets'[j][place'[j]] = w.sim
      BY <1>2, <1>6 DEF TypeOK, Target
    <2>6. RecordOK(w.sim)'
      <3>1. /\ pending'[w.sim].id = j /\ pending'[w.sim].after = goal[j]
            /\ phase'[j] = "mutating"
        BY <1>3, <1>5, <2>2
      <3>2. w.sim \notin forgotten' => goal[j] # "partial"
        BY <1>5, <1>6, <1>8
      <3> QED
        BY <2>5, <3>1, <3>2 DEF RecordOK, Late
    <2> QED
      BY <1>1, <1>4, <1>5, <1>12, <2>3, <2>4, <2>6
  <1> QED
    BY <1>11, <1>12

(* What the update a job gives back its lease behind does.                 *)
LEMMA NotedIs ==
    ASSUME IInv, Stored, NEW w, w = Head(writes), w.by # Refresh, phase[w.by] # "beginning"
    PROVE  w.what \notin {"begin", "recover"}
  BY JobStoredIs

(* Another job at work keeps its record.                                   *)
LEMMA JobStoredOthers ==
    ASSUME IInv, Stored, NEW w, w = Head(writes), w.by # Refresh, NEW k \in Jobs, k # w.by
    PROVE  Undone(k)' /\ Begun(k)'
  <1>1. PICK j \in Jobs : j = w.by
    BY JobStoredIs
  <1>2. /\ w \in Updates /\ w.sim \in Simulators /\ Target(j) = w.sim
        /\ Fits(w) /\ Store(w) /\ w = writes[1] /\ 1 \in 1..Len(writes)
        /\ \A n \in 1..Len(writes') : \E i \in 2..Len(writes) : writes'[n] = writes[i]
        /\ phase[j] \in {"beginning", "settling", "noting"}
        /\ w.what \in {"begin", "recover"} => phase[j] = "beginning"
        /\ w.what \in {"begin", "recover"} =>
              w.by \in Jobs /\ w.id \in Jobs /\ w.before \in ServiceSets /\ w.after \in ServiceSets
        /\ services' = services
    BY <1>1, JobStoredIs
  <1>3. TypeOK /\ LeaseHeld /\ Undone(k) /\ Begun(k) /\ Same(k)
    BY <1>1, JobStoredMoves DEF IInv, JobMoves
  <1>4. CASE ~Working(k)
    BY <1>3, <1>4 DEF Undone, Begun, Same, Working
  <1>5. CASE Working(k)
    <2>1. Target(k) \in Simulators
      BY <1>3, <1>5, Apart
    <2>2. Target(k) = w.sim => phase[j] = "noting"
      BY <1>1, <1>2, <1>3, <1>5, Apart DEF Working
    <2>3. /\ pending[Target(k)] = None => pending'[Target(k)] = None
          /\ pending'[Target(k)] # None =>
                /\ pending'[Target(k)].id = pending[Target(k)].id
                /\ pending'[Target(k)].before = pending[Target(k)].before
      BY <1>2, <1>3, <2>1, <2>2, StoreIs
    <2>4. Undone(k)'
      BY <1>2, <1>3, <1>5, <2>3, UndoneFrame
    <2>5. ASSUME phase[k] = "mutating", Changes(k)
          PROVE  Begun(k)'
      <3>1. Target(k) = w.sim => Harmless(w)
        BY <1>2, <1>3, <2>5 DEF Begun
      <3>2. pending'[Target(k)] = pending[Target(k)]
        BY <1>2, <1>3, <2>1, <3>1, StoreIs
      <3>3. \A n \in 1..Len(writes') : \E i \in 1..Len(writes) : writes'[n] = writes[i]
        BY <1>2
      <3> QED
        BY <1>2, <1>3, <2>5, <3>2, <3>3, BegunFrame
    <2>6. ASSUME ~(phase[k] = "mutating" /\ Changes(k))
          PROVE  Begun(k)'
      <3>1. Changes(k)' = Changes(k) /\ phase'[k] = phase[k]
        BY <1>2, <1>3, SameIs DEF Same
      <3> QED
        BY <2>6, <3>1 DEF Begun
    <2> QED
      BY <2>4, <2>5, <2>6
  <1> QED
    BY <1>4, <1>5

LEMMA JobStoredQueued ==
    ASSUME IInv, Stored, NEW w, w = Head(writes), w.by # Refresh
    PROVE  Queued'
  <1>1. PICK j \in Jobs : j = w.by
    BY JobStoredIs
  <1>2. /\ w \in Updates /\ w.sim \in Simulators /\ Target(j) = w.sim
        /\ Fits(w) /\ Store(w) /\ w = writes[1] /\ 1 \in 1..Len(writes)
        /\ Others(j, writes')
        /\ \A n \in 1..Len(writes') : \E i \in 2..Len(writes) : writes'[n] = writes[i]
        /\ phase[j] \in {"beginning", "settling", "noting"}
        /\ w.what \in {"begin", "recover"} => phase[j] = "beginning"
        /\ w.what \in {"begin", "recover"} =>
              w.by \in Jobs /\ w.id \in Jobs /\ w.before \in ServiceSets /\ w.after \in ServiceSets
        /\ UNCHANGED <<services, refresh, at>>
    BY <1>1, JobStoredIs
  <1>3. TypeOK /\ LeaseHeld /\ Ordered(writes) /\ \A k \in Jobs \ {j} : Same(k)
    BY <1>1, JobStoredMoves DEF IInv, Queued, JobMoves
  <1>4. ASSUME NEW v \in Updates, NEW i \in 2..Len(writes), v = writes[i], v.by # j
        PROVE  WriteOK(v)'
    <2>1. i \in 1..Len(writes) /\ i # 1
      OBVIOUS
    <2>2. WriteOK(v)
      BY <1>4, <2>1 DEF IInv, Queued
    <2>3. CASE v.by = Refresh
      <3>1. RefreshWrites(v)
        BY <2>2, <2>3 DEF WriteOK
      <3>2. at \in Simulators /\ (w.sim = at => Harmless(w))
        BY <1>1, <1>2, <3>1, NamesAre DEF RefreshWrites, IInv, Sole, Shape
      <3>3. pending'[at] = pending[at]
        BY <1>2, <1>3, <3>2, StoreIs
      <3> QED
        BY <1>2, <2>3, <3>1, <3>3 DEF WriteOK, RefreshWrites
    <2>4. CASE v.by # Refresh
      <3>1. PICK k \in Jobs : /\ k = v.by /\ JobWrites(v, k) /\ Target(k) = v.sim
                              /\ v.sim \in Simulators /\ phase[k] \in {"beginning", "settling", "noting"}
                              /\ Working(k) \/ phase[k] = "noting"
                              /\ v.what = "promote" => phase[k] = "settling"
        BY <1>4, <2>1, <2>4, WriterIs
      <3>2. k # j /\ Same(k)
        BY <1>3, <1>4, <3>1
      <3>3. CASE pending'[v.sim] = pending[v.sim]
        <4>1. JobWrites(v, k)'
          BY <1>2, <3>1, <3>2, <3>3, WriteFrame
        <4> QED
          BY <2>4, <3>1, <4>1 DEF WriteOK
      <3>4. CASE pending'[v.sim] # pending[v.sim]
        <4>1. v.sim = w.sim /\ ~Harmless(w)
          BY <1>2, <1>3, <3>1, <3>4, StoreIs
        <4>2. v.what # "promote"
          BY <1>2, <1>3, <2>1, <2>4, <4>1, <1>4 DEF Ordered
        <4>3. v.what = "complete" /\ phase[k] = "noting" /\ pending'[v.sim] # None /\ pending'[v.sim].id = v.id
                 => services[v.sim] = pending'[v.sim].before
          <5> SUFFICES ASSUME v.what = "complete", phase[k] = "noting", pending'[v.sim] # None,
                              pending'[v.sim].id = v.id
                       PROVE  services[v.sim] = pending'[v.sim].before
            OBVIOUS
          <5>1. v.id = k
            BY <3>1 DEF JobWrites
          <5>2. CASE w.what = "begin"
            <6>1. phase[j] = "beginning" /\ w = Journal(j)
              BY <1>1, <1>2, <5>2, JobStoredOwn
            <6>2. ~Emergency(j) /\ w.id = record[j]
              BY <5>2, <6>1 DEF Journal, Write
            <6>3. record[j] \in Jobs
              BY <6>1, AttemptIs
            <6>4. w.id = j
              BY <6>2, <6>3, NamesAre DEF Emergency
            <6>5. pending'[w.sim].id = w.id
              BY <1>2, <1>3, <5>2, StoreIs, RecordedIs
            <6> QED
              BY <3>2, <4>1, <5>1, <6>4, <6>5
          <5>3. CASE w.what # "begin"
            <6>1. /\ pending[v.sim] # None /\ pending'[v.sim].id = pending[v.sim].id
                  /\ pending'[v.sim].before = pending[v.sim].before
              BY <1>2, <1>3, <3>1, <5>3, StoreIs
            <6> QED
              BY <3>1, <6>1 DEF JobWrites
          <5> QED
            BY <5>2, <5>3
        <4>4. /\ Target(k)' = Target(k) /\ Journal(k)' = Journal(k)
          BY <1>2, <3>2, SameIs
        <4>5. JobWrites(v, k)'
          <5>1. /\ v.sim = Target(k)' /\ phase'[k] = phase[k] /\ kind'[k] = kind[k] /\ goal'[k] = goal[k]
            BY <3>1, <3>2, <4>4 DEF Same
          <5>2. CASE phase[k] = "beginning"
            BY <3>1, <4>4, <5>1, <5>2 DEF JobWrites
          <5>3. CASE phase[k] = "settling"
            BY <1>2, <3>1, <4>2, <5>1, <5>3 DEF JobWrites
          <5>4. CASE phase[k] = "noting"
            BY <1>2, <3>1, <4>3, <5>1, <5>4 DEF JobWrites
          <5> QED
            BY <3>1, <5>2, <5>3, <5>4
        <4> QED
          BY <2>4, <3>1, <4>5 DEF WriteOK
      <3> QED
        BY <3>3, <3>4
    <2> QED
      BY <2>3, <2>4
  <1>5. \A v \in Updates : (\E n \in 1..Len(writes') : v = writes'[n]) => WriteOK(v)'
    <2> SUFFICES ASSUME NEW v \in Updates, NEW n \in 1..Len(writes'), v = writes'[n]
                 PROVE  WriteOK(v)'
      OBVIOUS
    <2>1. PICK i \in 2..Len(writes) : v = writes[i]
      BY <1>2
    <2>2. v.by # j
      BY <1>2 DEF Others
    <2> QED
      BY <1>4, <2>1, <2>2
  <1> QED
    BY <1>2, <1>5 DEF Queued, Others

LEMMA JobStoredKept ==
    ASSUME IInv, Stored, NEW w, w = Head(writes), w.by # Refresh
    PROVE  IInv'
  <1>1. PICK j \in Jobs : j = w.by
    BY JobStoredIs
  <1>2. /\ w \in Updates /\ w.sim \in Simulators /\ Target(j) = w.sim
        /\ WriteOK(w) /\ JobWrites(w, j) /\ Fits(w) /\ Store(w) /\ w = writes[1] /\ 1 \in 1..Len(writes)
        /\ \A n \in 1..Len(writes') : \E i \in 2..Len(writes) : writes'[n] = writes[i]
        /\ phase[j] \in {"beginning", "settling", "noting"}
        /\ w.what \in {"begin", "recover"} => phase[j] = "beginning"
        /\ w.what \in {"begin", "recover"} =>
              w.by \in Jobs /\ w.id \in Jobs /\ w.before \in ServiceSets /\ w.after \in ServiceSets
        /\ phase[j] # "settling" => holder' = holder /\ turns' = turns
        /\ UNCHANGED <<services, kind, targets, place, goal, record, refresh, at>>
    BY <1>1, JobStoredIs
  <1>3. /\ TypeOK' /\ JobMoves(j) /\ phase'[j] \in {"mutating", "next"}
        /\ phase'[j] = "mutating" <=> phase[j] = "beginning"
    BY <1>1, JobStoredMoves
  <1>4. TypeOK /\ LeaseHeld /\ JobShape(j) /\ place \in [Jobs -> Nat \ {0}]
    BY DEF IInv, Shape
  <1>5. /\ forgotten \subseteq forgotten'
        /\ w.what # "begin" => \A s \in Simulators :
              /\ pending[s] = None => pending'[s] = None
              /\ pending'[s] # None => /\ pending'[s].id = pending[s].id
                                       /\ pending'[s].before = pending[s].before
                                       /\ pending'[s].after = pending[s].after
        /\ \A s \in Simulators : s # w.sim => pending'[s] = pending[s]
        /\ Harmless(w) => pending'[w.sim] = pending[w.sim]
        /\ \A s \in Simulators : pending[s] # None /\ pending'[s] = None =>
              s = w.sim /\ w.what \in {"complete", "promote", "clear"}
        /\ w.what = "clear" => w.sim \in forgotten'
        /\ w.what = "promote" => pending[w.sim] \in Records
        /\ \A s \in Simulators : checkpoint'[s] # checkpoint[s] =>
              s = w.sim /\ w.what = "promote" /\ checkpoint'[s] = pending[s].before
        /\ pending' \in [Simulators -> Records \cup {None}]
    BY <1>2, <1>4, StoreIs
  <1>6. Target(j)' = Target(j) /\ Changes(j)' = Changes(j)
    BY <1>2 DEF Target, Changes
  <1>7. JobHeld(j)'
    <2>1. CASE phase[j] = "beginning"
      <3>1. turns # <<>> /\ Head(turns) = j /\ holder[Target(j)] = j
        BY <2>1, AttemptIs
      <3>2. JobShape(j)'
        BY <1>2, <1>3, <1>4, <1>5, <1>6, <2>1 DEF JobShape, Aims
      <3> QED
        BY <1>2, <1>6, <2>1, <3>1, <3>2 DEF JobHeld
    <2>2. CASE phase[j] # "beginning"
      <3>1. phase'[j] = "next"
        BY <1>3, <2>2
      <3>2. ~Working(j)' /\ ~Aims(j)'
        BY <3>1 DEF Working, Aims
      <3>3. kind[j] # None
        BY <1>2, <1>4 DEF JobShape
      <3> QED
        BY <1>2, <1>4, <3>1, <3>2, <3>3 DEF JobHeld, JobShape
    <2> QED
      BY <2>1, <2>2
  <1>8. LeaseHeld' /\ Shape'
    BY <1>2, <1>3, <1>4, <1>5, <1>7, LeasesInMove, ShapeInMove
  <1>9. ASSUME NEW s \in Simulators
        PROVE  RecordOK(s)'
    <2>1. \A k \in Jobs : Onward(k)
      BY <1>3, SameIs DEF JobMoves
    <2>2. RecordOK(s)
      BY DEF IInv
    <2>3. CASE w.what = "begin" /\ s = w.sim
      <3>1. RecordOK(w.sim)'
        BY <1>1, <1>2, <2>3, JobStoredOwn
      <3> QED
        BY <2>3, <3>1
    <2>4. CASE ~(w.what = "begin" /\ s = w.sim)
      <3>1. pending'[s] # None => /\ pending[s] # None /\ pending'[s].id = pending[s].id
                                  /\ pending'[s].after = pending[s].after
        BY <1>5, <2>4
      <3> QED
        BY <1>2, <1>3, <1>4, <1>5, <2>1, <2>2, <3>1, RecordsInStep
    <2> QED
      BY <2>3, <2>4
  <1>10. ASSUME NEW k \in Jobs
         PROVE  Undone(k)' /\ Begun(k)'
    <2>1. CASE k # j
      BY <1>1, <2>1, JobStoredOthers
    <2>2. CASE k = j /\ phase[j] = "beginning"
      <3>1. Undone(w.by)' /\ Begun(w.by)'
        BY <1>1, <2>2, JobStoredOwn
      <3> QED
        BY <1>1, <2>2, <3>1
    <2>3. CASE k = j /\ phase[j] # "beginning"
      BY <1>3, <2>3 DEF Undone, Begun
    <2> QED
      BY <2>1, <2>2, <2>3
  <1>11. Queued'
    BY <1>1, JobStoredQueued, NamesAre
  <1>12. Sole'
    <2> SUFFICES ASSUME refresh \in {"inspecting", "settling"}
                 PROVE  Sole'
      BY <1>2 DEF Sole
    <2>1. /\ pending[at] # None /\ at \in Simulators
          /\ \A i \in 1..Len(writes) :
                writes[i].sim = at /\ writes[i].by # Refresh => Harmless(writes[i])
      BY DEF IInv, Sole, Shape
    <2>2. at = w.sim => Harmless(w)
      BY <1>2, <2>1
    <2>3. pending'[at] = pending[at]
      BY <1>5, <2>1, <2>2
    <2>4. \A n \in 1..Len(writes') : writes'[n].sim = at /\ writes'[n].by # Refresh => Harmless(writes'[n])
      BY <1>2, <2>1
    <2> QED
      BY <1>2, <2>1, <2>3, <2>4 DEF Sole
  <1>13. NoChangeForgotten'
    <2> SUFFICES ASSUME NEW s \in Simulators, services[s] = "partial", s \notin forgotten',
                        pending'[s] = None
                 PROVE  FALSE
      BY <1>2 DEF NoChangeForgotten
    <2>1. s \notin forgotten /\ pending[s] # None
      BY <1>5 DEF IInv, NoChangeForgotten
    <2>2. s = w.sim /\ w.what \in {"complete", "promote"}
      BY <1>5, <2>1
    <2>3. pending[s] \in Records /\ pending[s].id = w.id /\ pending[s].before # "partial"
      <3>1. pending[s] \in Records /\ pending[s].id = w.id
        BY <1>2, <1>4, <2>2, RecordedIs
      <3> QED
        BY <2>1, <3>1, NamesAre DEF IInv, RestorePointsAreWhole
    <2>4. CASE phase[j] = "settling"
      <3>1. services[s] = goal[j] /\ kind[j] # "forget"
        BY <1>2, <2>2, <2>4 DEF JobWrites
      <3>2. goal[j] # "partial"
        BY <1>2, <1>4, <2>1, <2>2, <2>4, <3>1 DEF JobShape, Aims
      <3> QED
        BY <3>1, <3>2
    <2>5. CASE phase[j] = "noting"
      <3>1. w.what = "complete" /\ services[s] = pending[s].before
        BY <1>2, <2>1, <2>2, <2>3, <2>5 DEF JobWrites
      <3> QED
        BY <2>3, <3>1
    <2>6. CASE phase[j] = "beginning"
      <3>1. w.what \in {"begin", "recover"}
        BY <1>1, <2>6, JobStoredOwn
      <3> QED
        BY <2>2, <3>1
    <2> QED
      BY <1>2, <2>4, <2>5, <2>6
  <1>14. RestorePointsAreWhole'
    <2> SUFFICES ASSUME NEW s \in Simulators, s \notin forgotten'
                 PROVE  /\ checkpoint'[s] # "partial"
                        /\ pending'[s] # None => pending'[s].before # "partial"
      BY DEF RestorePointsAreWhole
    <2>1. /\ s \notin forgotten /\ checkpoint[s] # "partial"
          /\ pending[s] # None => pending[s].before # "partial"
      BY <1>5 DEF IInv, RestorePointsAreWhole
    <2>2. checkpoint'[s] # "partial"
      BY <1>5, <2>1, NamesAre
    <2>3. CASE ~(w.what = "begin" /\ s = w.sim)
      BY <1>5, <2>1, <2>2, <2>3
    <2>4. CASE w.what = "begin" /\ s = w.sim
      <3>1. pending[s] = None /\ pending'[s] = [id |-> w.id, before |-> w.before,
                                                 after |-> w.after, recovery |-> None]
        BY <1>2, <1>4, <2>4, StoreIs, RecordedIs
      <3>2. w = Journal(j)
        BY <1>1, <1>2, <2>4, JobStoredOwn
      <3>3. w.before = services[s]
        BY <1>2, <2>4, <3>2 DEF Journal, Write
      <3>4. services[s] # "partial"
        BY <2>1, <3>1 DEF IInv, NoChangeForgotten
      <3> QED
        BY <2>2, <3>1, <3>3, <3>4
    <2> QED
      BY <2>3, <2>4
  <1> QED
    BY <1>3, <1>8, <1>9, <1>10, <1>11, <1>12, <1>13, <1>14 DEF IInv

LEMMA RefreshStoredKept ==
    ASSUME IInv, Stored, NEW w, w = Head(writes), w.by = Refresh
    PROVE  IInv'
  <1>1. /\ writes # <<>> /\ Fits(w) /\ Store(w) /\ writes' = Tail(writes)
        /\ Lease!Release(at) /\ refresh' = "walking" /\ at' = None
        /\ UNCHANGED <<services, kind, targets, place, goal, record, guest, guestAt, turns, phase>>
    BY DEF Stored, taskVars, guestVars
  <1>2. /\ WriteOK(w) /\ w \in Updates /\ Others(Refresh, writes')
    BY <1>1, OthersBehind
  <1>3. RefreshWrites(w)
    BY <1>2 DEF WriteOK
  <1>4. /\ w.sim = at /\ at \in Simulators /\ holder[at] = Refresh /\ pending[at] # None
        /\ w.what \in {"keep", "unrecover", "complete", "promote"}
        /\ w.what = "complete" => services[at] = pending[at].before
        /\ w.what = "promote" => services[at] = pending[at].after
    BY <1>3 DEF RefreshWrites, IInv, Shape, LeaseHeld, Sole
  <1>5. TypeOK /\ LeaseHeld /\ place \in [Jobs -> Nat \ {0}]
    BY DEF IInv, Shape
  <1>6. /\ forgotten \subseteq forgotten'
        /\ \A s \in Simulators :
              /\ pending[s] = None => pending'[s] = None
              /\ pending'[s] # None => /\ pending'[s].id = pending[s].id
                                       /\ pending'[s].before = pending[s].before
                                       /\ pending'[s].after = pending[s].after
        /\ \A s \in Simulators : s # at => pending'[s] = pending[s]
        /\ \A s \in Simulators : pending[s] # None /\ pending'[s] = None =>
              s = at /\ w.what \in {"complete", "promote"}
        /\ \A s \in Simulators : checkpoint'[s] # checkpoint[s] =>
              s = at /\ checkpoint'[s] = pending[s].before
        /\ pending' \in [Simulators -> Records \cup {None}]
        /\ checkpoint' \in [Simulators -> ServiceSets \cup {None}]
    BY <1>1, <1>2, <1>4, <1>5, StoreIs
  <1>7. /\ DOMAIN holder' = Simulators
        /\ \A s \in Simulators : holder'[s] = holder[s] \/ holder[s] \notin Jobs
        /\ guest \in {"refreshing", "back"} => holder'[guestAt] = Guest
    BY <1>1, <1>4, RefreshReleases
  <1>8. ASSUME NEW k \in Jobs
        PROVE  /\ Same(k) /\ Onward(k) /\ Target(k)' = Target(k) /\ Active(k)' = Active(k)
               /\ Working(k)' = Working(k) /\ Aims(k)' = Aims(k) /\ Changes(k)' = Changes(k)
    <2>1. Same(k)
      BY <1>1 DEF Same
    <2> QED
      BY <1>1, <2>1, SameIs
  <1>9. TypeOK'
    <2>1. \A k \in Jobs : Active(k)' => place'[k] \in DOMAIN targets'[k]
      BY <1>1, <1>5 DEF TypeOK, Active
    <2>2. writes' \in Seq(Updates)
      BY <1>2 DEF Others
    <2> QED
      BY <1>1, <1>5, <1>6, <2>1, <2>2 DEF TypeOK
  <1>10. LeaseHeld'
    <2>1. ASSUME NEW k \in Jobs, Working(k)'
          PROVE  holder'[Target(k)'] = k
      <3>1. Working(k) /\ Target(k)' = Target(k)
        BY <1>8, <2>1
      <3>2. Target(k) \in Simulators /\ holder[Target(k)] = k
        BY <1>5, <3>1, Apart DEF LeaseHeld
      <3> QED
        BY <1>7, <3>1, <3>2
    <2>2. \A k \in Jobs : Working(k)' /\ phase'[k] # "turn" => turns' # <<>> /\ Head(turns') = k
      BY <1>1, <1>5, <1>8 DEF LeaseHeld
    <2> QED
      BY <1>1, <2>1, <2>2 DEF LeaseHeld
  <1>11. Shape'
    <2>1. ASSUME NEW k \in Jobs
          PROVE  JobShape(k)'
      <3>1. JobShape(k)
        BY DEF IInv, Shape
      <3> QED
        BY <1>1, <1>6, <1>8, <3>1 DEF JobShape
    <2>2. guest \in {"line", "refreshing", "back"} => guestAt \in Simulators
      BY DEF IInv, Shape
    <2> QED
      BY <1>1, <1>5, <1>7, <2>1, <2>2 DEF Shape
  <1>12. \A s \in Simulators : RecordOK(s)'
    <2>1. \A k \in Jobs : Onward(k)
      BY <1>8
    <2>2. \A s \in Simulators : RecordOK(s)
      BY DEF IInv
    <2>3. \A s \in Simulators : pending'[s] # None =>
             /\ pending[s] # None /\ pending'[s].id = pending[s].id
             /\ pending'[s].after = pending[s].after
      BY <1>6
    <2> QED
      BY <1>5, <1>6, <1>9, <2>1, <2>2, <2>3, RecordsInStep
  <1>13. ASSUME NEW k \in Jobs
         PROVE  Undone(k)' /\ Begun(k)'
    <2>1. Same(k) /\ Undone(k) /\ Begun(k) /\ phase'[k] = phase[k]
      BY <1>1, <1>8 DEF IInv
    <2>2. CASE ~Working(k)
      BY <1>1, <2>1, <2>2 DEF Undone, Begun, Working
    <2>3. CASE Working(k)
      <3>1. Target(k) \in Simulators /\ Target(k) # at
        BY <1>3, <1>5, <2>3, Apart DEF RefreshWrites
      <3>2. pending'[Target(k)] = pending[Target(k)] /\ services' = services
        BY <1>1, <1>6, <3>1
      <3>3. \A n \in 1..Len(writes') : \E i \in 1..Len(writes) : writes'[n] = writes[i]
        BY <1>2 DEF Others
      <3>4. phase[k] = "mutating" => Begun(k)'
        BY <1>5, <2>1, <3>2, <3>3, BegunFrame
      <3>5. phase[k] # "mutating" => Begun(k)'
        BY <2>1 DEF Begun
      <3>6. Undone(k)'
        BY <1>5, <2>1, <2>3, <3>2, UndoneFrame
      <3> QED
        BY <3>4, <3>5, <3>6
    <2> QED
      BY <2>2, <2>3
  <1>14. Queued'
    <2>1. ASSUME NEW v \in Updates, NEW n \in 1..Len(writes'), v = writes'[n]
          PROVE  WriteOK(v)'
      <3>1. PICK i \in 1..Len(writes) : v = writes[i] /\ v.by # Refresh
        BY <1>2, <2>1 DEF Others
      <3>2. PICK k \in Jobs : /\ k = v.by /\ JobWrites(v, k) /\ Target(k) = v.sim
                              /\ v.sim \in Simulators
                              /\ Working(k) \/ phase[k] = "noting"
        BY <3>1, WriterIs
      <3>3. CASE v.sim # at
        <4>1. pending'[v.sim] = pending[v.sim]
          BY <1>6, <3>2, <3>3
        <4>2. JobWrites(v, k)'
          BY <1>1, <1>8, <3>2, <4>1, WriteFrame
        <4> QED
          BY <3>1, <3>2, <4>2 DEF WriteOK
      <3>4. CASE v.sim = at
        <4>1. phase[k] = "noting"
          BY <1>3, <1>5, <3>2, <3>4, Apart DEF RefreshWrites
        <4>2. pending'[v.sim] # None =>
                 /\ pending[v.sim] # None /\ pending'[v.sim].id = pending[v.sim].id
                 /\ pending'[v.sim].before = pending[v.sim].before
          BY <1>6, <3>2
        <4>3. v.sim = Target(k)' /\ phase'[k] = "noting" /\ services' = services
          BY <1>1, <1>8, <3>2, <4>1
        <4>4. JobWrites(v, k)'
          BY <3>2, <4>1, <4>2, <4>3 DEF JobWrites
        <4> QED
          BY <3>1, <3>2, <4>4 DEF WriteOK
      <3> QED
        BY <3>3, <3>4
    <2> QED
      BY <1>2, <2>1 DEF Queued, Others
  <1>15. Sole'
    BY <1>1 DEF Sole
  <1>16. NoChangeForgotten'
    <2> SUFFICES ASSUME NEW s \in Simulators, services[s] = "partial", s \notin forgotten',
                        pending'[s] = None
                 PROVE  FALSE
      BY <1>1 DEF NoChangeForgotten
    <2>1. s \notin forgotten /\ pending[s] # None
      BY <1>6 DEF IInv, NoChangeForgotten
    <2>2. s = at /\ w.what \in {"complete", "promote"}
      BY <1>6, <2>1
    <2>3. pending[s].before # "partial"
      BY <2>1 DEF IInv, RestorePointsAreWhole
    <2>4. pending[s].after # "partial"
      BY <2>1 DEF IInv, RecordOK
    <2> QED
      BY <1>4, <2>2, <2>3, <2>4
  <1>17. RestorePointsAreWhole'
    <2> SUFFICES ASSUME NEW s \in Simulators, s \notin forgotten'
                 PROVE  /\ checkpoint'[s] # "partial"
                        /\ pending'[s] # None => pending'[s].before # "partial"
      BY DEF RestorePointsAreWhole
    <2>1. /\ s \notin forgotten /\ checkpoint[s] # "partial"
          /\ pending[s] # None => pending[s].before # "partial"
      BY <1>6 DEF IInv, RestorePointsAreWhole
    <2> QED
      BY <1>4, <1>6, <2>1
  <1> QED
    BY <1>9, <1>10, <1>11, <1>12, <1>13, <1>14, <1>15, <1>16, <1>17 DEF IInv

LEMMA StoredKept ==
    ASSUME IInv, Stored
    PROVE  IInv'
  <1>1. PICK w : w = Head(writes)
    OBVIOUS
  <1> QED
    BY <1>1, JobStoredKept, RefreshStoredKept

LEMMA CrashKept ==
    ASSUME IInv, Crash
    PROVE  IInv'
  <1>1. /\ phase' = [j \in Jobs |-> IF phase[j] = "unused" THEN "unused" ELSE "done"]
        /\ kind' = [j \in Jobs |-> None] /\ targets' = [j \in Jobs |-> <<>>]
        /\ place' = [j \in Jobs |-> 1]
        /\ record' = [j \in Jobs |-> None] /\ goal' = [j \in Jobs |-> None]
        /\ holder' = [s \in Simulators |-> None]
        /\ turns' = <<>> /\ writes' = <<>>
        /\ refresh' = "idle" /\ at' = None /\ guest' = "away"
        /\ UNCHANGED <<pending, checkpoint, forgotten>>
    BY DEF Crash, storeVars
  <1>2. TypeOK /\ phase \in [Jobs -> Phases]
    BY DEF IInv, TypeOK
  <1>3. /\ services' \in [Simulators -> ServiceSets]
        /\ \A s \in Simulators : services'[s] = services[s] \/ pending[s] # None
    <2>1. CASE \E j \in Jobs : phase[j] = "mutating"
      <3>1. PICK j \in Jobs : /\ phase[j] = "mutating"
                              /\ \E x \in Remains(j) : services' = [services EXCEPT ![Target(j)] = x]
        BY <2>1 DEF Crash
      <3>2. PICK x \in Remains(j) : services' = [services EXCEPT ![Target(j)] = x]
        BY <3>1
      <3>3. /\ services' \in [Simulators -> ServiceSets]
            /\ \A s \in Simulators : services'[s] = services[s] \/ (s = Target(j) /\ Changes(j))
        BY <3>1, <3>2, RemainsAre
      <3>4. Changes(j) => pending[Target(j)] # None
        BY <3>1 DEF IInv, Begun
      <3> QED
        BY <3>3, <3>4
    <2>2. CASE ~\E j \in Jobs : phase[j] = "mutating"
      BY <1>2, <2>2 DEF Crash, TypeOK
    <2> QED
      BY <2>1, <2>2
  <1>4. /\ \A j \in Jobs : /\ phase'[j] \in {"unused", "done"} /\ place'[j] = 1 /\ record'[j] = None
                           /\ kind'[j] = None
                           /\ phase'[j] = "unused" <=> phase[j] = "unused"
        /\ phase' \in [Jobs -> Phases] /\ place' \in [Jobs -> Nat \ {0}]
    BY <1>1 DEF Phases
  <1>5. Len(writes') = 0 /\ writes' \in Seq(Updates) /\ turns' \in Seq(Jobs)
    BY <1>1
  <1>6. \A j \in Jobs : ~Active(j)' /\ ~Working(j)' /\ ~Aims(j)'
    BY <1>4 DEF Active, Working, Aims
  <1>7. TypeOK'
    <2>1. /\ kind' \in [Jobs -> Kinds \cup {None}] /\ targets' \in [Jobs -> Batches \cup {<<>>}]
          /\ goal' \in [Jobs -> ServiceSets \cup {None}] /\ record' \in [Jobs -> Jobs \cup {None}]
      BY <1>1
    <2> QED
      BY <1>1, <1>2, <1>3, <1>4, <1>5, <1>6, <2>1 DEF TypeOK
  <1>8. LeaseHeld'
    BY <1>1, <1>6 DEF LeaseHeld
  <1>9. Shape'
    <2>1. \A j \in Jobs : JobShape(j)'
      BY <1>4, <1>6, NamesAre DEF JobShape
    <2> QED
      BY <1>1, <1>4, <2>1 DEF Shape
  <1>10. ASSUME NEW s \in Simulators
         PROVE  RecordOK(s)'
    <2> SUFFICES ASSUME pending[s] # None
                 PROVE  RecordOK(s)'
      BY <1>1 DEF RecordOK
    <2>1. pending[s].id \in Jobs
      BY <1>2 DEF TypeOK, Records
    <2>2. RecordOK(s)
      BY DEF IInv
    <2> QED
      BY <1>1, <1>4, <1>6, <2>1, <2>2 DEF RecordOK
  <1>11. \A j \in Jobs : Undone(j)' /\ Begun(j)'
    BY <1>4 DEF Undone, Begun
  <1>12. Queued' /\ Sole'
    BY <1>1, <1>5 DEF Queued, Ordered, Sole
  <1>13. NoChangeForgotten' /\ RestorePointsAreWhole'
    BY <1>1, <1>3 DEF IInv, NoChangeForgotten, RestorePointsAreWhole
  <1> QED
    BY <1>7, <1>8, <1>9, <1>10, <1>11, <1>12, <1>13 DEF IInv

LEMMA InitIInv == Init => IInv
  <1> SUFFICES ASSUME Init
               PROVE  IInv
    OBVIOUS
  <1>1. /\ services = [s \in Simulators |-> "clean"] /\ pending = [s \in Simulators |-> None]
        /\ checkpoint = [s \in Simulators |-> None] /\ holder = [s \in Simulators |-> None]
        /\ turns = <<>> /\ writes = <<>> /\ refresh = "idle" /\ at = None /\ guest = "away"
        /\ kind = [j \in Jobs |-> None] /\ targets = [j \in Jobs |-> <<>>]
        /\ place = [j \in Jobs |-> 1] /\ phase = [j \in Jobs |-> "unused"]
        /\ goal = [j \in Jobs |-> None] /\ record = [j \in Jobs |-> None]
    BY DEF Init, Lease!LeaseInit
  <1>2. Len(writes) = 0 /\ writes \in Seq(Updates) /\ turns \in Seq(Jobs)
    BY <1>1
  <1>3. \A j \in Jobs : ~Active(j) /\ ~Working(j) /\ ~Aims(j)
    BY <1>1 DEF Active, Working, Aims
  <1>4. TypeOK
    <2>1. /\ services \in [Simulators -> ServiceSets] /\ phase \in [Jobs -> Phases]
      BY <1>1 DEF ServiceSets, Phases
    <2> QED
      BY <1>1, <1>2, <1>3, <2>1 DEF TypeOK
  <1>5. LeaseHeld /\ Shape
    BY <1>1, <1>3 DEF LeaseHeld, Shape, JobShape
  <1>6. /\ \A s \in Simulators : RecordOK(s)
        /\ \A j \in Jobs : Undone(j) /\ Begun(j)
        /\ NoChangeForgotten
    BY <1>1 DEF RecordOK, Undone, Begun, NoChangeForgotten
  <1>7. RestorePointsAreWhole
    BY <1>1, NamesAre DEF RestorePointsAreWhole, ServiceSets
  <1>8. Queued /\ Sole
    BY <1>1, <1>2 DEF Queued, Ordered, Sole
  <1> QED
    BY <1>4, <1>5, <1>6, <1>7, <1>8 DEF IInv

LEMMA StepIInv == IInv /\ [Next]_vars => IInv'
  <1> SUFFICES ASSUME IInv, [Next]_vars
               PROVE  IInv'
    OBVIOUS
  <1>1. ASSUME NEW j \in Jobs, Works(j)
        PROVE  IInv'
    BY <1>1, LeaveLineKept, TakeTurnKept, TurnRefusedKept, ForgetKept, PrepareKept, PreparedKept,
       PrepareFailsKept, MutatedKept, RolledBackKept, BreaksOffKept, NextTargetKept DEF Works
  <1>2. ASSUME NEW j \in Jobs, NEW k \in Requests, NEW b \in Batches, RunAction(j, k, b)
        PROVE  IInv'
    BY <1>2, RunActionKept
  <1>3. ASSUME NEW j \in Cancellable, Cancel(j)
        PROVE  IInv'
    <2>1. j \in Jobs
      BY SlimmingAssumption DEF SlimmingAssumption
    <2> QED
      BY <1>3, <2>1, CancelKept
  <1>4. CASE Persists
    BY <1>4, StoredKept, RefreshRefusedKept, AttemptRefusedKept, NoteRefusedKept DEF Persists
  <1>5. CASE Refreshes
    BY <1>5, LookedKept, LookFailsKept, InspectKept, LeaveAloneKept, ReconcileKept, AlreadyKeptKept,
       ClaimAbortedKept, EndRefreshKept, PassOverKept, TryLeaseKept DEF Refreshes
  <1>6. CASE StartRefresh \/ GuestRefreshes \/ GuestReleases \/ Stop \/ Crash
    BY <1>6, StartRefreshKept, GuestRefreshesKept, GuestReleasesKept, StopKept, CrashKept
  <1>7. ASSUME NEW s \in Simulators, Grant(s)
        PROVE  IInv'
    BY <1>7, GrantKept
  <1>8. ASSUME NEW s \in Visited, GuestClaims(s)
        PROVE  IInv'
    <2>1. s \in Simulators
      BY SlimmingAssumption DEF SlimmingAssumption
    <2> QED
      BY <1>8, <2>1, GuestClaimsKept
  <1>9. CASE UNCHANGED vars
    <2>1. IdleStep /\ writes' = writes /\ refresh' = refresh /\ at' = at
      BY <1>9 DEF IdleStep, IInv, TypeOK, Shape, LeaseHeld, vars,
                  storeVars, leaseVars, taskVars, refreshVars, guestVars
    <2> QED
      BY <2>1, IdleKept
  <1>10. CASE Next
    BY <1>1, <1>2, <1>3, <1>4, <1>5, <1>6, <1>7, <1>8, <1>10 DEF Next
  <1> QED
    BY <1>9, <1>10

-----------------------------------------------------------------------------
(* What follows.                                                           *)

(* The invariant of slimming-service.ts and slimming-persistence.ts: every *)
(* job works under its lease with the record its phase calls for, and what *)
(* is queued for the disk fits the record it was written for.              *)
THEOREM IInvInvariant == Spec => []IInv
  BY InitIInv, StepIInv, PTL DEF Spec

(* runExclusive, #withMutationQueue, tryRunExclusive: states are as        *)
(* expected; a job works under the lease of its Simulator and alone in the *)
(* mutation queue, and the reconciler under the lease it took.             *)
THEOREM InvInvariant == Spec => []Inv
  <1>1. IInv => Inv
    BY DEF IInv, Inv
  <1> QED
    BY <1>1, IInvInvariant, PTL

(* #executeTarget, #recordFailedMutation, reconcilePendingMutation:        *)
(* whatever breaks off in whatever order, a Simulator that a change left   *)
(* half-way has its record on disk, unless the operator dropped it.        *)
THEOREM ChangesAreRemembered == Spec => []NoChangeForgotten
  <1>1. IInv => NoChangeForgotten
    BY DEF IInv
  <1> QED
    BY <1>1, IInvInvariant, PTL

(* beginPendingMutation, beginPendingRecovery: while the helper changes a  *)
(* Simulator, the record on disk names that attempt and what it found.     *)
THEOREM ChangesAreJournaled == Spec => []EveryChangeIsJournaled
  <1>1. IInv => EveryChangeIsJournaled
    <2> SUFFICES ASSUME IInv, NEW j \in Jobs, phase[j] = "mutating", Changes(j)
                 PROVE  LET p == pending[Target(j)] IN
                        /\ p # None
                        /\ \/ p.id = j /\ p.before = services[Target(j)]
                           \/ /\ p.recovery # None /\ p.recovery.id = j
                              /\ p.recovery.before = services[Target(j)]
      BY DEF EveryChangeIsJournaled
    <2>1. Begun(j)
      BY DEF IInv
    <2> QED
      BY <2>1 DEF Begun
  <1> QED
    BY <1>1, IInvInvariant, PTL

(* resolvePendingMutation, beginPendingRecovery: no restore point, of a    *)
(* pending change or of the last completed one, is a state that a broken   *)
(* change left.                                                            *)
THEOREM UndoLeadsBack == Spec => []RestorePointsAreWhole
  <1>1. IInv => RestorePointsAreWhole
    BY DEF IInv
  <1> QED
    BY <1>1, IInvInvariant, PTL

(* reconcileWhenFree: the record that the reconciler settles is the one it *)
(* inspected, which no job has settled or replaced meanwhile.              *)
THEOREM ReconcilerSettlesFirst == Spec => []ReconcilerIsAlone
  <1>1. IInv => ReconcilerIsAlone
    <2> SUFFICES ASSUME IInv, writes # <<>>, Head(writes).by = Refresh
                 PROVE  Fits(Head(writes))
      BY DEF ReconcilerIsAlone
    <2>1. WriteOK(Head(writes))
      BY OthersBehind
    <2>2. RefreshWrites(Head(writes))
      BY <2>1 DEF WriteOK
    <2> QED
      BY <2>2 DEF RefreshWrites, Fits, IInv, Sole
  <1> QED
    BY <1>1, IInvInvariant, PTL

(* resolvePendingMutation: the restore point of Undo is replaced only when *)
(* the Simulator is where the promoted change was to bring it.             *)
THEOREM PromotionIsEarned == Spec => PromotedOnlyWhenDone
  <1>1. IInv /\ [Next]_vars =>
           [\A s \in Simulators : checkpoint'[s] # checkpoint[s] =>
                pending[s] # None /\ services[s] = pending[s].after]_vars
    <2> SUFFICES ASSUME IInv, Next, NEW s \in Simulators, checkpoint'[s] # checkpoint[s]
                 PROVE  pending[s] # None /\ services[s] = pending[s].after
      OBVIOUS
    <2>1. Stored
      <3>1. ASSUME NEW j \in Jobs, Works(j)
            PROVE  checkpoint' = checkpoint
        <4>1. CASE LeaveLine(j) \/ TakeTurn(j) \/ TurnRefused(j) \/ Forget(j) \/ Prepare(j)
          BY <4>1 DEF LeaveLine, TakeTurn, TurnRefused, Forget, Prepare, storeVars
        <4>2. CASE Prepared(j) \/ PrepareFails(j) \/ NextTarget(j)
          BY <4>2 DEF Prepared, PrepareFails, NextTarget, storeVars
        <4>3. CASE Mutated(j) \/ RolledBack(j) \/ BreaksOff(j)
          BY <4>3 DEF Mutated, RolledBack, BreaksOff, storeVars
        <4> QED
          BY <3>1, <4>1, <4>2, <4>3 DEF Works
      <3>2. ASSUME NEW j \in Jobs,
                   \/ Cancel(j)
                   \/ \E k \in Requests, b \in Batches : RunAction(j, k, b)
                   \/ AttemptRefused(j) \/ NoteRefused(j)
            PROVE  checkpoint' = checkpoint
        BY <3>2 DEF Cancel, RunAction, AttemptRefused, NoteRefused, Refused, storeVars
      <3>3. ASSUME RefreshRefused \/ Refreshes
            PROVE  checkpoint' = checkpoint
        <4>1. CASE RefreshRefused \/ Looked \/ LookFails \/ Inspect \/ LeaveAlone \/ EndRefresh
          BY <4>1 DEF RefreshRefused, Refused, Looked, LookFails, Inspect, LeaveAlone, EndRefresh,
                      storeVars
        <4>2. CASE Reconcile \/ AlreadyKept \/ ClaimAborted
          BY <4>2 DEF Reconcile, AlreadyKept, ClaimAborted, storeVars
        <4>3. CASE \E u \in Simulators : PassOver(u) \/ TryLease(u)
          BY <4>3 DEF PassOver, TryLease, storeVars
        <4> QED
          BY <3>3, <4>1, <4>2, <4>3 DEF Refreshes
      <3>4. ASSUME \/ StartRefresh \/ GuestRefreshes \/ GuestReleases \/ Stop \/ Crash
                   \/ \E u \in Simulators : Grant(u)
                   \/ \E u \in Visited : GuestClaims(u)
            PROVE  checkpoint' = checkpoint
        BY <3>4 DEF StartRefresh, GuestRefreshes, GuestReleases, Stop, Crash, Grant, GuestClaims,
                    storeVars
      <3>5. Cancellable \subseteq Jobs
        BY SlimmingAssumption DEF SlimmingAssumption
      <3> QED
        BY <3>1, <3>2, <3>3, <3>4, <3>5 DEF Next, Persists
    <2>2. PICK w : w = Head(writes)
      OBVIOUS
    <2>3. writes # <<>> /\ Fits(w) /\ Store(w)
      BY <2>1, <2>2 DEF Stored
    <2>4. w \in Updates /\ WriteOK(w) /\ w = writes[1] /\ 1 \in 1..Len(writes)
      BY <2>2, <2>3, OthersBehind
    <2>5. s = w.sim /\ w.what = "promote"
      <3>1. w.sim \in Simulators /\ checkpoint \in [Simulators -> ServiceSets \cup {None}]
        BY <2>4 DEF Updates, IInv, TypeOK
      <3> QED
        BY <2>3, <3>1 DEF Store
    <2>6. CASE w.by = Refresh
      BY <2>4, <2>5, <2>6 DEF WriteOK, RefreshWrites, IInv, Sole
    <2>7. CASE w.by # Refresh
      <3>1. /\ JobWrites(w, w.by) /\ phase[w.by] = "settling"
        BY <2>4, <2>5, <2>7, WriterIs
      <3> QED
        BY <2>5, <3>1 DEF JobWrites
    <2> QED
      BY <2>6, <2>7
  <1> QED
    BY <1>1, IInvInvariant, PTL DEF Spec, PromotedOnlyWhenDone
=============================================================================
