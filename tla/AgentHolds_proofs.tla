-------------------------- MODULE AgentHolds_proofs --------------------------
(***************************************************************************)
(* For any number of agents, devices, checkouts and claims, any grace      *)
(* period and any time: the invariant of AgentHolds, that its clocks are   *)
(* stopwatches, and that no agent's step takes a device from its holder.   *)
(***************************************************************************)
EXTENDS AgentHolds, FiniteSetTheorems, WellFoundedInduction, TLAPS

-----------------------------------------------------------------------------
(* Orders of claims: the operators below are about any set of claims.      *)

(* Dropping claims leaves the others where they stand: whose they are, on  *)
(* which device, and after whom, but for those dropped.                    *)
LEMMA WithoutKeeps ==
    ASSUME NEW gone \in SUBSET claims, claims \subseteq Claims
    PROVE  /\ Without(gone) \subseteq Claims
           /\ \A c \in claims \ gone :
                 Claim(c.holder, c.udid,
                       {h \in c.after : \A g \in gone :
                                 ~(g.udid = c.udid /\ g.holder = h)})
                     \in Without(gone)
           /\ \A d \in Without(gone) : \E c \in claims \ gone :
                 /\ d.holder = c.holder
                 /\ d.udid = c.udid
                 /\ d.after = {h \in c.after : \A g \in gone :
                                 ~(g.udid = c.udid /\ g.holder = h)}
  <1> DEFINE Rest(c) == {h \in c.after : \A g \in gone :
                                 ~(g.udid = c.udid /\ g.holder = h)}
  <1>1. Without(gone) = {Claim(c.holder, c.udid, Rest(c)) : c \in claims \ gone}
    BY DEF Without
  <1>2. \A c \in claims :
            c.holder \in Holders /\ c.udid \in Devices /\ c.after \subseteq Holders
    BY DEF Claims
  <1>3. \A c \in claims : Rest(c) \subseteq Holders
    BY <1>2
  <1> HIDE DEF Rest
  <1>4. \A c \in claims :
            /\ Claim(c.holder, c.udid, Rest(c)) \in Claims
            /\ Claim(c.holder, c.udid, Rest(c)).holder = c.holder
            /\ Claim(c.holder, c.udid, Rest(c)).udid = c.udid
            /\ Claim(c.holder, c.udid, Rest(c)).after = Rest(c)
    BY <1>2, <1>3 DEF Claims, Claim
  <1>5. /\ Without(gone) \subseteq Claims
        /\ \A c \in claims \ gone :
              Claim(c.holder, c.udid, Rest(c)) \in Without(gone)
        /\ \A d \in Without(gone) : \E c \in claims \ gone :
              d.holder = c.holder /\ d.udid = c.udid /\ d.after = Rest(c)
    BY <1>1, <1>4
  <1> QED
    BY <1>5 DEF Rest

LEMMA SameClaim ==
    ASSUME NEW c \in Claims, NEW d \in Claims,
           c.holder = d.holder, c.udid = d.udid, c.after = d.after
    PROVE  c = d
  BY DEF Claims

(* A claim that stands after none of those dropped is left as it is.       *)
LEMMA WithoutLeaves ==
    ASSUME NEW gone \in SUBSET claims, claims \subseteq Claims,
           NEW c \in claims \ gone,
           \A g \in gone : g.udid = c.udid => g.holder \notin c.after
    PROVE  c \in Without(gone)
  <1> DEFINE Rest == {h \in c.after : \A g \in gone :
                                 ~(g.udid = c.udid /\ g.holder = h)}
  <1>1. Rest = c.after
    OBVIOUS
  <1>2. Claim(c.holder, c.udid, Rest) \in Without(gone)
    BY WithoutKeeps
  <1>3. Claim(c.holder, c.udid, c.after) = c
    BY DEF Claim, Claims
  <1> QED
    BY <1>1, <1>2, <1>3

LEMMA WithoutOrdered ==
    ASSUME NEW gone \in SUBSET claims, claims \subseteq Claims, ClaimsOrdered,
           claims' = Without(gone)
    PROVE  claims' \subseteq Claims /\ ClaimsOrdered'
  <1> DEFINE Rest(c) == {h \in c.after : \A g \in gone :
                                 ~(g.udid = c.udid /\ g.holder = h)}
  <1>1. claims' \subseteq Claims
    BY WithoutKeeps
  <1>2. \A d \in claims' : \E c \in claims \ gone :
            d.holder = c.holder /\ d.udid = c.udid /\ d.after = Rest(c)
    BY WithoutKeeps
  <1>3. \A c \in claims \ gone : Claim(c.holder, c.udid, Rest(c)) \in claims'
    BY WithoutKeeps
  <1>4. ASSUME NEW d \in claims'
        PROVE  d.after \subseteq Claimants(d.udid)' \ {d.holder}
    <2>1. PICK c \in claims \ gone :
              d.holder = c.holder /\ d.udid = c.udid /\ d.after = Rest(c)
      BY <1>2
    <2>2. SUFFICES ASSUME NEW h \in Rest(c)
                   PROVE  h \in Claimants(d.udid)' \ {d.holder}
      BY <2>1
    <2>3. PICK e \in claims : e.udid = c.udid /\ e.holder = h
      BY DEF ClaimsOrdered, Claimants, ClaimsOn
    <2>4. e \notin gone
      BY <2>3
    <2>5. PICK f \in claims' : f.holder = h /\ f.udid = c.udid
      BY <1>3, <2>3, <2>4 DEF Claim
    <2>6. h # c.holder
      BY DEF ClaimsOrdered
    <2> QED
      BY <2>1, <2>5, <2>6 DEF Claimants, ClaimsOn
  <1>5. ASSUME NEW d \in claims', NEW e \in claims', d.udid = e.udid, d # e
        PROVE  /\ d.holder # e.holder
               /\ d.holder \in e.after \/ e.holder \in d.after
    <2>1. PICK c \in claims \ gone :
              d.holder = c.holder /\ d.udid = c.udid /\ d.after = Rest(c)
      BY <1>2
    <2>2. PICK b \in claims \ gone :
              e.holder = b.holder /\ e.udid = b.udid /\ e.after = Rest(b)
      BY <1>2
    <2>3. b # c
      BY <1>1, <1>5, <2>1, <2>2 DEF Claims
    <2>4. /\ c.holder # b.holder
          /\ c.holder \in b.after \/ b.holder \in c.after
      BY <1>5, <2>1, <2>2, <2>3 DEF ClaimsOrdered
    <2>5. ASSUME NEW g \in gone, g.udid = c.udid
          PROVE  g.holder # c.holder /\ g.holder # b.holder
      <3>1. g \in claims /\ g # c /\ g # b /\ g.udid = b.udid
        BY <1>5, <2>1, <2>2, <2>5
      <3> QED
        BY ONLY <2>1, <2>2, <2>5, <3>1, ClaimsOrdered DEF ClaimsOrdered
    <2> QED
      BY <1>5, <2>1, <2>2, <2>4, <2>5
  <1>6. ASSUME NEW d \in claims', NEW e \in claims', d.udid = e.udid,
               d.holder \in e.after
        PROVE  d.after \subseteq e.after
    <2>1. PICK c \in claims \ gone :
              d.holder = c.holder /\ d.udid = c.udid /\ d.after = Rest(c)
      BY <1>2
    <2>2. PICK b \in claims \ gone :
              e.holder = b.holder /\ e.udid = b.udid /\ e.after = Rest(b)
      BY <1>2
    <2>3. c.after \subseteq b.after
      BY <1>6, <2>1, <2>2 DEF ClaimsOrdered
    <2> QED
      BY <1>6, <2>1, <2>2, <2>3
  <1> QED
    BY <1>1, <1>4, <1>5, <1>6 DEF ClaimsOrdered

(* Ordered claims have a first one on every claimed device.                *)
LEMMA OrderedHaveFirst ==
    ASSUME claims \subseteq Claims, ClaimsOrdered
    PROVE  FirstClaimExists
  <1> SUFFICES ASSUME NEW u \in Devices, ClaimsOn(u) # {}
               PROVE  FirstClaims(u) # {}
    BY DEF FirstClaimExists, ClaimsOn, Claims
  <1> DEFINE Sizes == {Cardinality(c.after) : c \in ClaimsOn(u)}
  <1>1. \A c \in ClaimsOn(u) :
            /\ c \in claims
            /\ c.after \in SUBSET Holders
            /\ IsFiniteSet(c.after)
            /\ Cardinality(c.after) \in Nat
    BY FS_Subset, FS_CardinalityType, HoldersAssumption DEF ClaimsOn, Claims
  <1>2. Sizes \subseteq Nat /\ Sizes # {}
    BY <1>1
  <1>3. PICK n \in Sizes : \A m \in Sizes : ~(<<m, n>> \in OpToRel(<, Nat))
    <2> HIDE DEF Sizes
    <2> QED
      BY <1>2, NatLessThanWellFounded, WFMin
  <1>4. \A m \in Sizes : ~(m < n)
    BY <1>2, <1>3 DEF OpToRel
  <1>5. PICK c \in ClaimsOn(u) : Cardinality(c.after) = n
    OBVIOUS
  <1>6. c.after = {}
    <2> SUFFICES ASSUME NEW h \in c.after PROVE FALSE
      OBVIOUS
    <2>1. PICK d \in ClaimsOn(u) : d.holder = h
      BY <1>1, <1>5 DEF ClaimsOrdered, Claimants, ClaimsOn
    <2>2. d.after \subseteq c.after /\ h \notin d.after
      BY <1>1, <2>1 DEF ClaimsOrdered, ClaimsOn
    <2>3. Cardinality(d.after) < Cardinality(c.after)
      <3>1. /\ Cardinality(d.after) <= Cardinality(c.after)
            /\ Cardinality(d.after) = Cardinality(c.after) => d.after = c.after
        BY <1>1, <2>2, FS_Subset
      <3> QED
        BY <1>1, <2>1, <2>2, <3>1
    <2> QED
      BY <1>4, <1>5, <2>1, <2>3
  <1> QED
    BY <1>5, <1>6 DEF FirstClaims

(* A new claim stands last on its device.                                  *)
LEMMA AddClaimOrdered ==
    ASSUME claims \subseteq Claims, ClaimsOrdered,
           NEW h \in Holders, NEW u \in Devices, AddClaim(h, u)
    PROVE  claims' \subseteq Claims /\ ClaimsOrdered'
  <1> DEFINE n == Claim(h, u, Claimants(u))
  <1>1. CASE h \in Claimants(u)
    BY <1>1 DEF AddClaim, ClaimsOrdered, Claimants, ClaimsOn
  <1>2. CASE h \notin Claimants(u)
    <2>1. /\ claims' = claims \cup {n}
          /\ n.holder = h /\ n.udid = u /\ n.after = Claimants(u)
          /\ n \in Claims
      BY <1>2 DEF AddClaim, Claim, Claims, Claimants, ClaimsOn
    <2> HIDE DEF n
    <2>2. /\ \A v : Claimants(v) \subseteq Claimants(v)'
          /\ \A c \in claims : c.udid = u => c.holder \in Claimants(u)
      BY <2>1 DEF Claimants, ClaimsOn
    <2>3. \A c \in claims : c.udid = u => c.holder # h /\ h \notin c.after
      BY <1>2, <2>2 DEF ClaimsOrdered
    <2>4. \A c \in claims' : c.after \subseteq Claimants(c.udid)' \ {c.holder}
      BY <1>2, <2>1, <2>2 DEF ClaimsOrdered
    <2>5. \A c, d \in claims' : c.udid = d.udid /\ c # d =>
              /\ c.holder # d.holder
              /\ c.holder \in d.after \/ d.holder \in c.after
      BY <2>1, <2>2, <2>3 DEF ClaimsOrdered
    <2>6. \A c, d \in claims' : c.udid = d.udid /\ c.holder \in d.after =>
              c.after \subseteq d.after
      BY <1>2, <2>1, <2>2, <2>3 DEF ClaimsOrdered
    <2> QED
      BY <2>1, <2>4, <2>5, <2>6 DEF ClaimsOrdered
  <1> QED
    BY <1>1, <1>2

-----------------------------------------------------------------------------
(* The clocks.                                                             *)
LEMMA KeysTyped ==
    ASSUME claims \subseteq Claims, lanes \in [Devices -> Lanes \cup {None}]
    PROVE  Named \subseteq ClockKeys
  BY HoldersAssumption
     DEF Named, ClockKeys, ClockKey, Claims, Lanes, Agents

LEMMA ClocksRun ==
    ASSUME TypeOK, ClocksSound, NEW found, NEW blind, now' = now,
           RunHolderClocks(found, blind)
    PROVE  /\ since' \in [ClockKeys -> Nat \cup {None}]
           /\ paused' \in [ClockKeys -> Nat \cup {None}]
           /\ ClocksSound'
           /\ \A k \in ClockKeys :
                 /\ since'[k] # None <=> k \in Gone(found, blind)
                 /\ Elapsed(k)' = IF k \in Missed(found) THEN Elapsed(k) ELSE 0
  <1>1. /\ now \in Nat /\ None \notin Nat
        /\ \A k \in ClockKeys :
              /\ since[k] \in Nat \cup {None}
              /\ paused[k] \in Nat \cup {None}
              /\ since[k] # None => since[k] \in Nat /\ since[k] <= now /\ paused[k] = None
              /\ paused[k] # None => paused[k] \in Nat /\ paused[k] <= now
    BY HoldersAssumption DEF TypeOK, ClocksSound
  <1>2. \A k : ~(k \in Gone(found, blind) /\ k \in Unknown(found, blind))
    BY DEF Gone, Unknown
  <1>3. \A k : k \in Missed(found) <=>
               k \in Gone(found, blind) \/ k \in Unknown(found, blind)
    BY DEF Gone, Unknown
  <1>4. ASSUME NEW k \in ClockKeys
        PROVE  /\ since'[k] \in Nat \cup {None}
               /\ paused'[k] \in Nat \cup {None}
               /\ since'[k] # None => since'[k] <= now /\ paused'[k] = None
               /\ paused'[k] # None => paused'[k] <= now
               /\ since'[k] # None <=> k \in Gone(found, blind)
               /\ Elapsed(k)' = IF k \in Missed(found) THEN Elapsed(k) ELSE 0
    <2>1. /\ since'[k] = IF k \notin Gone(found, blind) THEN None
                         ELSE IF paused[k] # None THEN now - paused[k]
                         ELSE IF since[k] # None THEN since[k] ELSE now
          /\ paused'[k] = IF k \notin Unknown(found, blind) THEN None
                          ELSE IF since[k] # None THEN now - since[k]
                          ELSE paused[k]
      BY DEF RunHolderClocks
    <2>2. Elapsed(k)' = IF since'[k] # None THEN now - since'[k]
                        ELSE IF paused'[k] # None THEN paused'[k] ELSE 0
      BY DEF Elapsed
    <2>3. CASE k \in Gone(found, blind)
      BY <1>1, <1>2, <1>3, <2>1, <2>2, <2>3 DEF Elapsed
    <2>4. CASE k \in Unknown(found, blind)
      BY <1>1, <1>2, <1>3, <2>1, <2>2, <2>4 DEF Elapsed
    <2>5. CASE k \notin Missed(found)
      BY <1>1, <1>3, <2>1, <2>2, <2>5
    <2> QED
      BY <1>3, <2>3, <2>4, <2>5
  <1>5. since' \in [ClockKeys -> Nat \cup {None}] /\ paused' \in [ClockKeys -> Nat \cup {None}]
    BY <1>4 DEF RunHolderClocks
  <1>6. ClocksSound'
    BY <1>4 DEF ClocksSound
  <1> QED
    BY <1>4, <1>5, <1>6

-----------------------------------------------------------------------------
(* The steps, by what they leave alone.                                    *)
LEMMA ClocksStand ==
    ASSUME TypeOK, ClocksSound, UNCHANGED <<since, paused>>,
           now' = now \/ now' = now + 1
    PROVE  ClocksSound'
  BY HoldersAssumption DEF TypeOK, ClocksSound

LEMMA ClaimsStand ==
    ASSUME ClaimsOrdered, UNCHANGED claims
    PROVE  ClaimsOrdered'
  BY DEF ClaimsOrdered, Claimants, ClaimsOn

(* Inductive; that a claimed device has a first claim follows from the     *)
(* order of the claims.                                                    *)
IInv == TypeOK /\ ClocksSound /\ ClaimsOrdered /\ StopsHaveLanes

(* A lane goes, is stored or appears only where no lane down waits for it: *)
(* those that wait for one that goes end with it.                          *)
LEMMA StopsStand ==
    ASSUME StopsHaveLanes, stopping' \subseteq stopping,
           \A s \in stopping' : lanes'[s[2]] = lanes[s[2]]
    PROVE  StopsHaveLanes'
  BY DEF StopsHaveLanes

LEMMA LaneGoes ==
    ASSUME TypeOK, StopsHaveLanes, NEW u \in Devices, RemoveLane(u)
    PROVE  StopsHaveLanes'
  <1>1. \A s \in stopping' : s \in stopping /\ s[2] # u
    BY DEF RemoveLane
  <1>2. \A s \in stopping' : lanes'[s[2]] = lanes[s[2]]
    BY <1>1 DEF RemoveLane, SetLane, TypeOK
  <1> QED
    BY <1>1, <1>2, StopsStand

LEMMA StartMoves ==
    ASSUME TypeOK, StopsHaveLanes, NEW u \in Devices, NEW lane, SetLane(u, lane),
           lanes[u] = None \/ lanes[u].starting, UNCHANGED stopping
    PROVE  StopsHaveLanes'
  <1>1. \A s \in stopping : s[2] # u
    BY DEF StopsHaveLanes
  <1>2. \A s \in stopping' : lanes'[s[2]] = lanes[s[2]]
    BY <1>1 DEF SetLane, TypeOK
  <1> QED
    BY <1>2, StopsStand

LEMMA NextKeepsStops ==
    ASSUME TypeOK, StopsHaveLanes, [Next]_vars
    PROVE  StopsHaveLanes'
  <1>1. CASE UNCHANGED <<lanes, stopping>>
    BY <1>1, StopsStand
  <1>2. ASSUME NEW h, NEW u \in Devices, StopLane(h, u)
        PROVE  StopsHaveLanes'
    <2>1. \A s \in stopping' : lanes[s[2]] # None /\ ~lanes[s[2]].starting
      BY <1>2 DEF StopLane, StopsHaveLanes
    <2> QED
      BY <1>2, <2>1 DEF StopLane, StopsHaveLanes
  <1>3. ASSUME NEW h, NEW u \in Devices, KeepLane(h, u)
        PROVE  StopsHaveLanes'
    BY <1>3, StopsStand DEF KeepLane
  <1>4. ASSUME NEW h, NEW u \in Devices, EndStop(h, u)
        PROVE  StopsHaveLanes'
    BY <1>4, LaneGoes DEF EndStop
  <1>5. ASSUME NEW u \in Devices, ReleaseAbandoned(u)
        PROVE  StopsHaveLanes'
    BY <1>5, LaneGoes DEF ReleaseAbandoned
  <1>6. ASSUME NEW h, NEW u \in Devices, NEW dir, ReserveDevice(h, u, dir)
        PROVE  StopsHaveLanes'
    BY <1>6, StartMoves DEF ReserveDevice
  <1>7. ASSUME NEW u \in Devices, StoreLane(u) \/ StartFails(u)
        PROVE  StopsHaveLanes'
    BY <1>7, StartMoves DEF StoreLane, StartFails
  <1>8. CASE Restart
    BY <1>8 DEF Restart, StopsHaveLanes
  <1>9. CASE UNCHANGED vars
    BY <1>1, <1>9 DEF vars
  <1>10. CASE Environment
    BY <1>1, <1>10 DEF Environment, Tick, SessionStarts, SessionEnds
  <1>11. CASE Desktop
    BY <1>1, <1>5, <1>7, <1>11
       DEF Desktop, BeginRefresh, RefreshFails, RefreshEnds, BeginReconcile,
           KeepAbandoned
  <1>12. ASSUME NEW h \in Agents, AgentStep(h)
         PROVE  StopsHaveLanes'
    BY <1>1, <1>2, <1>3, <1>4, <1>6, <1>7, <1>12
       DEF AgentStep, ClaimDevice, AddClaim, ReleaseClaim
  <1>13. ASSUME NEW h \in Holders, NEW u \in Devices, ClaimFor(h, u)
         PROVE  StopsHaveLanes'
    BY <1>1, <1>13 DEF ClaimFor, AddClaim
  <1> QED
    BY <1>8, <1>9, <1>10, <1>11, <1>12, <1>13 DEF Next

LEMMA NextKeepsIInv ==
    ASSUME IInv, [Next]_vars
    PROVE  IInv'
  <1> USE DEF IInv
  <1>s. StopsHaveLanes'
    BY NextKeepsStops
  <1>a. claims \subseteq Claims /\ lanes \in [Devices -> Lanes \cup {None}]
    BY DEF TypeOK
  <1>1. CASE Tick
    BY <1>s, <1>1, ClocksStand, ClaimsStand, HoldersAssumption DEF Tick, TypeOK
  <1>2. ASSUME NEW h \in Holders, SessionStarts(h) \/ SessionEnds(h)
        PROVE  TypeOK' /\ ClocksSound' /\ ClaimsOrdered'
    BY <1>2, ClocksStand, ClaimsStand DEF SessionStarts, SessionEnds, TypeOK
  <1>3. CASE BeginRefresh
    <2>1. refresh' \in Discoveries
      <3>1. Registries \subseteq Kinds
        BY HoldersAssumption DEF Registries, Discoverable
      <3>2. \A outage \in SUBSET Registries :
                Discovery(TRUE, {s \in alive : Kind[s] \notin outage},
                          outage \cup {"other"}) \in Discoveries
        BY <3>1 DEF Discovery, Discoveries, TypeOK, Kinds
      <3>3. Discovery(FALSE, {}, Kinds) \in Discoveries
        BY DEF Discovery, Discoveries
      <3> QED
        BY <1>3, <3>2, <3>3 DEF BeginRefresh
    <2> QED
      BY <1>s, <1>3, <2>1, ClocksStand, ClaimsStand DEF BeginRefresh, TypeOK
  <1>4. CASE RefreshFails
    <2>1. /\ since' \in [ClockKeys -> Nat \cup {None}]
          /\ paused' \in [ClockKeys -> Nat \cup {None}]
          /\ ClocksSound'
      BY <1>4, ClocksRun DEF RefreshFails
    <2> QED
      BY <1>s, <1>4, <2>1, ClaimsStand DEF RefreshFails, TypeOK
  <1>5. CASE RefreshEnds
    <2>1. /\ since' \in [ClockKeys -> Nat \cup {None}]
          /\ paused' \in [ClockKeys -> Nat \cup {None}]
          /\ ClocksSound'
      BY <1>5, ClocksRun DEF RefreshEnds
    <2>2. claims' \subseteq Claims /\ ClaimsOrdered'
      <3> DEFINE gone == {c \in claims : Expired(c)}
      <3>1. gone \in SUBSET claims /\ claims' = Without(gone)
        BY <1>5 DEF RefreshEnds
      <3> HIDE DEF gone
      <3> QED
        BY <1>a, <3>1, WithoutOrdered
    <2>3. sessions' \subseteq Discoverable
      BY <1>5 DEF RefreshEnds, TypeOK, Discoveries
    <2> QED
      BY <1>s, <1>5, <2>1, <2>2, <2>3 DEF RefreshEnds, TypeOK
  <1>6. CASE BeginReconcile
    BY <1>s, <1>6, ClocksStand, ClaimsStand DEF BeginReconcile, TypeOK
  <1>7. ASSUME NEW u \in Devices,
               StartFails(u) \/ ReleaseAbandoned(u) \/ KeepAbandoned(u)
        PROVE  TypeOK' /\ ClocksSound' /\ ClaimsOrdered'
    <2>1. lanes' \in [Devices -> Lanes \cup {None}]
      BY <1>a, <1>7 DEF StartFails, ReleaseAbandoned, KeepAbandoned, RemoveLane,
                        SetLane
    <2> QED
      BY <1>7, <2>1, ClocksStand, ClaimsStand
         DEF StartFails, ReleaseAbandoned, KeepAbandoned, RemoveLane, SetLane,
             TypeOK
  <1>8. CASE Restart
    <2>1. lanes' \in [Devices -> Lanes \cup {None}]
      BY <1>a, <1>8 DEF Restart
    <2>2. /\ since' = [k \in ClockKeys |-> None]
          /\ paused' = [k \in ClockKeys |-> None]
      BY <1>8 DEF Restart
    <2>3. ClocksSound'
      BY <2>2 DEF ClocksSound
    <2> QED
      BY <1>s, <1>8, <2>1, <2>2, <2>3, ClaimsStand DEF Restart, TypeOK
  <1>9. ASSUME NEW h \in Holders, NEW u \in Devices, AddClaim(h, u)
        PROVE  TypeOK' /\ ClocksSound' /\ ClaimsOrdered'
    <2>1. claims' \subseteq Claims /\ ClaimsOrdered'
      BY <1>a, <1>9, AddClaimOrdered
    <2>2. UNCHANGED <<now, alive, refresh, sessions, since, paused, lanes, doomed,
                   stopping>>
      BY <1>9 DEF AddClaim
    <2> QED
      BY <2>1, <2>2, ClocksStand DEF TypeOK
  <1>10. ASSUME NEW h \in Agents, NEW u \in Devices, ReleaseClaim(h, u)
         PROVE  TypeOK' /\ ClocksSound' /\ ClaimsOrdered'
    <2> DEFINE gone == {c \in ClaimsOn(u) : h \in {Operator, c.holder}}
    <2>1. gone \in SUBSET claims /\ claims' = Without(gone)
      BY <1>10 DEF ReleaseClaim, ClaimsOn
    <2> HIDE DEF gone
    <2>2. claims' \subseteq Claims /\ ClaimsOrdered'
      BY <1>a, <2>1, WithoutOrdered
    <2>3. UNCHANGED <<now, alive, refresh, sessions, since, paused, lanes, doomed,
                   stopping>>
      BY <1>10 DEF ReleaseClaim
    <2> QED
      BY <2>2, <2>3, ClocksStand DEF TypeOK
  <1>11. ASSUME NEW h \in Agents, NEW u \in Devices,
                \/ \E dir \in Dirs : ReserveDevice(h, u, dir)
                \/ StopLane(h, u) \/ EndStop(h, u) \/ KeepLane(h, u)
                \/ StoreLane(u)
         PROVE  TypeOK' /\ ClocksSound' /\ ClaimsOrdered'
    <2>1. lanes' \in [Devices -> Lanes \cup {None}]
      <3>1. \A dir \in Dirs, s \in BOOLEAN : Lane(h, dir, s) \in Lanes
        BY DEF Lane, Lanes
      <3>2. lanes[u] # None => Lane(lanes[u].agent, lanes[u].dir, FALSE) \in Lanes
        BY <1>a DEF Lane, Lanes
      <3> QED
        BY <1>a, <1>11, <3>1, <3>2
           DEF ReserveDevice, StopLane, EndStop, KeepLane, StoreLane, RemoveLane,
               SetLane
    <2>2. /\ UNCHANGED <<now, alive, refresh, sessions, since, paused, claims>>
          /\ doomed' \subseteq doomed
          /\ stopping' \subseteq stopping \cup {<<h, u>>}
      BY <1>11 DEF ReserveDevice, StopLane, EndStop, KeepLane, StoreLane,
                   RemoveLane, SetLane
    <2> QED
      BY <2>1, <2>2, ClocksStand, ClaimsStand DEF TypeOK
  <1>12. CASE UNCHANGED vars
    BY <1>s, <1>12, ClocksStand, ClaimsStand DEF vars, TypeOK
  <1> QED
    BY <1>s, <1>1, <1>2, <1>3, <1>4, <1>5, <1>6, <1>7, <1>8, <1>9, <1>10, <1>11, <1>12
       DEF Next, Environment, Desktop, AgentStep, ClaimDevice, ClaimFor

LEMMA InitHasIInv ==
    ASSUME Init
    PROVE  IInv
  <1>1. TypeOK /\ ClocksSound
    BY HoldersAssumption DEF Init, TypeOK, ClocksSound
  <1>2. claims = {}
    BY DEF Init
  <1> QED
    BY <1>1, <1>2 DEF Init, IInv, ClaimsOrdered, StopsHaveLanes

LEMMA IInvHasFirst ==
    ASSUME IInv
    PROVE  Inv
  BY OrderedHaveFirst DEF IInv, Inv, TypeOK

LEMMA Inductive == Spec => []IInv
  <1> QED
    BY InitHasIInv, NextKeepsIInv, PTL DEF Spec

(* The agent service's clocks and claims stay well formed: a clock never   *)
(* runs and pauses at once nor reads more than the time there has been,    *)
(* and the claims of every device resolve to one hold.                     *)
THEOREM WellFormed == Spec => []Inv
  <1> QED
    BY Inductive, IInvHasFirst, PTL

-----------------------------------------------------------------------------
(* Every step of the agent service is one of its clocks' stopwatches.      *)
LEMMA ClocksUnmoved ==
    ASSUME UNCHANGED <<now, since, paused>>
    PROVE  UNCHANGED SW!vars
  BY DEF SW!vars, Elapsed

LEMMA StepIsStopwatch ==
    ASSUME IInv, [Next]_vars
    PROVE  [SW!Next]_SW!vars
  <1> DEFINE running == {k \in ClockKeys : since[k] # None}
             elapsed == [k \in ClockKeys |-> Elapsed(k)]
  <1> USE DEF IInv
  <1>1. CASE Tick
    <2>1. \A k \in ClockKeys :
              Elapsed(k)' = IF since[k] # None THEN Elapsed(k) + 1 ELSE Elapsed(k)
      BY <1>1, HoldersAssumption DEF Tick, Elapsed, TypeOK, ClocksSound
    <2>2. running' = running
      BY <1>1 DEF Tick
    <2>3. elapsed' = [k \in ClockKeys |-> IF k \in running THEN elapsed[k] + 1
                                                           ELSE elapsed[k]]
      BY <2>1
    <2> QED
      BY <2>2, <2>3 DEF SW!Next, SW!Pass
  <1>2. ASSUME NEW found, NEW blind, now' = now, RunHolderClocks(found, blind)
        PROVE  SW!Next
    <2> DEFINE gone == Gone(found, blind)
               unknown == Unknown(found, blind)
    <2>1. gone \in SUBSET ClockKeys /\ unknown \in SUBSET ClockKeys /\ gone \cap unknown = {}
      BY KeysTyped DEF Gone, Unknown, Missed, TypeOK
    <2>2. \A k \in ClockKeys :
              /\ since'[k] # None <=> k \in gone
              /\ Elapsed(k)' = IF k \in gone \cup unknown THEN Elapsed(k) ELSE 0
      BY <1>2, ClocksRun DEF Gone, Unknown
    <2> HIDE DEF gone, unknown
    <2>3. running' = gone
      BY <2>1, <2>2
    <2>4. elapsed' = [k \in ClockKeys |-> IF k \in gone \cup unknown
                                          THEN elapsed[k] ELSE 0]
      BY <2>2
    <2> QED
      BY <2>1, <2>3, <2>4 DEF SW!Next, SW!Observe
  <1>3. CASE RefreshFails
    BY <1>2, <1>3 DEF RefreshFails
  <1>4. CASE RefreshEnds
    BY <1>2, <1>4 DEF RefreshEnds
  <1>5. CASE Restart
    <2>1. \A k \in ClockKeys : since'[k] = None /\ paused'[k] = None
      BY <1>5 DEF Restart
    <2>2. running' = {} /\ elapsed' = [k \in ClockKeys |-> 0]
      BY <2>1 DEF Elapsed
    <2> QED
      BY <2>2 DEF SW!Next, SW!Forget, SW!Init
  <1>6. ASSUME UNCHANGED <<now, since, paused>>
        PROVE  [SW!Next]_SW!vars
    BY <1>6, ClocksUnmoved
  <1>7. ASSUME NEW h \in Agents, AgentStep(h)
        PROVE  UNCHANGED <<now, since, paused>>
    BY <1>7 DEF AgentStep, ClaimDevice, AddClaim, ReleaseClaim, ReserveDevice,
                StopLane, EndStop, KeepLane, StoreLane, RemoveLane, SetLane
  <1>8. CASE UNCHANGED vars
    BY <1>6, <1>8 DEF vars
  <1>9. CASE BeginRefresh \/ BeginReconcile
    BY <1>6, <1>9 DEF BeginRefresh, BeginReconcile
  <1>10. ASSUME NEW u \in Devices,
                StartFails(u) \/ ReleaseAbandoned(u) \/ KeepAbandoned(u)
         PROVE  UNCHANGED <<now, since, paused>>
    BY <1>10 DEF StartFails, ReleaseAbandoned, KeepAbandoned, RemoveLane, SetLane
  <1>11. ASSUME NEW h \in Holders, SessionStarts(h) \/ SessionEnds(h)
         PROVE  UNCHANGED <<now, since, paused>>
    BY <1>11 DEF SessionStarts, SessionEnds
  <1>12. ASSUME NEW h \in Holders, NEW u \in Devices, ClaimFor(h, u)
         PROVE  UNCHANGED <<now, since, paused>>
    BY <1>12 DEF ClaimFor, AddClaim
  <1> QED
    BY <1>1, <1>3, <1>4, <1>5, <1>6, <1>7, <1>8, <1>9, <1>10, <1>11, <1>12
       DEF Next, Environment, Desktop

(* The clocks implement stopwatches: through outages of the discovery and  *)
(* restarts, a holder's grace period is counted exactly from the moment it *)
(* was first seen missing, less the time it could not be seen.             *)
THEOREM ImplementsStopwatches == Spec => ClocksAreStopwatches
  <1>1. ASSUME Init PROVE SW!Init
    <2>1. \A k \in ClockKeys : since[k] = None /\ paused[k] = None
      BY <1>1 DEF Init
    <2> QED
      BY <2>1 DEF SW!Init, Elapsed
  <1> QED
    BY <1>1, Inductive, StepIsStopwatch, PTL DEF Spec, ClocksAreStopwatches, SW!Spec

-----------------------------------------------------------------------------
(* The hold on a device depends on its lane and its first claim only.      *)
LEMMA SameHold ==
    ASSUME NEW u, lanes'[u] = lanes[u], FirstClaims(u)' = FirstClaims(u)
    PROVE  HoldOf(u)' = HoldOf(u)
  BY DEF HoldOf, HoldByLane, HoldByClaim, Free

(* Claims made or dropped on other devices are no matter.                  *)
LEMMA OtherDevice ==
    ASSUME claims \subseteq Claims, NEW v, NEW u, u # v, NEW gone \in SUBSET ClaimsOn(v),
           claims' = Without(gone) \/ \E h, after : claims' = claims \cup {Claim(h, v, after)}
    PROVE  FirstClaims(u)' = FirstClaims(u)
  <1>1. CASE claims' = Without(gone)
    <2>1. \A c \in ClaimsOn(u) :
              /\ c \in claims \ gone
              /\ {h \in c.after : \A g \in gone :
                     ~(g.udid = c.udid /\ g.holder = h)} = c.after
              /\ Claim(c.holder, c.udid, c.after) = c
      BY DEF ClaimsOn, Claims, Claim
    <2>2. gone \in SUBSET claims
      BY DEF ClaimsOn
    <2>3. ClaimsOn(u)' = ClaimsOn(u)
      <3>1. ASSUME NEW c \in ClaimsOn(u) PROVE c \in claims'
        <4>1. c \in claims \ gone /\ \A g \in gone : g.udid # c.udid
          BY DEF ClaimsOn
        <4> QED
          BY <1>1, <2>2, <4>1, WithoutLeaves
      <3>2. ASSUME NEW d \in claims', d.udid = u PROVE d \in ClaimsOn(u)
        <4>1. PICK c \in claims \ gone :
                  /\ d.holder = c.holder
                  /\ d.udid = c.udid
                  /\ d.after = {h \in c.after : \A g \in gone :
                                  ~(g.udid = c.udid /\ g.holder = h)}
          BY <1>1, <2>2, <3>2, WithoutKeeps
        <4>2. d \in Claims /\ c \in ClaimsOn(u)
          BY <1>1, <2>2, <3>2, <4>1, WithoutKeeps DEF ClaimsOn
        <4>3. d.after = c.after
          BY <2>1, <4>1, <4>2
        <4>4. c \in Claims
          BY <4>1
        <4>5. d = c
          BY <4>1, <4>2, <4>3, <4>4, SameClaim
        <4> QED
          BY <4>2, <4>5
      <3> QED
        BY <3>1, <3>2 DEF ClaimsOn
    <2> QED
      BY <2>3 DEF FirstClaims
  <1>2. ASSUME NEW h, NEW after, claims' = claims \cup {Claim(h, v, after)}
        PROVE  FirstClaims(u)' = FirstClaims(u)
    BY <1>2 DEF FirstClaims, ClaimsOn, Claim
  <1> QED
    BY <1>1, <1>2

(* An agent that drops its claim on a device another claimed before it     *)
(* leaves the first claim where it is.                                     *)
LEMMA FirstStays ==
    ASSUME claims \subseteq Claims, ClaimsOrdered, NEW u, NEW h,
           \E c \in FirstClaims(u) : c.holder # h,
           claims' = Without({c \in ClaimsOn(u) : c.holder = h})
    PROVE  FirstClaims(u)' = FirstClaims(u)
  <1> DEFINE gone == {c \in ClaimsOn(u) : c.holder = h}
  <1>1. PICK f \in FirstClaims(u) : f.holder # h
    OBVIOUS
  <1>2. /\ f \in claims /\ f.udid = u /\ f.after = {}
        /\ gone \in SUBSET claims /\ f \in claims \ gone
        /\ \A g \in gone : g.udid = u /\ g.holder = h
    BY <1>1 DEF FirstClaims, ClaimsOn
  <1>3. FirstClaims(u) = {f}
    BY <1>2 DEF ClaimsOrdered, FirstClaims, ClaimsOn
  <1> HIDE DEF gone
  <1>4. f \in claims'
    <2>1. f \in Without(gone)
      BY <1>2, WithoutLeaves
    <2> QED
      BY <2>1 DEF gone
  <1>5. ASSUME NEW d \in claims', d.udid = u, d.after = {}
        PROVE  d = f
    <2>1. PICK c \in claims \ gone :
              /\ d.holder = c.holder
              /\ d.udid = c.udid
              /\ d.after = {k \in c.after : \A g \in gone :
                              ~(g.udid = c.udid /\ g.holder = k)}
      BY <1>2, WithoutKeeps DEF gone
    <2>2. c = f
      <3> SUFFICES ASSUME c # f PROVE FALSE
        OBVIOUS
      <3>1. f.holder \in c.after
        BY <1>2, <1>5, <2>1 DEF ClaimsOrdered
      <3>2. f.holder \in d.after
        BY <1>1, <1>2, <2>1, <3>1
      <3> QED
        BY <1>5, <3>2
    <2>3. d \in Claims
      BY <1>2, WithoutKeeps DEF gone
    <2> QED
      BY <1>2, <1>5, <2>1, <2>2, <2>3 DEF Claims
  <1> QED
    BY <1>2, <1>3, <1>4, <1>5 DEF FirstClaims, ClaimsOn

(* No step of an agent changes the hold on a device it may not touch, but  *)
(* for the end of a lane down that was let in before.                      *)
LEMMA AgentsTakeNothing ==
    ASSUME Inv, NEW h \in Holders, AgentStep(h), NEW u \in Devices, ~Access(u, h)
    PROVE  \/ HoldOf(u)' = HoldOf(u)
           \/ EndStop(h, u) /\ HoldOf(u).via = "lane"
  <1> USE DEF Inv
  <1>a. claims \subseteq Claims /\ lanes \in [Devices -> Lanes \cup {None}] /\ h # Operator
    BY HoldersAssumption DEF TypeOK
  <1>b. HoldOf(u).holder # h /\ HoldOf(u).holder # None
    BY DEF Access
  <1> PICK v \in Devices :
        \/ ClaimDevice(h, v)
        \/ ReleaseClaim(h, v)
        \/ \E dir \in Dirs : ReserveDevice(h, v, dir)
        \/ StopLane(h, v) \/ EndStop(h, v) \/ KeepLane(h, v)
        \/ lanes[v] # None /\ lanes[v].agent = h /\ StoreLane(v)
    BY DEF AgentStep
  <1>1. CASE ClaimDevice(h, v)
    <2>1. v # u /\ UNCHANGED lanes
      BY <1>1 DEF ClaimDevice, AddClaim
    <2>2. claims' = claims \/ \E after : claims' = claims \cup {Claim(h, v, after)}
      BY <1>1 DEF ClaimDevice, AddClaim
    <2>3. FirstClaims(u)' = FirstClaims(u)
      <3>1. CASE claims' = claims
        BY <3>1 DEF FirstClaims, ClaimsOn
      <3>2. CASE \E after : claims' = claims \cup {Claim(h, v, after)}
        <4>1. {} \in SUBSET ClaimsOn(v)
          OBVIOUS
        <4> QED
          BY <1>a, <2>1, <3>2, <4>1, OtherDevice
      <3> QED
        BY <2>2, <3>1, <3>2
    <2> QED
      BY <2>1, <2>3, SameHold
  <1>2. CASE ReleaseClaim(h, v)
    <2> DEFINE gone == {c \in ClaimsOn(v) : c.holder = h}
    <2>1. {c \in ClaimsOn(v) : h \in {Operator, c.holder}} = gone
      BY <1>a
    <2>2. claims' = Without(gone) /\ gone # {} /\ UNCHANGED lanes
      BY <1>2, <2>1 DEF ReleaseClaim
    <2>3. gone \in SUBSET ClaimsOn(v)
      OBVIOUS
    <2>4. CASE v # u
      <3> HIDE DEF gone
      <3>1. FirstClaims(u)' = FirstClaims(u)
        BY <1>a, <2>2, <2>3, <2>4, OtherDevice
      <3> QED
        BY <2>2, <3>1, SameHold
    <2>5. CASE v = u
      <3>1. CASE lanes[u] # None /\ ~lanes[u].starting
        BY <2>2, <3>1 DEF HoldOf, HoldByLane
      <3>2. CASE ~(lanes[u] # None /\ ~lanes[u].starting)
        <4>1. FirstClaims(u) # {}
          BY <2>2, <2>5 DEF FirstClaimExists, ClaimsOn
        <4>2. HoldOf(u).holder = (CHOOSE c \in FirstClaims(u) : TRUE).holder
          BY <3>2, <4>1 DEF HoldOf, HoldByClaim
        <4>3. \E c \in FirstClaims(u) : c.holder # h
          BY <1>b, <4>1, <4>2
        <4>4. FirstClaims(u)' = FirstClaims(u)
          BY <1>a, <2>2, <2>5, <4>3, FirstStays
        <4> QED
          BY <2>2, <4>4, SameHold
      <3> QED
        BY <3>1, <3>2
    <2> QED
      BY <2>4, <2>5
  <1>3. CASE \/ \E dir \in Dirs : ReserveDevice(h, v, dir)
             \/ EndStop(h, v) /\ v # u
             \/ StopLane(h, v) \/ KeepLane(h, v)
    <2>1. UNCHANGED claims /\ lanes'[u] = lanes[u]
      BY <1>a, <1>3 DEF ReserveDevice, StopLane, EndStop, KeepLane, RemoveLane,
                        SetLane
    <2> QED
      BY <2>1, SameHold DEF FirstClaims, ClaimsOn
  <1>4. CASE lanes[v] # None /\ lanes[v].agent = h /\ StoreLane(v)
    <2>1. v # u /\ UNCHANGED claims /\ lanes'[u] = lanes[u]
      BY <1>a, <1>4 DEF StoreLane, SetLane
    <2> QED
      BY <2>1, SameHold DEF FirstClaims, ClaimsOn
  <1>5. CASE EndStop(h, v) /\ v = u
    <2>1. lanes[u] # None /\ ~lanes[u].starting
      BY <1>5 DEF Inv, StopsHaveLanes, EndStop
    <2> QED
      BY <1>5, <2>1 DEF HoldOf, HoldByLane
  <1> QED
    BY <1>1, <1>2, <1>3, <1>4, <1>5

(* device-hold.ts: only the holder of a device may claim it or run a lane  *)
(* on it.  Whatever an agent does, the devices it is kept from keep their  *)
(* holders, but for a lane that a lane down was let in to stop before its  *)
(* owner came back.                                                        *)
THEOREM AgentsCannotTake == Spec => HoldsAreNotTaken
  <1>1. ASSUME Inv
        PROVE  \A u \in Devices, h \in Holders :
                  HoldOf(u)' # HoldOf(u) /\ AgentStep(h) =>
                     \/ Access(u, h)
                     \/ EndStop(h, u) /\ HoldOf(u).via = "lane"
    BY <1>1, AgentsTakeNothing
  <1> QED
    BY <1>1, WellFormed, PTL DEF HoldsAreNotTaken
=============================================================================
