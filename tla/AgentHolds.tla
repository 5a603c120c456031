----------------------------- MODULE AgentHolds -----------------------------
(***************************************************************************)
(* Who may touch a Simulator: shared/device-hold.ts resolves the hold on   *)
(* every device from lanes, agent claims and the abandonment clocks that   *)
(* main/agent-service.ts runs at each refresh of the live agent sessions.  *)
(*                                                                         *)
(* Lanes are those of main/lane-service.ts reduced to what a hold needs:   *)
(* their device, their checkout, their owner, and whether they are stored  *)
(* or only starting.  A device has one lane at most (proved of the lane    *)
(* service in LaneService_proofs).                                         *)
(***************************************************************************)
EXTENDS Naturals, FiniteSets

CONSTANTS
    Holders,      \* agent identities: sessions, and shared MCP identities
    Synthetic,    \* those of them that are shared MCP identities (mcp-*)
    Kind,         \* the agent kind of each: "claude", "codex" or "other"
    Cwd,          \* the checkout each session works in, None outside of all
    Dirs,         \* the checkouts lanes run in
    Devices,
    Operator,     \* the person at the desktop, who is no agent
    None,
    Grace,        \* DEVICE_HOLD_GRACE_MS, in units of time
    MaxTime,      \* bound: the last moment of a behaviour
    MaxClaims     \* MAX_CLAIMS

Kinds == {"claude", "codex", "other"}

ASSUME HoldersAssumption ==
    /\ IsFiniteSet(Holders)
    /\ Synthetic \subseteq Holders
    /\ Kind \in [Holders -> Kinds]
    /\ Cwd \in [Holders -> Dirs \cup {None}]
    /\ Operator \notin Holders
    /\ None \notin Holders \cup Dirs \cup {Operator} \cup Nat
    /\ Grace \in Nat \ {0}
    /\ MaxTime \in Nat
    /\ MaxClaims \in Nat

VARIABLES
    now,        \* the clock of the Mac
    alive,      \* the sessions whose agents run and can be discovered
    refresh,    \* the discovery under way, None between refreshes
    sessions,   \* #sessions: those the last discovery found
    since,      \* #missingSince: when each missing holder was first missed
    paused,     \* #pausedClocks: how long each paused clock had run
    claims,     \* the claim store
    lanes,      \* holdingLanes(): the lane of each device
    doomed,     \* devices whose lanes a reconcile under way is to release
    stopping    \* lane downs that were let in and wait for the Metro

vars == <<now, alive, refresh, sessions, since, paused, claims, lanes,
          doomed, stopping>>

-----------------------------------------------------------------------------
Agents == Holders \cup {Operator}

(* discoverAgentSessions finds Claude and Codex sessions; nothing finds    *)
(* others, and a shared MCP identity is no session of its own.             *)
Discoverable == {h \in Holders \ Synthetic : Kind[h] # "other"}
Registries == {Kind[h] : h \in Discoverable}

ClockKeys == Holders \X (Dirs \cup {None})

(* holderClockKey *)
ClockKey(h, dir) == <<h, IF h \in Synthetic THEN dir ELSE None>>

(* A claim, with who had claimed its device when it was made: that is all  *)
(* the order of the claim list is ever asked for.                          *)
Claim(h, u, after) == [holder |-> h, udid |-> u, after |-> after]
Claims == [holder : Holders, udid : Devices, after : SUBSET Holders]
ClaimsOn(u) == {c \in claims : c.udid = u}
Claimants(u) == {c.holder : c \in ClaimsOn(u)}

(* The claims but those in gone: a filter of the list. *)
Without(gone) ==
    {Claim(c.holder, c.udid, {h \in c.after : \A g \in gone :
                                  ~(g.udid = c.udid /\ g.holder = h)}) :
        c \in claims \ gone}

Lane(h, dir, starting) == [agent |-> h, dir |-> dir, starting |-> starting]
Lanes == [agent : Agents, dir : Dirs, starting : BOOLEAN]

(* resolveHolderLiveness: the operator is always live, a session while it  *)
(* is discovered, a shared identity on a directory while a session of its  *)
(* kind works inside.                                                      *)
LiveAmong(h, dir, found) ==
    \/ h = Operator
    \/ h \in found
    \/ /\ h \in Synthetic
       /\ dir # None
       /\ \E s \in found : Kind[s] = Kind[h] /\ Cwd[s] = dir

Live(h, dir) == LiveAmong(h, dir, sessions)

(* #livenessInputs: a paused clock reads as it did when it paused, and a   *)
(* holder without a clock is missing only from now on.                     *)
Elapsed(k) == IF since[k] # None THEN now - since[k]
              ELSE IF paused[k] # None THEN paused[k] ELSE 0

Abandoned(h, dir) ==
    h \in Holders /\ ~Live(h, dir) /\ Elapsed(ClockKey(h, dir)) >= Grace

-----------------------------------------------------------------------------
(* resolveDeviceHolds: a stored lane, else the first claim, else a start.  *)
Free == [via |-> "free", holder |-> None, dir |-> None]
HoldByLane(u) ==
    [via |-> "lane", holder |-> lanes[u].agent, dir |-> lanes[u].dir]
HoldByClaim(h) == [via |-> "claim", holder |-> h, dir |-> None]

FirstClaims(u) == {c \in ClaimsOn(u) : c.after = {}}

HoldOf(u) ==
    IF lanes[u] # None /\ ~lanes[u].starting THEN HoldByLane(u)
    ELSE IF FirstClaims(u) # {}
         THEN HoldByClaim((CHOOSE c \in FirstClaims(u) : TRUE).holder)
    ELSE IF lanes[u] # None THEN HoldByLane(u)
    ELSE Free

(* decideDeviceAccess *)
SharesCheckout(hold, h) ==
    /\ hold.holder \in Synthetic
    /\ h \in sessions \ Synthetic
    /\ Kind[hold.holder] = Kind[h]
    /\ hold.dir # None
    /\ Cwd[h] = hold.dir

Access(u, h) ==
    \/ h = Operator
    \/ LET hold == HoldOf(u) IN
         \/ hold.holder \in {None, h}
         \/ SharesCheckout(hold, h)
         \/ Abandoned(hold.holder, hold.dir)

-----------------------------------------------------------------------------
Init ==
    /\ now = 0
    /\ alive = {}
    /\ refresh = None
    /\ sessions = {}
    /\ since = [k \in ClockKeys |-> None]
    /\ paused = [k \in ClockKeys |-> None]
    /\ claims = {}
    /\ lanes = [u \in Devices |-> None]
    /\ doomed = {}
    /\ stopping = {}

-----------------------------------------------------------------------------
(* The agents' sessions start and end as they like, and time passes. *)
SessionStarts(h) ==
    /\ h \in Discoverable \ alive
    /\ alive' = alive \cup {h}
    /\ UNCHANGED <<now, refresh, sessions, since, paused, claims,
                   lanes, doomed, stopping>>

SessionEnds(h) ==
    /\ h \in alive
    /\ alive' = alive \ {h}
    /\ UNCHANGED <<now, refresh, sessions, since, paused, claims,
                   lanes, doomed, stopping>>

Tick ==
    /\ now < MaxTime
    /\ now' = now + 1
    /\ UNCHANGED <<alive, refresh, sessions, since, paused, claims,
                   lanes, doomed, stopping>>

(* An agent calls while its session runs; a shared identity, or an agent   *)
(* of a kind that is never discovered, may call at any time.               *)
MayCall(h) == h \in Agents /\ (h \in Discoverable => h \in alive)

-----------------------------------------------------------------------------
(* refresh(): one discovery at a time, awaited.  It fails as a whole, or   *)
(* finds the sessions of the kinds whose registries it can read.           *)
Discovery(ok, found, blind) == [ok |-> ok, found |-> found, unseen |-> blind]
Discoveries ==
    [ok : BOOLEAN, found : SUBSET Discoverable, unseen : SUBSET Kinds]

BeginRefresh ==
    /\ refresh = None
    /\ \/ refresh' = Discovery(FALSE, {}, Kinds)
       \/ \E outage \in SUBSET Registries :
             refresh' = Discovery(TRUE,
                                  {s \in alive : Kind[s] \notin outage},
                                  outage \cup {"other"})
    /\ UNCHANGED <<now, alive, sessions, since, paused, claims, lanes,
                   doomed, stopping>>

(* #namedHolders, as the keys of their clocks *)
Named ==
    {ClockKey(c.holder, None) : c \in claims} \cup
    {ClockKey(lanes[u].agent, lanes[u].dir) :
        u \in {v \in Devices : lanes[v] # None /\ lanes[v].agent # Operator}}

(* #runHolderClocks over the sessions found and the kinds not seen *)
Missed(found) == {k \in Named : ~LiveAmong(k[1], k[2], found)}
Gone(found, blind) == {k \in Missed(found) : Kind[k[1]] \notin blind}
Unknown(found, blind) == {k \in Missed(found) : Kind[k[1]] \in blind}

RunHolderClocks_StartsOver(found, blind) ==
    /\ since' = [k \in ClockKeys |->
                    IF k \notin Gone(found, blind) THEN None
                    ELSE IF since[k] # None THEN since[k] ELSE now]
    /\ paused' = [k \in ClockKeys |->
                    IF k \notin Unknown(found, blind) THEN None
                    ELSE IF since[k] # None THEN now - since[k]
                    ELSE paused[k]]

RunHolderClocks(found, blind) ==
    /\ since' = [k \in ClockKeys |->
                    IF k \notin Gone(found, blind) THEN None
                    ELSE IF paused[k] # None THEN now - paused[k]
                    ELSE IF since[k] # None THEN since[k]
                    ELSE now]
    /\ paused' = [k \in ClockKeys |->
                    IF k \notin Unknown(found, blind) THEN None
                    ELSE IF since[k] # None THEN now - since[k]
                    ELSE paused[k]]

(* The discovery failed: nobody is known to be gone. *)
RefreshFails ==
    /\ refresh # None
    /\ ~refresh.ok
    /\ refresh' = None
    /\ RunHolderClocks(sessions, Kinds)
    /\ UNCHANGED <<now, alive, sessions, claims, lanes, doomed, stopping>>

Expired_WithoutClock(c) ==
    /\ ~LiveAmong(c.holder, None, sessions')
    /\ LET k == ClockKey(c.holder, None) IN
         \/ since'[k] = None /\ paused'[k] = None
         \/ since'[k] # None /\ now - since'[k] >= Grace
         \/ paused'[k] # None /\ paused'[k] >= Grace

(* #expireAbandonedClaims, on the clocks as they have just been run *)
Expired(c) ==
    /\ ~LiveAmong(c.holder, None, sessions')
    /\ LET k == ClockKey(c.holder, None) IN
         \/ since'[k] # None /\ now - since'[k] >= Grace
         \/ paused'[k] # None /\ paused'[k] >= Grace

RefreshEnds ==
    /\ refresh # None
    /\ refresh.ok
    /\ refresh' = None
    /\ sessions' = refresh.found
    /\ RunHolderClocks(refresh.found, refresh.unseen)
    /\ claims' = Without({c \in claims : Expired(c)})
    /\ UNCHANGED <<now, alive, lanes, doomed, stopping>>

(* A restart of the desktop: only the claims and the lanes are on disk, a  *)
(* start in flight ends with its process.                                  *)
Restart ==
    /\ refresh' = None
    /\ sessions' = {}
    /\ since' = [k \in ClockKeys |-> None]
    /\ paused' = [k \in ClockKeys |-> None]
    /\ lanes' = [u \in Devices |->
                    IF lanes[u] # None /\ lanes[u].starting THEN None
                                                           ELSE lanes[u]]
    /\ doomed' = {}
    /\ stopping' = {}
    /\ UNCHANGED <<now, alive, claims>>

-----------------------------------------------------------------------------
AddClaim_NotAgain(h, u) ==
    /\ Cardinality(claims) < MaxClaims
    /\ claims' = claims \cup {Claim(h, u, Claimants(u))}
    /\ UNCHANGED <<now, alive, refresh, sessions, since, paused,
                   lanes, doomed, stopping>>

(* runOperation('agent.claim').  The router asks access() for an agent in  *)
(* the same turn; the desktop's panel claims for a session unasked.  A     *)
(* claim made again stands where it stood.                                 *)
AddClaim(h, u) ==
    LET again == h \in Claimants(u) IN
    /\ again \/ Cardinality(claims) < MaxClaims
    /\ claims' = IF again THEN claims
                         ELSE claims \cup {Claim(h, u, Claimants(u))}
    /\ UNCHANGED <<now, alive, refresh, sessions, since, paused,
                   lanes, doomed, stopping>>

ClaimDevice(h, u) ==
    h \in Holders /\ MayCall(h) /\ Access(u, h) /\ AddClaim(h, u)

ClaimFor(h, u) == h \in alive /\ AddClaim(h, u)

(* runOperation('agent.release'): an agent's own claim, or for the         *)
(* operator every claim on the device.                                     *)
ReleaseClaim(h, u) ==
    LET gone == {c \in ClaimsOn(u) : h \in {Operator, c.holder}} IN
    /\ MayCall(h)
    /\ gone # {}
    /\ claims' = Without(gone)
    /\ UNCHANGED <<now, alive, refresh, sessions, since, paused,
                   lanes, doomed, stopping>>

-----------------------------------------------------------------------------
SetLane(u, lane) ==
    /\ lanes' = [lanes EXCEPT ![u] = lane]
    /\ UNCHANGED <<now, alive, refresh, sessions, since, paused,
                   claims>>

(* #startReserved: from the check to the reservation nothing is awaited. *)
ReserveDevice(h, u, dir) ==
    /\ MayCall(h)
    /\ lanes[u] = None
    /\ Access(u, h)
    /\ SetLane(u, Lane(h, dir, TRUE))
    /\ UNCHANGED <<doomed, stopping>>

StoreLane_Unchecked(u) ==
    /\ lanes[u] # None
    /\ lanes[u].starting
    /\ SetLane(u, Lane(lanes[u].agent, lanes[u].dir, FALSE))
    /\ UNCHANGED <<doomed, stopping>>

(* The start is over: its lane is stored if access() still lets its owner  *)
(* in, with nothing awaited between the two, and is dropped if not.        *)
StoreLane(u) ==
    /\ lanes[u] # None
    /\ lanes[u].starting
    /\ Access(u, lanes[u].agent)
    /\ SetLane(u, Lane(lanes[u].agent, lanes[u].dir, FALSE))
    /\ UNCHANGED <<doomed, stopping>>

StartFails(u) ==
    /\ lanes[u] # None
    /\ lanes[u].starting
    /\ SetLane(u, None)
    /\ UNCHANGED <<doomed, stopping>>

(* stopLane, for the lane's id: once it is gone nobody else can stop it. *)
RemoveLane(u) ==
    /\ SetLane(u, None)
    /\ doomed' = doomed \ {u}
    /\ stopping' = {s \in stopping : s[2] # u}

(* lane down.  The router asks access() when the call arrives ... *)
StopLane(h, u) ==
    /\ MayCall(h)
    /\ lanes[u] # None
    /\ ~lanes[u].starting
    /\ Access(u, h)
    /\ stopping' = stopping \cup {<<h, u>>}
    /\ UNCHANGED <<now, alive, refresh, sessions, since, paused,
                   claims, lanes, doomed>>

(* ... and the lane goes when its Metro has been waited for, unasked ...   *)
EndStop(h, u) == <<h, u>> \in stopping /\ RemoveLane(u)

(* ... or stays, if that Metro could not be proven the lane's own. *)
KeepLane(h, u) ==
    /\ <<h, u>> \in stopping
    /\ stopping' = stopping \ {<<h, u>>}
    /\ UNCHANGED <<now, alive, refresh, sessions, since, paused,
                   claims, lanes, doomed>>

(* #reconcile reads the holds and the time once, then goes through the     *)
(* lanes, probing the Metro of each and stopping the abandoned ones.       *)
LaneAbandoned(u) ==
    /\ lanes[u] # None
    /\ ~lanes[u].starting
    /\ Abandoned(lanes[u].agent, lanes[u].dir)

BeginReconcile ==
    /\ doomed' = doomed \cup {u \in Devices : LaneAbandoned(u)}
    /\ UNCHANGED <<now, alive, refresh, sessions, since, paused,
                   claims, lanes, stopping>>

ReleaseAbandoned(u) == u \in doomed /\ RemoveLane(u)

(* The Metro could not be proven the lane's own: the lane is kept. *)
KeepAbandoned(u) ==
    /\ u \in doomed
    /\ doomed' = doomed \ {u}
    /\ UNCHANGED <<now, alive, refresh, sessions, since, paused,
                   claims, lanes, stopping>>

-----------------------------------------------------------------------------
(* What agent h, or the operator, makes the desktop do. *)
AgentStep(h) ==
    \E u \in Devices :
        \/ ClaimDevice(h, u)
        \/ ReleaseClaim(h, u)
        \/ \E dir \in Dirs : ReserveDevice(h, u, dir)
        \/ StopLane(h, u) \/ EndStop(h, u) \/ KeepLane(h, u)
        \/ lanes[u] # None /\ lanes[u].agent = h /\ StoreLane(u)

Environment ==
    \/ Tick
    \/ \E h \in Holders : SessionStarts(h) \/ SessionEnds(h)

Desktop ==
    \/ BeginRefresh \/ RefreshFails \/ RefreshEnds
    \/ BeginReconcile
    \/ \E u \in Devices :
          StartFails(u) \/ ReleaseAbandoned(u) \/ KeepAbandoned(u)

Next ==
    \/ Environment
    \/ Desktop
    \/ Restart
    \/ \E h \in Agents : AgentStep(h)
    \/ \E h \in Holders, u \in Devices : ClaimFor(h, u)

Spec == Init /\ [][Next]_vars

(* The same with nobody at the desktop: agents only. *)
UnattendedNext ==
    \/ Environment
    \/ Desktop
    \/ Restart
    \/ \E h \in Holders : AgentStep(h)

UnattendedSpec == Init /\ [][UnattendedNext]_vars

-----------------------------------------------------------------------------
TypeOK ==
    /\ now \in 0..MaxTime
    /\ alive \subseteq Discoverable
    /\ refresh \in Discoveries \cup {None}
    /\ sessions \subseteq Discoverable
    /\ since \in [ClockKeys -> Nat \cup {None}]
    /\ paused \in [ClockKeys -> Nat \cup {None}]
    /\ claims \subseteq Claims
    /\ lanes \in [Devices -> Lanes \cup {None}]
    /\ doomed \subseteq Devices
    /\ stopping \subseteq Agents \X Devices

(* A clock either runs, from a moment that has passed, or is paused at no  *)
(* more than the time there has been.                                      *)
ClocksSound ==
    \A k \in ClockKeys :
        /\ since[k] # None => since[k] <= now /\ paused[k] = None
        /\ paused[k] # None => paused[k] <= now

(* The claims on a device stand in one order, each agent's at most once,   *)
(* and so a claimed device has a first claim to resolve to.                *)
ClaimsOrdered ==
    /\ \A c \in claims : c.after \subseteq Claimants(c.udid) \ {c.holder}
    /\ \A c, d \in claims : c.udid = d.udid /\ c # d =>
          /\ c.holder # d.holder
          /\ c.holder \in d.after \/ d.holder \in c.after
    /\ \A c, d \in claims : c.udid = d.udid /\ c.holder \in d.after =>
          c.after \subseteq d.after

(* A lane down that waits is for a lane that is there, which is the one it *)
(* was let in to stop.                                                     *)
StopsHaveLanes ==
    \A s \in stopping : lanes[s[2]] # None /\ ~lanes[s[2]].starting

FirstClaimExists == \A c \in claims : FirstClaims(c.udid) # {}

(* The agent service's state is well formed: what agent-service.ts assumes *)
(* of its clocks, what device-hold.ts assumes of the claims ("a device's   *)
(* first claim is its hold"), however claims were interleaved, and what    *)
(* stopLane assumes of the lane whose id it kept over its await.           *)
Inv ==
    /\ TypeOK
    /\ ClocksSound
    /\ ClaimsOrdered
    /\ FirstClaimExists
    /\ StopsHaveLanes

(* The clocks of agent-service.ts, kept as absolute times and as amounts   *)
(* in two maps, are stopwatches: pausing and resuming over outages of the  *)
(* discovery neither loses nor adds time, and a restart forgets all.       *)
SW == INSTANCE Stopwatches WITH
        Keys <- ClockKeys,
        running <- {k \in ClockKeys : since[k] # None},
        elapsed <- [k \in ClockKeys |-> Elapsed(k)]
ClocksAreStopwatches == SW!Spec

(* "Only the holder may claim it, start, launch or stop a lane on it"      *)
(* (device-hold.ts): no step an agent makes the desktop take changes who   *)
(* holds a device access() keeps that agent from, with one exception.  A   *)
(* lane down is checked when it arrives and removes the lane once its      *)
(* Metro has ended: an owner who comes back between the two, too late,     *)
(* loses its lane, and only ever that lane.                                *)
HoldsAreNotTaken ==
    [][\A u \in Devices, h \in Holders :
          HoldOf(u)' # HoldOf(u) /\ AgentStep(h) =>
             \/ Access(u, h)
             \/ EndStop(h, u) /\ HoldOf(u).via = "lane"]_vars

(* Nothing the desktop does by itself ends a claim's hold before its       *)
(* holder's stopwatch has run for the grace period and the holder is still *)
(* missing (agent-service.ts, #expireAbandonedClaims).                     *)
ClaimsEndAfterGrace ==
    [][\A u \in Devices :
          HoldOf(u).via = "claim" /\ HoldOf(u)' # HoldOf(u) /\ Desktop =>
              /\ HoldOf(u).holder \notin sessions'
              /\ Elapsed(ClockKey(HoldOf(u).holder, None)) >= Grace]_vars

(* agent-command-router.ts says that of "two sessions racing for a free    *)
(* device" both cannot get it: on a device without a lane a claim is       *)
(* granted only where no other session known to run has a claim.           *)
ClaimsAreExclusive ==
    [][\A h \in Holders, u \in Devices : ClaimDevice(h, u) /\ lanes[u] = None =>
          Claimants(u) \cap sessions \subseteq {h}]_vars

(* lane-service.ts says a lane is torn down "when the owner has been gone  *)
(* for the grace period": the lane #reconcile stops is abandoned.          *)
OnlyAbandonedLanesEnd ==
    [][\A u \in Devices : ReleaseAbandoned(u) => LaneAbandoned(u)]_vars

(* agent-service.ts says of the holders of a kind that cannot be seen that *)
(* they "are unknown rather than gone": a refresh drops none of their      *)
(* claims.                                                                 *)
UnknownKeepClaims ==
    [][RefreshEnds => \A c \in claims :
          Kind[c.holder] \in refresh.unseen =>
              c.holder \in Claimants(c.udid)']_vars
=============================================================================
