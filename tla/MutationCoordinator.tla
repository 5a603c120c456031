------------------------- MODULE MutationCoordinator -------------------------
(***************************************************************************)
(* The per-Simulator mutation lease of the desktop main process            *)
(* (apps/desktop/src/main/simulator-mutation-coordinator.ts), with the way *)
(* its callers (lanes, recipes, Slimming and Simulator jobs) nest calls    *)
(* inside an operation that already holds the lease.                       *)
(*                                                                         *)
(* A call is one invocation of runExclusive or tryRunExclusive.  JavaScript*)
(* runs one handler at a time, so every action below is a stretch of code  *)
(* between two awaits.  chain[u] is the promise chain behind #tails: a     *)
(* call's tail settles when every earlier tail has settled and its own     *)
(* turn is released, which is when the call leaves the head of the chain.  *)
(***************************************************************************)
EXTENDS Sublists

CONSTANTS Calls,          \* identities of concurrent calls
          Udids,          \* Simulators, by upper-cased UDID
          None            \* "no call", "no Simulator"

ASSUME CoordinatorAssumption ==
    /\ None \notin Calls
    /\ None \notin Udids

VARIABLES pc,        \* idle, waiting for its turn, running, or released
          target,    \* the Simulator a call is for
          owner,     \* the call whose lease (owner symbol) a call runs under
          parent,    \* the call whose operation awaits this one
          aborted,   \* calls whose AbortSignal has fired and may still be heard
          active,    \* #activeOwners
          chain      \* #tails: the calls whose tail has not settled, in order

vars == <<pc, target, owner, parent, aborted, active, chain>>

TypeOK ==
    /\ pc \in [Calls -> {"idle", "waiting", "running", "released"}]
    /\ target \in [Calls -> Udids \cup {None}]
    /\ owner \in [Calls -> Calls \cup {None}]
    /\ parent \in [Calls -> Calls \cup {None}]
    /\ aborted \in SUBSET Calls
    /\ active \in SUBSET Calls
    /\ chain \in [Udids -> Seq(Calls)]

Init ==
    /\ pc = [c \in Calls |-> "idle"]
    /\ target = [c \in Calls |-> None]
    /\ owner = [c \in Calls |-> None]
    /\ parent = [c \in Calls |-> None]
    /\ aborted = {}
    /\ active = {}
    /\ chain = [u \in Udids |-> <<>>]

-----------------------------------------------------------------------------
(* A call identity may be used for a new call once the previous one is     *)
(* over and nothing still runs under its lease (an owner symbol is unique).*)
Fresh(c) ==
    /\ pc[c] = "idle"
    /\ \A d \in Calls : owner[d] # c /\ parent[d] # c

Children(c) == {d \in Calls : parent[d] = c /\ pc[d] \in {"waiting", "running"}}

(* As a plain mutex would have it, in no order. *)
HasTurn_AnyOrder(c) == \A d \in active : target[d] # target[c]

(* It is c's turn: every earlier tail of its Simulator has settled. *)
HasTurn(c) == chain[target[c]] # <<>> /\ Head(chain[target[c]]) = c

(* LeaseMatches without the check of #activeOwners. *)
LeaseMatches_AnyTime(l, u) == target[l] = u

(* The lease of call l is live and is for Simulator u. *)
LeaseMatches(l, u) == l \in active /\ target[l] = u

(* Unclaimed if the background pass queued like everybody else. *)
Unclaimed_Unchecked(u) == u \in Udids

(* tryRunExclusive: nobody holds or awaits the Simulator's lease. *)
Unclaimed(u) == chain[u] = <<>>

(* Takes a place at the end of the Simulator's chain, on behalf of p. *)
Enqueue(c, u, p) ==
    /\ Fresh(c)
    /\ pc' = [pc EXCEPT ![c] = "waiting"]
    /\ target' = [target EXCEPT ![c] = u]
    /\ parent' = [parent EXCEPT ![c] = p]
    /\ chain' = [chain EXCEPT ![u] = Append(@, c)]
    /\ UNCHANGED <<owner, aborted, active>>

(* runExclusive without a lease, by a service that holds none. *)
RunExclusive(c, u) == Enqueue(c, u, None)

(* tryRunExclusive, by a background pass or from inside the operation p;   *)
(* a Simulator that is claimed answers { acquired: false } and changes     *)
(* nothing.                                                                *)
TryRunExclusive(c, u, p) ==
    /\ p # None => pc[p] = "running" /\ Children(p) = {}
    /\ c # p
    /\ Unclaimed(u)
    /\ Enqueue(c, u, p)

(* runExclusive with the lease of call l, which l's operation passed on:   *)
(* the nested operation starts at once and l's operation, which awaits one *)
(* call at a time (lane and recipe steps are sequential), awaits it.  A    *)
(* lease that is over, or of another Simulator, and a signal that has      *)
(* fired, reject the call and change nothing.                              *)
RunWithLease(c, u, l) ==
    /\ Fresh(c)
    /\ c # l
    /\ Children(l) = {}
    /\ LeaseMatches(l, u)
    /\ pc' = [pc EXCEPT ![c] = "running"]
    /\ target' = [target EXCEPT ![c] = u]
    /\ owner' = [owner EXCEPT ![c] = l]
    /\ parent' = [parent EXCEPT ![c] = l]
    /\ UNCHANGED <<aborted, active, chain>>

(* The caller's AbortSignal fires, during the wait or the operation.  A    *)
(* signal that fired before the call is one that fires right after it, and *)
(* once the call is over nobody listens.                                   *)
Abort(c) ==
    /\ c \notin aborted
    /\ pc[c] \in {"waiting", "running"}
    /\ aborted' = aborted \cup {c}
    /\ UNCHANGED <<pc, target, owner, parent, active, chain>>

(* The wait ends in the caller's turn and the operation starts. *)
TakeTurn(c) ==
    /\ pc[c] = "waiting"
    /\ HasTurn(c)
    /\ c \notin aborted
    /\ pc' = [pc EXCEPT ![c] = "running"]
    /\ owner' = [owner EXCEPT ![c] = c]
    /\ active' = active \cup {c}
    /\ UNCHANGED <<target, parent, aborted, chain>>

(* The wait ends in an abort, or the signal fired just before the          *)
(* operation would have started: the turn is released and the call         *)
(* rejects, but its tail still waits for the tails before it.              *)
CancelWait(c) ==
    /\ pc[c] = "waiting"
    /\ c \in aborted
    /\ pc' = [pc EXCEPT ![c] = "released"]
    /\ parent' = [parent EXCEPT ![c] = None]
    /\ aborted' = aborted \ {c}
    /\ UNCHANGED <<target, owner, active, chain>>

(* EndOperation that leaves the owner symbol active. *)
EndOperation_KeepsOwner(c) ==
    /\ pc' = [pc EXCEPT ![c] = IF owner[c] = c THEN "released" ELSE "idle"]
    /\ owner' = [owner EXCEPT ![c] = None]
    /\ target' = [target EXCEPT ![c] = IF owner[c] = c THEN @ ELSE None]
    /\ UNCHANGED <<active, chain>>

(* The end of c's operation: the call that took the lease gives it up, a   *)
(* nested call just returns.                                               *)
EndOperation(c) ==
    /\ active' = active \ {c}
    /\ pc' = [pc EXCEPT ![c] = IF owner[c] = c THEN "released" ELSE "idle"]
    /\ owner' = [owner EXCEPT ![c] = None]
    /\ target' = [target EXCEPT ![c] = IF owner[c] = c THEN @ ELSE None]
    /\ UNCHANGED chain

(* What c's operation waits for before it ends: a nested job only while    *)
(* its own signal has not fired (waitForJob rejects on the abort), a       *)
(* background attempt to its end.                                          *)
Awaited(c) == {d \in Children(c) : c \notin aborted \/ owner[d] # c}

(* The operation resolves or rejects.  A nested job that it stopped waiting*)
(* for has been asked to stop and goes on for a while, under a lease that  *)
(* may be over: runExclusive knows nothing of it.                          *)
Finish(c) ==
    /\ pc[c] = "running"
    /\ Awaited(c) = {}
    /\ EndOperation(c)
    /\ parent' = [d \in Calls |-> IF d = c \/ parent[d] = c THEN None ELSE parent[d]]
    /\ aborted' = (aborted \ {c}) \cup Children(c)

(* Settle if only the last tail of a Simulator could ever settle. *)
Settle_LastOnly(u) ==
    /\ Len(chain[u]) = 1
    /\ pc[Head(chain[u])] = "released"
    /\ pc' = [pc EXCEPT ![Head(chain[u])] = "idle"]
    /\ target' = [target EXCEPT ![Head(chain[u])] = None]
    /\ chain' = [chain EXCEPT ![u] = <<>>]
    /\ UNCHANGED <<owner, parent, aborted, active>>

(* A released tail whose predecessors have settled settles, and the last   *)
(* one deletes the Simulator's entry of #tails.                            *)
Settle(u) ==
    /\ chain[u] # <<>>
    /\ LET c == Head(chain[u]) IN
         /\ pc[c] = "released"
         /\ pc' = [pc EXCEPT ![c] = "idle"]
         /\ target' = [target EXCEPT ![c] = None]
    /\ chain' = [chain EXCEPT ![u] = Tail(@)]
    /\ UNCHANGED <<owner, parent, aborted, active>>

CallStep(c) ==
    \/ \E u \in Udids : RunExclusive(c, u)
    \/ \E u \in Udids, p \in Calls \cup {None} : TryRunExclusive(c, u, p)
    \/ \E u \in Udids, l \in Calls : RunWithLease(c, u, l)
    \/ Abort(c)
    \/ TakeTurn(c)
    \/ CancelWait(c)
    \/ Finish(c)

Next == (\E c \in Calls : CallStep(c)) \/ (\E u \in Udids : Settle(u))

(* Promise reactions run, and every operation a caller passes ends: its    *)
(* simctl and helper commands have timeouts and it makes finitely many     *)
(* nested calls, hence strong fairness (each nested call disables Finish). *)
Fairness ==
    /\ \A c \in Calls : WF_vars(TakeTurn(c) \/ CancelWait(c)) /\ SF_vars(Finish(c))
    /\ \A u \in Udids : WF_vars(Settle(u))

Spec == Init /\ [][Next]_vars
FairSpec == Spec /\ Fairness

-----------------------------------------------------------------------------
(* At most one live lease per Simulator: the coordinator never has two     *)
(* owners active for one UDID, however waits are aborted and retried.      *)
LeaseExclusive ==
    \A c, d \in active : target[c] = target[d] => c = d

(* c was nested in an operation that stopped waiting for it: it has been   *)
(* asked to stop, and the lease it runs under is over.                     *)
LeftBehind(c) == c \in aborted /\ owner[c] \notin active

(* What the coordinator is for ("prevents those otherwise-independent      *)
(* queues from executing against one UDID concurrently"), with the one     *)
(* exception its callers make: two operations in progress on one Simulator *)
(* belong to one lease, unless one of them is a nested job left behind by  *)
(* an aborted operation.  So a lease that is over, or of another Simulator,*)
(* starts nothing.                                                         *)
MutationsExclusive ==
    \A c, d \in Calls :
        (pc[c] = "running" /\ pc[d] = "running" /\ target[c] = target[d])
            => owner[c] = owner[d] \/ LeftBehind(c) \/ LeftBehind(d)

(* A call that waits or runs is for a Simulator, and the call that holds a *)
(* lease is the head of its Simulator's chain.                             *)
HoldersLead ==
    /\ \A c \in Calls : pc[c] \in {"waiting", "running"} => target[c] \in Udids
    /\ \A c \in active : pc[c] = "running" /\ owner[c] = c /\ HasTurn(c)

(* An operation runs under its own live lease or under the live lease of   *)
(* the call that awaits it, or was left behind; nothing runs under a lease *)
(* before it is granted.                                                   *)
LeasesCover ==
    /\ \A c \in Calls : pc[c] = "running" /\ ~ LeftBehind(c) =>
           /\ owner[c] \in active
           /\ target[owner[c]] = target[c]
           /\ owner[c] # c => parent[c] = owner[c]
    /\ \A c, d \in Calls : owner[d] = c => pc[c] # "waiting"

(* The inductive invariant, with the types. *)
Inv == TypeOK /\ HoldersLead /\ LeasesCover

(* The holder of a lease is its active owner, and the line is the part of  *)
(* the promise chain that still waits.                                     *)
Holder(u) ==
    IF \E c \in active : target[c] = u
    THEN CHOOSE c \in active : target[c] = u
    ELSE None
Waiting == {c \in Calls : pc[c] = "waiting"}
Line(u) == Keep(chain[u], Waiting)

Lease == INSTANCE SimulatorLease WITH
    holder <- [u \in Udids |-> Holder(u)],
    line <- [u \in Udids |-> Line(u)]

(* The coordinator implements the abstract lease: one holder, first come   *)
(* first served, and giving up a place never moves anybody else.           *)
ImplementsLease == Lease!LeaseSpec

(* Every claimant of a Simulator gets its turn or is rejected: no abort,   *)
(* no background pass made from inside an operation and no nested call     *)
(* leaves the lease stuck.                                                 *)
EveryWaitEnds ==
    \A c \in Calls : (pc[c] = "waiting") ~> (pc[c] # "waiting")

(* The #tails entry of a Simulator nobody claims any more goes away, so    *)
(* that background work is not refused for good.                           *)
EveryTailSettles ==
    \A c \in Calls : (pc[c] = "released") ~> (pc[c] = "idle")
=============================================================================
