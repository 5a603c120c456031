--------------------------- MODULE SimulatorLease ---------------------------
(***************************************************************************)
(* What the mutation coordinator promises its callers, without the promise *)
(* chain: a Simulator's lease has at most one holder, free leases go to    *)
(* the claimants in the order they asked, and a claimant may give up at    *)
(* any time without changing the others' order.                            *)
(***************************************************************************)
EXTENDS Sublists

CONSTANTS Calls, Udids, None

VARIABLES holder,   \* the call that holds each Simulator's lease, or None
          line      \* the calls waiting for it, first come first

leaseVars == <<holder, line>>

LeaseInit ==
    /\ holder = [u \in Udids |-> None]
    /\ line = [u \in Udids |-> <<>>]

Claim(u, c) ==
    /\ \A v \in Udids : holder[v] # c
    /\ line' = [line EXCEPT ![u] = Append(@, c)]
    /\ UNCHANGED holder

Grant(u) ==
    /\ holder[u] = None
    /\ line[u] # <<>>
    /\ holder' = [holder EXCEPT ![u] = Head(line[u])]
    /\ line' = [line EXCEPT ![u] = Tail(@)]

GiveUp(u, c) ==
    /\ \E i \in DOMAIN line[u] : line[u][i] = c
    /\ line' = [line EXCEPT ![u] = Keep(@, Calls \ {c})]
    /\ UNCHANGED holder

Release(u) ==
    /\ holder[u] # None
    /\ holder' = [holder EXCEPT ![u] = None]
    /\ UNCHANGED line

LeaseNext ==
    \E u \in Udids : Grant(u) \/ Release(u) \/ \E c \in Calls : Claim(u, c) \/ GiveUp(u, c)

LeaseSpec == LeaseInit /\ [][LeaseNext]_leaseVars
=============================================================================
