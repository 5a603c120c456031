----------------------- MODULE MutationCoordinator_proofs -----------------------
(***************************************************************************)
(* For any number of calls and Simulators: the inductive invariant of      *)
(* MutationCoordinator, mutual exclusion from it, and that the promise     *)
(* chains implement SimulatorLease.                                        *)
(***************************************************************************)
EXTENDS MutationCoordinator, FiniteSetTheorems, SequenceTheorems, WellFoundedInduction, TLAPS

USE DEF LeaseMatches, Unclaimed

(* The part of the invariant that the refinement needs.                    *)
LeaseInv == TypeOK /\ HoldersLead

(* The head of a sequence stays when something is appended to it.          *)
LEMMA AppendKeepsHead ==
    ASSUME NEW S, NEW q \in Seq(S), NEW e \in S, q # <<>>
    PROVE  Append(q, e) # <<>> /\ Head(Append(q, e)) = Head(q)
  <1>1. Len(q) > 0 /\ Len(Append(q, e)) = Len(q) + 1
    OBVIOUS
  <1>2. Append(q, e)[1] = q[1]
    BY <1>1
  <1> QED
    BY <1>1, <1>2

(* A new claimant, of runExclusive or tryRunExclusive, keeps the invariant.*)
LEMMA EnqueueKeepsLeases ==
    ASSUME LeaseInv, NEW c \in Calls, NEW u \in Udids, NEW p \in Calls \cup {None},
           Enqueue(c, u, p)
    PROVE  LeaseInv' /\ (LeasesCover => LeasesCover')
  <1> USE DEF LeaseInv
  <1>1. TypeOK'
    BY DEF Enqueue, TypeOK
  <1>2. HoldersLead'
    <2>1. \A d \in Calls : pc'[d] \in {"waiting", "running"} => target'[d] \in Udids
      BY DEF Enqueue, Fresh, TypeOK, HoldersLead
    <2>2. ASSUME NEW d \in active'
          PROVE  pc'[d] = "running" /\ owner'[d] = d /\ HasTurn(d)'
      <3>1. d \in active /\ d \in Calls /\ pc[d] = "running" /\ owner[d] = d /\ HasTurn(d)
        BY <2>2 DEF Enqueue, TypeOK, HoldersLead
      <3>2. d # c /\ target'[d] = target[d] /\ target[d] \in Udids
        BY <3>1 DEF Enqueue, Fresh, TypeOK, HoldersLead
      <3>3. chain[target[d]] \in Seq(Calls)
        BY <3>2 DEF TypeOK
      <3>4. chain'[target[d]] # <<>> /\ Head(chain'[target[d]]) = d
        <4>1. CASE target[d] = u
          <5>1. chain'[u] = Append(chain[u], c)
            BY <4>1, <3>2 DEF Enqueue, TypeOK
          <5> QED
            BY <5>1, <4>1, <3>1, <3>3, AppendKeepsHead DEF HasTurn
        <4>2. CASE target[d] # u
          BY <4>2, <3>1, <3>2 DEF Enqueue, TypeOK, HasTurn
        <4> QED
          BY <4>1, <4>2
      <3> QED
        BY <3>1, <3>2, <3>4 DEF Enqueue, TypeOK, HasTurn
    <2> QED
      BY <2>1, <2>2 DEF HoldersLead
  <1>3. LeasesCover => LeasesCover'
    BY DEF Enqueue, Fresh, TypeOK, LeasesCover, LeftBehind
  <1> QED
    BY <1>1, <1>2, <1>3

(* A nested call runs under the lease it was given.                        *)
LEMMA RunWithLeaseKeepsLeases ==
    ASSUME LeaseInv, NEW c \in Calls, NEW u \in Udids, NEW l \in Calls,
           RunWithLease(c, u, l)
    PROVE  LeaseInv' /\ (LeasesCover => LeasesCover')
  <1> USE DEF LeaseInv
  <1>1. TypeOK'
    BY DEF RunWithLease, TypeOK
  <1>2. HoldersLead'
    BY DEF RunWithLease, Fresh, TypeOK, HoldersLead, HasTurn
  <1>3. LeasesCover => LeasesCover'
    BY DEF RunWithLease, Fresh, TypeOK, HoldersLead, LeasesCover, LeftBehind
  <1> QED
    BY <1>1, <1>2, <1>3

(* The head of the chain takes the lease.                                  *)
LEMMA TakeTurnKeepsLeases ==
    ASSUME LeaseInv, NEW c \in Calls, TakeTurn(c)
    PROVE  LeaseInv' /\ (LeasesCover => LeasesCover')
  <1> USE DEF LeaseInv
  <1>1. TypeOK'
    BY DEF TakeTurn, TypeOK
  <1>2. HoldersLead'
    BY DEF TakeTurn, TypeOK, HoldersLead, HasTurn
  <1>3. ASSUME LeasesCover
        PROVE  LeasesCover'
    <2>1. \A d \in Calls : owner[d] # c
      BY <1>3 DEF TakeTurn, LeasesCover
    <2>2. /\ pc' = [pc EXCEPT ![c] = "running"] /\ owner' = [owner EXCEPT ![c] = c]
          /\ active' = active \cup {c}
          /\ target' = target /\ parent' = parent /\ aborted' = aborted
      BY DEF TakeTurn
    <2>3. \A d \in Calls : d # c => (LeftBehind(d)' <=> LeftBehind(d))
      BY <2>1, <2>2 DEF LeftBehind, TypeOK
    <2> QED
      BY <1>3, <2>1, <2>2, <2>3 DEF TypeOK, LeasesCover
  <1> QED
    BY <1>1, <1>2, <1>3

(* The end of an operation.  A job nested under a lease that ends was      *)
(* either awaited, which the guard excludes, or is left behind.            *)
LEMMA FinishKeepsLeases ==
    ASSUME LeaseInv, NEW c \in Calls, Finish(c)
    PROVE  LeaseInv' /\ (LeasesCover => LeasesCover')
  <1> USE DEF LeaseInv
  <1>1. TypeOK'
    BY CoordinatorAssumption DEF Finish, EndOperation, Children, TypeOK
  <1>2. HoldersLead'
    BY DEF Finish, EndOperation, TypeOK, HoldersLead, HasTurn
  <1>3. ASSUME LeasesCover, NEW d \in Calls, pc'[d] = "running"
        PROVE  \/ LeftBehind(d)'
               \/ /\ owner'[d] \in active'
                  /\ target'[owner'[d]] = target'[d]
                  /\ owner'[d] # d => parent'[d] = owner'[d]
    <2>1. d # c /\ pc[d] = "running" /\ owner'[d] = owner[d] /\ target'[d] = target[d]
      BY <1>3 DEF Finish, EndOperation, TypeOK
    <2>2. active' = active \ {c} /\ aborted' = (aborted \ {c}) \cup Children(c)
      BY DEF Finish, EndOperation
    <2>3. CASE LeftBehind(d)
      BY <2>1, <2>2, <2>3 DEF LeftBehind
    <2>4. CASE ~ LeftBehind(d)
      <3>1. owner[d] \in active /\ target[owner[d]] = target[d]
            /\ (owner[d] # d => parent[d] = owner[d])
        BY <1>3, <2>1, <2>4 DEF LeasesCover
      <3>2. CASE owner[d] = c
        <4>1. d \in Children(c)
          BY <2>1, <3>1, <3>2 DEF Children
        <4> QED
          BY <2>1, <2>2, <3>2, <4>1 DEF LeftBehind
      <3>3. CASE owner[d] # c
        <4>1. owner'[d] \in active'
          BY <2>1, <2>2, <3>1, <3>3
        <4>2. target'[owner[d]] = target[owner[d]]
          BY <3>1, <3>3 DEF Finish, EndOperation, TypeOK
        <4>3. parent[d] # c => parent'[d] = parent[d]
          BY <2>1 DEF Finish
        <4> QED
          BY <2>1, <3>1, <3>3, <4>1, <4>2, <4>3
      <3> QED
        BY <3>2, <3>3
    <2> QED
      BY <2>3, <2>4
  <1>4. ASSUME LeasesCover
        PROVE  \A e, d \in Calls : owner'[d] = e => pc'[e] # "waiting"
    BY <1>4, CoordinatorAssumption DEF Finish, EndOperation, TypeOK, LeasesCover
  <1> QED
    BY <1>1, <1>2, <1>3, <1>4 DEF LeasesCover

(* A tail that settles was released, so it is nobody's live lease.         *)
LEMMA SettleKeepsLeases ==
    ASSUME LeaseInv, NEW u \in Udids, Settle(u)
    PROVE  LeaseInv' /\ (LeasesCover => LeasesCover')
  <1> USE DEF LeaseInv
  <1> DEFINE h == Head(chain[u])
  <1>1. chain[u] \in Seq(Calls) /\ h \in Calls /\ Tail(chain[u]) \in Seq(Calls)
    BY DEF Settle, TypeOK
  <1>2. pc[h] = "released" /\ h \notin active
    BY <1>1 DEF Settle, HoldersLead
  <1>3. TypeOK'
    BY <1>1 DEF Settle, TypeOK
  <1>4. HoldersLead'
    BY <1>1, <1>2 DEF Settle, TypeOK, HoldersLead, HasTurn
  <1>5. LeasesCover => LeasesCover'
    BY <1>1, <1>2 DEF Settle, TypeOK, LeasesCover, LeftBehind
  <1> QED
    BY <1>3, <1>4, <1>5

(* Every step of the coordinator keeps its leases, and keeps operations    *)
(* under them.                                                             *)
LEMMA NextKeepsLeases ==
    ASSUME LeaseInv, [Next]_vars
    PROVE  LeaseInv' /\ (LeasesCover => LeasesCover')
  <1> DEFINE Goal == LeaseInv' /\ (LeasesCover => LeasesCover')
  <1>1. ASSUME NEW c \in Calls, NEW u \in Udids, RunExclusive(c, u)
        PROVE  Goal
    BY <1>1, EnqueueKeepsLeases DEF RunExclusive
  <1>2. ASSUME NEW c \in Calls, NEW u \in Udids, NEW p \in Calls \cup {None},
               TryRunExclusive(c, u, p)
        PROVE  Goal
    BY <1>2, EnqueueKeepsLeases DEF TryRunExclusive
  <1>3. ASSUME NEW c \in Calls, NEW u \in Udids, NEW l \in Calls, RunWithLease(c, u, l)
        PROVE  Goal
    BY <1>3, RunWithLeaseKeepsLeases
  <1>4. ASSUME NEW c \in Calls, Abort(c)
        PROVE  Goal
    BY <1>4 DEF Abort, LeaseInv, TypeOK, HoldersLead, LeasesCover, LeftBehind, HasTurn
  <1>5. ASSUME NEW c \in Calls, TakeTurn(c)
        PROVE  Goal
    BY <1>5, TakeTurnKeepsLeases
  <1>6. ASSUME NEW c \in Calls, CancelWait(c)
        PROVE  Goal
    BY <1>6 DEF CancelWait, LeaseInv, TypeOK, HoldersLead, LeasesCover, LeftBehind, HasTurn
  <1>7. ASSUME NEW c \in Calls, Finish(c)
        PROVE  Goal
    BY <1>7, FinishKeepsLeases
  <1>8. ASSUME NEW u \in Udids, Settle(u)
        PROVE  Goal
    BY <1>8, SettleKeepsLeases
  <1>9. CASE UNCHANGED vars
    BY <1>9 DEF vars, LeaseInv, TypeOK, HoldersLead, LeasesCover, LeftBehind, HasTurn
  <1> QED
    BY <1>1, <1>2, <1>3, <1>4, <1>5, <1>6, <1>7, <1>8, <1>9 DEF Next, CallStep

(* Nothing is claimed at first.                                            *)
LEMMA InitLeases == Init => Inv
  BY DEF Init, Inv, TypeOK, HoldersLead, LeasesCover

(* Inv holds initially and every step of the coordinator preserves it.     *)
THEOREM InvInvariant == Spec => []Inv
  <1>1. Inv /\ [Next]_vars => Inv'
    BY NextKeepsLeases DEF Inv, LeaseInv
  <1> QED
    BY InitLeases, <1>1, PTL DEF Spec

(* No two owners of a lease are ever active for one Simulator, for both    *)
(* would be the head of the same chain: not even when callers stop waiting *)
(* for the jobs they nested.                                               *)
THEOREM LeaseExclusion == Spec => []LeaseExclusive
  <1>1. Inv => LeaseExclusive
    BY DEF Inv, HoldersLead, LeaseExclusive, HasTurn
  <1> QED
    BY <1>1, InvInvariant, PTL

(* Operations in progress on one Simulator belong to one lease, but for    *)
(* the jobs an aborted operation left behind.                              *)
THEOREM MutationExclusion == Spec => []MutationsExclusive
  <1>1. Inv => MutationsExclusive
    BY DEF Inv, TypeOK, HoldersLead, LeasesCover, MutationsExclusive, HasTurn
  <1> QED
    BY <1>1, InvInvariant, PTL
-----------------------------------------------------------------------------
(* Sublists.                                                               *)

(* What holds of 0 and, with a number below N, of the next holds up to N.  *)
LEMMA UpTo ==
    ASSUME NEW N \in Nat, NEW T, 0 \in T, \A n \in 0..(N - 1) : n \in T => n + 1 \in T
    PROVE  \A n \in 0..N : n \in T
  <1> SUFFICES ASSUME NEW m \in 0..N, m \notin T
               PROVE  FALSE
    OBVIOUS
  <1> DEFINE Below(x) == {t \in 0..N : t < x}
             Bad == {x \in 0..N : x \notin T}
             U == {Below(x) : x \in Bad}
  <1>1. U \subseteq FiniteSubsetsOf(0..N) /\ U # {}
    <2>1. \A x \in Bad : Below(x) \subseteq 0..N /\ IsFiniteSet(Below(x))
      <3>1. IsFiniteSet(0..N)
        BY FS_Interval
      <3> QED
        BY <3>1, FS_Subset
    <2> QED
      BY <2>1 DEF FiniteSubsetsOf
  <1>2. PICK V \in U : \A W \in U : ~ (<<W, V>> \in StrictSubsetOrdering(0..N))
    BY <1>1, FS_StrictSubsetOrderingWellFounded, WFMin
  <1>3. PICK x \in Bad : V = Below(x)
    BY <1>2
  <1>4. x # 0 /\ x - 1 \in 0..(N - 1) /\ (x - 1) + 1 = x
    BY <1>3
  <1>5. x - 1 \in Bad
    BY <1>3, <1>4
  <1>6. Below(x - 1) \subseteq Below(x) /\ x - 1 \in Below(x) /\ x - 1 \notin Below(x - 1)
    BY <1>4
  <1>7. <<Below(x - 1), Below(x)>> \in StrictSubsetOrdering(0..N)
    BY <1>6 DEF StrictSubsetOrdering
  <1> QED
    BY <1>2, <1>3, <1>5, <1>7

(* The function that keeps of the first N members of q those in S.         *)
Prefixes(f, q, S, N) ==
    f = [n \in 0..N |->
            IF n = 0 THEN <<>>
            ELSE IF q[n] \in S THEN Append(f[n - 1], q[n]) ELSE f[n - 1]]
Kept(q, S) == CHOOSE f : Prefixes(f, q, S, Len(q))

(* The function behind Keep exists, prefix by prefix.                      *)
LEMMA PrefixesExist ==
    ASSUME NEW N \in Nat, NEW q, NEW S
    PROVE  \E f : Prefixes(f, q, S, N)
  <1> DEFINE T == {n \in 0..N : \E f : Prefixes(f, q, S, n)}
  <1>1. 0 \in T
    <2>1. Prefixes([n \in 0..0 |-> <<>>], q, S, 0)
      BY DEF Prefixes
    <2> QED
      BY <2>1
  <1>2. ASSUME NEW m \in 0..(N - 1), m \in T
        PROVE  m + 1 \in T
    <2>1. PICK f : Prefixes(f, q, S, m)
      BY <1>2
    <2> DEFINE e == IF q[m + 1] \in S THEN Append(f[m], q[m + 1]) ELSE f[m]
               g == [n \in 0..(m + 1) |-> IF n <= m THEN f[n] ELSE e]
    <2>2. \A n \in 0..m : f[n] = (IF n = 0 THEN <<>>
                                  ELSE IF q[n] \in S THEN Append(f[n - 1], q[n]) ELSE f[n - 1])
      BY <2>1 DEF Prefixes
    <2>3. /\ \A n \in 0..m : g[n] = f[n]
          /\ g[m + 1] = e
      OBVIOUS
    <2>4. ASSUME NEW n \in 0..(m + 1)
          PROVE  g[n] = (IF n = 0 THEN <<>>
                         ELSE IF q[n] \in S THEN Append(g[n - 1], q[n]) ELSE g[n - 1])
      <3>1. CASE n = m + 1
        <4>1. n # 0 /\ n - 1 = m /\ m \in 0..m
          BY <3>1
        <4> QED
          BY <2>3, <3>1, <4>1
      <3>2. CASE n = 0
        BY <2>2, <2>3, <3>2
      <3>3. CASE n # 0 /\ n # m + 1
        <4>1. n \in 0..m /\ n - 1 \in 0..m
          BY <3>3
        <4> HIDE DEF g
        <4> QED
          BY <2>2, <2>3, <3>3, <4>1
      <3> QED
        BY <3>1, <3>2, <3>3
    <2>5. Prefixes(g, q, S, m + 1)
      <3>1. g = [n \in 0..(m + 1) |-> g[n]]
        OBVIOUS
      <3> HIDE DEF g
      <3> QED
        BY <2>4, <3>1 DEF Prefixes
    <2> QED
      BY <2>5
  <1> HIDE DEF T
  <1>3. \A n \in 0..N : n \in T
    BY <1>1, <1>2, UpTo
  <1> QED
    BY <1>3 DEF T

(* What it is.                                                             *)
LEMMA KeptIs ==
    ASSUME NEW q, Len(q) \in Nat, NEW S
    PROVE  /\ Keep(q, S) = Kept(q, S)[Len(q)]
           /\ Kept(q, S)[0] = <<>>
           /\ \A n \in 0..(Len(q) - 1) :
                 Kept(q, S)[n + 1] = IF q[n + 1] \in S THEN Append(Kept(q, S)[n], q[n + 1])
                                     ELSE Kept(q, S)[n]
  <1>1. Keep(q, S) = Kept(q, S)[Len(q)]
    BY DEF Keep, Kept, Prefixes
  <1>2. Prefixes(Kept(q, S), q, S, Len(q))
    BY PrefixesExist DEF Kept
  <1>3. \A n \in 0..Len(q) :
           Kept(q, S)[n] = (IF n = 0 THEN <<>>
                            ELSE IF q[n] \in S THEN Append(Kept(q, S)[n - 1], q[n])
                                 ELSE Kept(q, S)[n - 1])
    BY <1>2 DEF Prefixes
  <1>4. \A n \in 0..(Len(q) - 1) : n + 1 \in 0..Len(q) /\ n + 1 # 0 /\ (n + 1) - 1 = n
    OBVIOUS
  <1> QED
    BY <1>1, <1>3, <1>4

(* One more member.                                                        *)
LEMMA KeptNext ==
    ASSUME NEW q, Len(q) \in Nat, NEW S, NEW n \in 0..(Len(q) - 1), NEW m, m = n + 1
    PROVE  Kept(q, S)[m] = IF q[m] \in S THEN Append(Kept(q, S)[n], q[m]) ELSE Kept(q, S)[n]
  BY KeptIs

(* It is a list of the same members.                                       *)
LEMMA KeptInduction ==
    ASSUME NEW A, NEW q \in Seq(A), NEW S
    PROVE  /\ Len(q) \in Nat
           /\ \A n \in 0..Len(q) : Kept(q, S)[n] \in Seq(A)
           /\ Keep(q, S) \in Seq(A)
  <1> DEFINE T == {n \in 0..Len(q) : Kept(q, S)[n] \in Seq(A)}
  <1>1. Len(q) \in Nat
    OBVIOUS
  <1>2. 0 \in T
    <2>1. Kept(q, S)[0] = <<>> /\ <<>> \in Seq(A) /\ 0 \in 0..Len(q)
      BY <1>1, KeptIs
    <2> QED
      BY <2>1
  <1>3. ASSUME NEW n \in 0..(Len(q) - 1), n \in T
        PROVE  n + 1 \in T
    <2>1. q[n + 1] \in A /\ n + 1 \in 0..Len(q)
      BY <1>1
    <2>2. PICK x \in Seq(A) : x = Kept(q, S)[n]
      BY <1>3
    <2>3. Kept(q, S)[n + 1] = IF q[n + 1] \in S THEN Append(x, q[n + 1]) ELSE x
      BY <1>1, <2>2, KeptIs
    <2>4. Append(x, q[n + 1]) \in Seq(A)
      BY <2>1
    <2>5. Kept(q, S)[n + 1] \in Seq(A)
      BY <2>2, <2>3, <2>4
    <2> QED
      BY <2>1, <2>5
  <1> HIDE DEF T
  <1>4. \A n \in 0..Len(q) : n \in T
    BY <1>1, <1>2, <1>3, UpTo
  <1>5. Len(q) \in 0..Len(q) /\ Keep(q, S) = Kept(q, S)[Len(q)]
    BY <1>1, KeptIs
  <1> QED
    BY <1>1, <1>4, <1>5 DEF T

(* A list with nothing left of it, and one with a new last member.         *)
LEMMA KeepEmpty ==
    ASSUME NEW S
    PROVE  Keep(<<>>, S) = <<>>
  <1>1. Len(<<>>) = 0
    OBVIOUS
  <1> QED
    BY <1>1, KeptIs

LEMMA KeepAppend ==
    ASSUME NEW A, NEW q \in Seq(A), NEW e \in A, NEW S
    PROVE  Keep(Append(q, e), S) = IF e \in S THEN Append(Keep(q, S), e) ELSE Keep(q, S)
  <1> DEFINE r == Append(q, e)
             T == {n \in 0..Len(q) : Kept(r, S)[n] = Kept(q, S)[n]}
  <1>1. /\ Len(q) \in Nat /\ Len(r) = Len(q) + 1 /\ r[Len(q) + 1] = e
        /\ \A n \in 1..Len(q) : r[n] = q[n]
    OBVIOUS
  <1> HIDE DEF r
  <1>2. 0 \in T
    BY <1>1, KeptIs
  <1>3. ASSUME NEW n \in 0..(Len(q) - 1), n \in T
        PROVE  n + 1 \in T
    <2>1. n + 1 \in 0..Len(q) /\ n \in 0..(Len(r) - 1) /\ r[n + 1] = q[n + 1]
      BY <1>1
    <2>2. Kept(r, S)[n] = Kept(q, S)[n]
      BY <1>3
    <2>3. Kept(r, S)[n + 1] = IF r[n + 1] \in S THEN Append(Kept(r, S)[n], r[n + 1])
                              ELSE Kept(r, S)[n]
      BY <1>1, <2>1, KeptIs
    <2>4. Kept(q, S)[n + 1] = IF q[n + 1] \in S THEN Append(Kept(q, S)[n], q[n + 1])
                              ELSE Kept(q, S)[n]
      BY <1>1, KeptIs
    <2> QED
      BY <2>1, <2>2, <2>3, <2>4
  <1> HIDE DEF T
  <1>4. \A n \in 0..Len(q) : n \in T
    BY <1>1, <1>2, <1>3, UpTo
  <1>5. Kept(r, S)[Len(q)] = Keep(q, S)
    <2>1. Len(q) \in T
      BY <1>1, <1>4
    <2>2. Keep(q, S) = Kept(q, S)[Len(q)]
      BY <1>1, KeptIs
    <2> QED
      BY <2>1, <2>2 DEF T
  <1>6. Keep(r, S) = IF r[Len(q) + 1] \in S THEN Append(Kept(r, S)[Len(q)], r[Len(q) + 1])
                     ELSE Kept(r, S)[Len(q)]
    <2>1. Len(q) \in 0..(Len(r) - 1) /\ Len(r) \in Nat
      BY <1>1
    <2>2. Keep(r, S) = Kept(r, S)[Len(q) + 1]
      BY <1>1, <2>1, KeptIs
    <2> QED
      BY <2>1, <2>2, KeptIs
  <1> QED
    BY <1>1, <1>5, <1>6 DEF r

(* Only which members of the list are in the set counts.                   *)
LEMMA KeepSame ==
    ASSUME NEW A, NEW q \in Seq(A), NEW S, NEW T,
           \A i \in 1..Len(q) : q[i] \in S <=> q[i] \in T
    PROVE  Keep(q, S) = Keep(q, T)
  <1> DEFINE U == {n \in 0..Len(q) : Kept(q, S)[n] = Kept(q, T)[n]}
  <1>1. Len(q) \in Nat
    OBVIOUS
  <1>2. 0 \in U
    BY <1>1, KeptIs
  <1>3. ASSUME NEW n \in 0..(Len(q) - 1), n \in U
        PROVE  n + 1 \in U
    <2>1. n + 1 \in 1..Len(q)
      BY <1>1
    <2>2. /\ Kept(q, S)[n + 1] = IF q[n + 1] \in S THEN Append(Kept(q, S)[n], q[n + 1])
                                 ELSE Kept(q, S)[n]
          /\ Kept(q, T)[n + 1] = IF q[n + 1] \in T THEN Append(Kept(q, T)[n], q[n + 1])
                                 ELSE Kept(q, T)[n]
      BY <1>1, KeptIs
    <2> QED
      BY <1>3, <2>1, <2>2
  <1> HIDE DEF U
  <1>4. \A n \in 0..Len(q) : n \in U
    BY <1>1, <1>2, <1>3, UpTo
  <1>5. Kept(q, S)[Len(q)] = Kept(q, T)[Len(q)]
    <2>1. Len(q) \in U
      BY <1>1, <1>4
    <2> QED
      BY <2>1 DEF U
  <1>6. Keep(q, S) = Kept(q, S)[Len(q)] /\ Keep(q, T) = Kept(q, T)[Len(q)]
    BY <1>1, KeptIs
  <1> QED
    BY <1>5, <1>6

(* A first member that is kept.                                            *)
LEMMA KeepHead ==
    ASSUME NEW A, NEW q \in Seq(A), NEW S, q # <<>>, Head(q) \in S
    PROVE  /\ Keep(q, S) # <<>> /\ Head(Keep(q, S)) = Head(q)
           /\ Tail(Keep(q, S)) = Keep(Tail(q), S)
  <1> DEFINE r == Tail(q)
             OK(x, y) == x # <<>> /\ Head(x) = Head(q) /\ Tail(x) = y
             T == {n \in 0..Len(r) : OK(Kept(q, S)[n + 1], Kept(r, S)[n])}
  <1>1. /\ r \in Seq(A) /\ Len(q) \in Nat /\ Len(r) \in Nat /\ Len(q) = Len(r) + 1
        /\ Head(q) = q[1] /\ Head(q) \in A
        /\ \A n \in 1..Len(r) : r[n] = q[n + 1]
    OBVIOUS
  <1> HIDE DEF r
  <1>2. 0 \in T
    <2>1. Kept(q, S)[0] = <<>> /\ 0 \in 0..(Len(q) - 1) /\ 0 + 1 = 1 /\ Kept(r, S)[0] = <<>>
      BY <1>1, KeptIs
    <2>2. Kept(q, S)[1] = IF q[1] \in S THEN Append(Kept(q, S)[0], q[1]) ELSE Kept(q, S)[0]
      BY <1>1, <2>1, KeptNext
    <2>3. Kept(q, S)[1] = Append(<<>>, q[1])
      BY <1>1, <2>1, <2>2
    <2>4. <<>> \in Seq(A) /\ Append(<<>>, q[1]) = <<q[1]>> /\ <<q[1]>> # <<>>
      OBVIOUS
    <2>5. OK(Append(<<>>, q[1]), <<>>)
      BY <1>1, <2>4, HeadTailAppend
    <2>6. OK(Kept(q, S)[1], Kept(r, S)[0])
      BY <2>1, <2>3, <2>5
    <2>7. 0 \in 0..Len(r)
      BY <1>1
    <2> QED
      BY <2>6, <2>7
  <1>3. ASSUME NEW n \in 0..(Len(r) - 1), n \in T
        PROVE  n + 1 \in T
    <2> DEFINE x == Kept(q, S)[n + 1]
               y == Kept(r, S)[n]
    <2>1. /\ n + 1 \in 0..(Len(q) - 1) /\ n + 1 \in 1..Len(r) /\ n + 1 \in 0..Len(r)
          /\ n + 1 \in 0..Len(q) /\ r[n + 1] = q[(n + 1) + 1] /\ r[n + 1] \in A
      BY <1>1
    <2>2. x \in Seq(A) /\ y \in Seq(A)
      BY <1>1, <2>1, KeptInduction
    <2>3. /\ Kept(q, S)[(n + 1) + 1] = IF r[n + 1] \in S THEN Append(x, r[n + 1]) ELSE x
          /\ Kept(r, S)[n + 1] = IF r[n + 1] \in S THEN Append(y, r[n + 1]) ELSE y
      BY <1>1, <2>1, KeptIs
    <2>4. OK(x, y)
      BY <1>3
    <2> HIDE DEF x, y
    <2>5. Append(x, r[n + 1]) # <<>>
      BY <2>1, <2>2, AppendProperties
    <2>6. OK(Append(x, r[n + 1]), Append(y, r[n + 1]))
      BY <2>1, <2>2, <2>4, <2>5, HeadTailAppend
    <2>7. OK(Kept(q, S)[(n + 1) + 1], Kept(r, S)[n + 1])
      BY <2>3, <2>4, <2>6
    <2> QED
      BY <2>1, <2>7
  <1> HIDE DEF T
  <1>4. \A n \in 0..Len(r) : n \in T
    BY <1>1, <1>2, <1>3, UpTo
  <1>5. OK(Kept(q, S)[Len(q)], Kept(r, S)[Len(r)])
    BY <1>1, <1>4 DEF T
  <1>6. Keep(q, S) = Kept(q, S)[Len(q)] /\ Keep(r, S) = Kept(r, S)[Len(r)]
    BY <1>1, KeptIs
  <1> QED
    BY <1>5, <1>6 DEF r

(* A first member that is left out.                                        *)
LEMMA KeepNotHead ==
    ASSUME NEW A, NEW q \in Seq(A), NEW S, q # <<>>, Head(q) \notin S
    PROVE  Keep(q, S) = Keep(Tail(q), S)
  <1> DEFINE r == Tail(q)
             T == {n \in 0..Len(r) : Kept(q, S)[n + 1] = Kept(r, S)[n]}
  <1>1. /\ Len(q) \in Nat /\ Len(r) \in Nat /\ Len(q) = Len(r) + 1 /\ Head(q) = q[1]
        /\ \A n \in 1..Len(r) : r[n] = q[n + 1]
    OBVIOUS
  <1> HIDE DEF r
  <1>2. 0 \in T
    <2>1. Kept(q, S)[0] = <<>> /\ 0 \in 0..(Len(q) - 1) /\ 0 + 1 = 1 /\ Kept(r, S)[0] = <<>>
      BY <1>1, KeptIs
    <2>2. Kept(q, S)[0 + 1] = IF q[0 + 1] \in S THEN Append(Kept(q, S)[0], q[0 + 1])
                              ELSE Kept(q, S)[0]
      BY <1>1, <2>1, KeptIs
    <2>3. 0 \in 0..Len(r)
      BY <1>1
    <2> QED
      BY <1>1, <2>1, <2>2, <2>3
  <1>3. ASSUME NEW n \in 0..(Len(r) - 1), n \in T
        PROVE  n + 1 \in T
    <2>1. /\ n + 1 \in 0..(Len(q) - 1) /\ n + 1 \in 0..Len(r) /\ r[n + 1] = q[(n + 1) + 1]
      BY <1>1
    <2>2. /\ Kept(q, S)[(n + 1) + 1] = IF r[n + 1] \in S THEN Append(Kept(q, S)[n + 1], r[n + 1])
                                       ELSE Kept(q, S)[n + 1]
          /\ Kept(r, S)[n + 1] = IF r[n + 1] \in S THEN Append(Kept(r, S)[n], r[n + 1])
                                 ELSE Kept(r, S)[n]
      BY <1>1, <2>1, KeptIs
    <2> QED
      BY <1>3, <2>1, <2>2
  <1> HIDE DEF T
  <1>4. \A n \in 0..Len(r) : n \in T
    BY <1>1, <1>2, <1>3, UpTo
  <1>5. Kept(q, S)[Len(q)] = Kept(r, S)[Len(r)]
    BY <1>1, <1>4 DEF T
  <1>6. Keep(q, S) = Kept(q, S)[Len(q)] /\ Keep(r, S) = Kept(r, S)[Len(r)]
    BY <1>1, KeptIs
  <1> QED
    BY <1>5, <1>6 DEF r

(* To leave out more is to leave out what is left.                         *)
LEMMA KeepTwice ==
    ASSUME NEW A, NEW q \in Seq(A), NEW S, NEW T, NEW W, W = S \cap T
    PROVE  Keep(Keep(q, S), T) = Keep(q, W)
  <1> DEFINE U == {n \in 0..Len(q) : Keep(Kept(q, S)[n], T) = Kept(q, W)[n]}
  <1>1. Len(q) \in Nat
    OBVIOUS
  <1>2. 0 \in U
    <2>1. Kept(q, S)[0] = <<>> /\ Kept(q, W)[0] = <<>> /\ Keep(<<>>, T) = <<>>
      BY <1>1, KeptIs, KeepEmpty
    <2> QED
      BY <1>1, <2>1
  <1>3. ASSUME NEW n \in 0..(Len(q) - 1), n \in U
        PROVE  n + 1 \in U
    <2>1. n + 1 \in 0..Len(q) /\ n \in 0..Len(q) /\ q[n + 1] \in A
      BY <1>1
    <2>2. PICK x \in Seq(A) : x = Kept(q, S)[n]
      BY <2>1, KeptInduction
    <2>3. PICK e \in A : e = q[n + 1]
      BY <2>1
    <2>4. /\ Kept(q, S)[n + 1] = IF e \in S THEN Append(x, e) ELSE x
          /\ Kept(q, W)[n + 1] = IF e \in W THEN Append(Kept(q, W)[n], e) ELSE Kept(q, W)[n]
      BY <1>1, <2>2, <2>3, KeptIs
    <2>5. Keep(Append(x, e), T) = IF e \in T THEN Append(Keep(x, T), e) ELSE Keep(x, T)
      BY KeepAppend
    <2>6. Keep(x, T) = Kept(q, W)[n]
      BY <1>3, <2>2
    <2>7. Keep(Kept(q, S)[n + 1], T) = Kept(q, W)[n + 1]
      BY <2>4, <2>5, <2>6
    <2> QED
      BY <2>1, <2>7
  <1> HIDE DEF U
  <1>4. \A n \in 0..Len(q) : n \in U
    BY <1>1, <1>2, <1>3, UpTo
  <1>5. Keep(Kept(q, S)[Len(q)], T) = Kept(q, W)[Len(q)]
    <2>1. Len(q) \in U
      BY <1>1, <1>4
    <2> QED
      BY <2>1 DEF U
  <1>6. Keep(q, S) = Kept(q, S)[Len(q)] /\ Keep(q, W) = Kept(q, W)[Len(q)]
    BY <1>1, KeptIs
  <1> QED
    BY <1>5, <1>6

(* What is kept is there.                                                  *)
LEMMA KeepHas ==
    ASSUME NEW A, NEW q \in Seq(A), NEW S, NEW k \in 1..Len(q), q[k] \in S
    PROVE  \E i \in DOMAIN Keep(q, S) : Keep(q, S)[i] = q[k]
  <1> DEFINE T == {n \in 0..Len(q) :
                      k <= n => \E i \in DOMAIN Kept(q, S)[n] : Kept(q, S)[n][i] = q[k]}
  <1>1. Len(q) \in Nat
    OBVIOUS
  <1>2. 0 \in T
    BY <1>1
  <1>3. ASSUME NEW n \in 0..(Len(q) - 1), n \in T
        PROVE  n + 1 \in T
    <2>1. n + 1 \in 0..Len(q) /\ n \in 0..Len(q) /\ q[n + 1] \in A
      BY <1>1
    <2>2. Kept(q, S)[n + 1] = IF q[n + 1] \in S THEN Append(Kept(q, S)[n], q[n + 1])
                              ELSE Kept(q, S)[n]
      BY <1>1, KeptIs
    <2>3. PICK x \in Seq(A) : x = Kept(q, S)[n]
      BY <2>1, KeptInduction
    <2>4. /\ Len(x) + 1 \in DOMAIN Append(x, q[n + 1]) /\ Append(x, q[n + 1])[Len(x) + 1] = q[n + 1]
          /\ \A i \in DOMAIN x : i \in DOMAIN Append(x, q[n + 1]) /\ Append(x, q[n + 1])[i] = x[i]
      BY <2>1
    <2>5. CASE k <= n
      BY <1>3, <2>1, <2>2, <2>3, <2>4, <2>5
    <2>6. CASE k = n + 1
      BY <2>1, <2>2, <2>3, <2>4, <2>6
    <2>7. CASE k > n + 1
      BY <1>1, <2>1, <2>7
    <2> QED
      BY <1>1, <2>5, <2>6, <2>7
  <1> HIDE DEF T
  <1>4. \A n \in 0..Len(q) : n \in T
    BY <1>1, <1>2, <1>3, UpTo
  <1>5. k <= Len(q) /\ Len(q) \in T
    BY <1>1, <1>4
  <1> QED
    BY <1>1, <1>5, KeptIs DEF T

-----------------------------------------------------------------------------
(* The abstract lease.                                                     *)

(* The calls of a chain are its Simulator's, each once; they wait, hold    *)
(* the lease or have released it, and whoever waits is in its chain.       *)
Chained ==
    /\ \A u \in Udids : \A i \in 1..Len(chain[u]) :
           /\ target[chain[u][i]] = u
           /\ pc[chain[u][i]] \in {"waiting", "running", "released"}
           /\ pc[chain[u][i]] = "running" => owner[chain[u][i]] = chain[u][i]
    /\ \A u \in Udids : \A i, k \in 1..Len(chain[u]) : chain[u][i] = chain[u][k] => i = k
    /\ \A c \in Calls : pc[c] = "waiting" =>
           \E i \in 1..Len(chain[target[c]]) : chain[target[c]][i] = c

(* A claimant is in no chain before it is the last of one.                 *)
LEMMA EnqueueChains ==
    ASSUME LeaseInv, Chained, NEW c \in Calls, NEW u \in Udids, NEW p \in Calls \cup {None},
           Enqueue(c, u, p)
    PROVE  Chained'
  <1> USE DEF LeaseInv
  <1>1. /\ \A v \in Udids : chain[v] \in Seq(Calls) /\ Len(chain[v]) \in Nat
        /\ chain'[u] = Append(chain[u], c) /\ \A v \in Udids : v # u => chain'[v] = chain[v]
        /\ owner' = owner
    BY DEF Enqueue, TypeOK
  <1>2. /\ pc'[c] = "waiting" /\ target'[c] = u
        /\ \A d \in Calls : d # c => pc'[d] = pc[d] /\ target'[d] = target[d]
    BY DEF Enqueue, TypeOK
  <1>3. ASSUME NEW v \in Udids, NEW i \in 1..Len(chain[v])
        PROVE  chain[v][i] \in Calls /\ chain[v][i] # c
    <2>1. chain[v][i] \in Calls
      BY <1>1
    <2>2. pc[chain[v][i]] # "idle" /\ pc[c] = "idle"
      BY DEF Enqueue, Fresh, Chained
    <2> QED
      BY <2>1, <2>2
  <1>4. /\ Len(chain'[u]) = Len(chain[u]) + 1 /\ chain'[u][Len(chain[u]) + 1] = c
        /\ \A i \in 1..Len(chain[u]) : chain'[u][i] = chain[u][i]
    BY <1>1
  <1>5. ASSUME NEW v \in Udids, NEW i \in 1..Len(chain'[v])
        PROVE  /\ target'[chain'[v][i]] = v
               /\ pc'[chain'[v][i]] \in {"waiting", "running", "released"}
               /\ pc'[chain'[v][i]] = "running" => owner'[chain'[v][i]] = chain'[v][i]
    <2>1. CASE v = u /\ i = Len(chain[u]) + 1
      BY <1>2, <1>4, <2>1
    <2>2. CASE ~ (v = u /\ i = Len(chain[u]) + 1)
      <3>1. i \in 1..Len(chain[v]) /\ chain'[v][i] = chain[v][i]
        BY <1>1, <1>4, <1>5, <2>2
      <3>2. PICK d \in Calls : d = chain[v][i] /\ d # c
        BY <1>3, <3>1
      <3>3. /\ target[d] = v /\ pc[d] \in {"waiting", "running", "released"}
            /\ pc[d] = "running" => owner[d] = d
        BY <3>1, <3>2 DEF Chained
      <3>4. pc'[d] = pc[d] /\ target'[d] = target[d] /\ owner' = owner
        BY <1>1, <1>2, <3>2
      <3> QED
        BY <3>1, <3>2, <3>3, <3>4
    <2> QED
      BY <2>1, <2>2
  <1>6. ASSUME NEW v \in Udids, NEW i \in 1..Len(chain'[v]), NEW k \in 1..Len(chain'[v]),
               chain'[v][i] = chain'[v][k]
        PROVE  i = k
    <2>1. CASE v = u
      <3>1. (i = Len(chain[u]) + 1 \/ i \in 1..Len(chain[u]))
            /\ (k = Len(chain[u]) + 1 \/ k \in 1..Len(chain[u]))
        BY <1>1, <1>4, <1>6, <2>1
      <3>2. chain'[u][i] = chain'[u][k]
        BY <1>6, <2>1
      <3>3. \A m \in 1..Len(chain[u]) : chain'[u][m] = chain[u][m] /\ chain'[u][m] # c
        BY <1>3, <1>4
      <3>4. CASE i \in 1..Len(chain[u]) /\ k \in 1..Len(chain[u])
        <4>1. chain[u][i] = chain[u][k]
          BY <3>2, <3>3, <3>4
        <4> QED
          BY <3>4, <4>1 DEF Chained
      <3> QED
        BY <1>4, <3>1, <3>2, <3>3, <3>4
    <2>2. CASE v # u
      BY <1>1, <1>6, <2>2 DEF Chained
    <2> QED
      BY <2>1, <2>2
  <1>7. ASSUME NEW d \in Calls, pc'[d] = "waiting"
        PROVE  \E i \in 1..Len(chain'[target'[d]]) : chain'[target'[d]][i] = d
    <2>1. CASE d = c
      <3>1. Len(chain[u]) + 1 \in 1..Len(chain'[u])
        BY <1>1, <1>4
      <3> QED
        BY <1>2, <1>4, <2>1, <3>1
    <2>2. CASE d # c
      <3>1. pc[d] = "waiting" /\ target'[d] = target[d] /\ target[d] \in Udids
        BY <1>2, <1>7, <2>2 DEF HoldersLead
      <3>2. PICK i \in 1..Len(chain[target[d]]) : chain[target[d]][i] = d
        BY <3>1 DEF Chained
      <3>3. i \in 1..Len(chain'[target[d]]) /\ chain'[target[d]][i] = d
        BY <1>1, <1>4, <3>1, <3>2
      <3> QED
        BY <3>1, <3>3
    <2> QED
      BY <2>1, <2>2
  <1> QED
    BY <1>5, <1>6, <1>7 DEF Chained

(* The other steps leave the chains alone, but for a tail that settles.    *)
LEMMA StaysChained ==
    ASSUME LeaseInv, Chained, chain' = chain,
           \A d \in Calls : pc[d] \in {"waiting", "running", "released"} =>
               \/ pc'[d] = pc[d] /\ target'[d] = target[d] /\ owner'[d] = owner[d]
               \/ pc[d] = "running" /\ owner[d] # d
               \/ /\ pc'[d] \in {"running", "released"} /\ target'[d] = target[d]
                  /\ pc'[d] = "running" => owner'[d] = d,
           \A d \in Calls : pc'[d] = "waiting" => pc[d] = "waiting" /\ target'[d] = target[d]
    PROVE  Chained'
  <1>1. \A u \in Udids : \A i \in 1..Len(chain[u]) : chain[u][i] \in Calls
    BY DEF LeaseInv, TypeOK
  <1>2. ASSUME NEW u \in Udids, NEW i \in 1..Len(chain[u])
        PROVE  /\ target'[chain[u][i]] = u
               /\ pc'[chain[u][i]] \in {"waiting", "running", "released"}
               /\ pc'[chain[u][i]] = "running" => owner'[chain[u][i]] = chain[u][i]
    <2>1. PICK d \in Calls : d = chain[u][i]
      BY <1>1
    <2>2. /\ target[d] = u /\ pc[d] \in {"waiting", "running", "released"}
          /\ pc[d] = "running" => owner[d] = d
      BY <2>1 DEF Chained
    <2>3. target'[d] = u /\ pc'[d] \in {"waiting", "running", "released"}
          /\ (pc'[d] = "running" => owner'[d] = d)
      BY <2>2
    <2> QED
      BY <2>1, <2>3
  <1> QED
    BY <1>2 DEF Chained

(* The head of a chain is nowhere else in it.                              *)
LEMMA SettleChains ==
    ASSUME LeaseInv, Chained, NEW u \in Udids, Settle(u)
    PROVE  Chained'
  <1> USE DEF LeaseInv
  <1>1. PICK q \in Seq(Calls) : q = chain[u]
    BY DEF TypeOK
  <1>2. q # <<>> /\ Len(q) \in Nat /\ Len(Tail(q)) = Len(q) - 1 /\ Head(q) = q[1]
        /\ (\A i \in 1..(Len(q) - 1) : Tail(q)[i] = q[i + 1]) /\ 1 \in 1..Len(q)
    BY <1>1 DEF Settle
  <1>3. PICK h \in Calls : h = q[1]
    BY <1>2
  <1>4. /\ chain'[u] = Tail(q) /\ \A v \in Udids : v # u => chain'[v] = chain[v]
        /\ owner' = owner /\ pc[h] = "released" /\ pc'[h] = "idle"
        /\ \A d \in Calls : d # h => pc'[d] = pc[d] /\ target'[d] = target[d]
    BY <1>1, <1>2, <1>3 DEF Settle, TypeOK
  <1>5. target[h] = u
    BY <1>1, <1>2, <1>3 DEF Chained
  <1>6. ASSUME NEW v \in Udids, NEW i \in 1..Len(chain'[v])
        PROVE  \E k \in 1..Len(chain[v]) : /\ chain'[v][i] = chain[v][k] /\ chain[v][k] # h
                                           /\ k = IF v = u THEN i + 1 ELSE i
    <2>1. CASE v = u
      <3>1. i + 1 \in 1..Len(q) /\ chain'[u][i] = q[i + 1] /\ i + 1 # 1
        BY <1>2, <1>4, <1>6, <2>1
      <3>2. q[i + 1] # q[1]
        BY <1>1, <1>2, <3>1 DEF Chained
      <3> QED
        BY <1>1, <1>3, <2>1, <3>1, <3>2
    <2>2. CASE v # u
      <3>1. chain'[v][i] = chain[v][i] /\ i \in 1..Len(chain[v])
        BY <1>4, <1>6, <2>2
      <3>2. chain[v][i] # h
        BY <1>5, <2>2, <3>1 DEF Chained
      <3> QED
        BY <2>2, <3>1, <3>2
    <2> QED
      BY <2>1, <2>2
  <1>7. ASSUME NEW v \in Udids, NEW i \in 1..Len(chain'[v])
        PROVE  /\ target'[chain'[v][i]] = v
               /\ pc'[chain'[v][i]] \in {"waiting", "running", "released"}
               /\ pc'[chain'[v][i]] = "running" => owner'[chain'[v][i]] = chain'[v][i]
    <2>1. PICK k \in 1..Len(chain[v]) : chain'[v][i] = chain[v][k] /\ chain[v][k] # h
      BY <1>6
    <2>2. chain[v][k] \in Calls
      BY DEF TypeOK
    <2> QED
      BY <1>4, <2>1, <2>2 DEF Chained
  <1>8. ASSUME NEW v \in Udids, NEW i \in 1..Len(chain'[v]), NEW k \in 1..Len(chain'[v]),
               chain'[v][i] = chain'[v][k]
        PROVE  i = k
    <2>1. PICK m \in 1..Len(chain[v]) : chain'[v][i] = chain[v][m]
                                        /\ m = IF v = u THEN i + 1 ELSE i
      BY <1>6
    <2>2. PICK n \in 1..Len(chain[v]) : chain'[v][k] = chain[v][n]
                                        /\ n = IF v = u THEN k + 1 ELSE k
      BY <1>6
    <2>3. m = n
      <3>1. chain[v][m] = chain[v][n]
        BY <1>8, <2>1, <2>2
      <3> QED
        BY <3>1 DEF Chained
    <2> QED
      BY <2>1, <2>2, <2>3
  <1>9. ASSUME NEW d \in Calls, pc'[d] = "waiting"
        PROVE  \E i \in 1..Len(chain'[target'[d]]) : chain'[target'[d]][i] = d
    <2>1. d # h /\ pc[d] = "waiting" /\ target'[d] = target[d] /\ target[d] \in Udids
      BY <1>4, <1>9 DEF HoldersLead
    <2>2. PICK i \in 1..Len(chain[target[d]]) : chain[target[d]][i] = d
      BY <2>1 DEF Chained
    <2>3. CASE target[d] = u
      <3>1. i # 1 /\ i \in 1..Len(q) /\ q[i] = d
        BY <1>1, <1>3, <2>1, <2>2, <2>3
      <3>2. i - 1 \in 1..(Len(q) - 1) /\ (i - 1) + 1 = i
        BY <1>2, <3>1
      <3>3. i - 1 \in 1..Len(chain'[u]) /\ chain'[u][i - 1] = d
        BY <1>2, <1>4, <3>1, <3>2
      <3> QED
        BY <2>1, <2>3, <3>3
    <2>4. CASE target[d] # u
      BY <1>4, <2>1, <2>2, <2>4
    <2> QED
      BY <2>3, <2>4
  <1> QED
    BY <1>7, <1>8, <1>9 DEF Chained

(* Every step keeps the chains in order.                                   *)
LEMMA NextChains ==
    ASSUME LeaseInv, Chained, [Next]_vars
    PROVE  Chained'
  <1> USE DEF LeaseInv
  <1>1. ASSUME NEW c \in Calls, NEW u \in Udids, NEW p \in Calls \cup {None}, Enqueue(c, u, p)
        PROVE  Chained'
    BY <1>1, EnqueueChains
  <1>2. ASSUME NEW c \in Calls, NEW u \in Udids, NEW l \in Calls, RunWithLease(c, u, l)
        PROVE  Chained'
    <2>1. chain' = chain /\ pc[c] = "idle" /\ pc'[c] = "running"
          /\ \A d \in Calls : d # c =>
                 pc'[d] = pc[d] /\ target'[d] = target[d] /\ owner'[d] = owner[d]
      BY <1>2 DEF RunWithLease, Fresh, TypeOK
    <2> QED
      BY <2>1, StaysChained
  <1>3. ASSUME NEW c \in Calls, Abort(c)
        PROVE  Chained'
    BY <1>3, StaysChained DEF Abort
  <1>4. ASSUME NEW c \in Calls, TakeTurn(c)
        PROVE  Chained'
    <2>1. chain' = chain /\ target' = target /\ pc'[c] = "running" /\ owner'[c] = c
          /\ \A d \in Calls : d # c => pc'[d] = pc[d] /\ owner'[d] = owner[d]
      BY <1>4 DEF TakeTurn, TypeOK
    <2> QED
      BY <2>1, StaysChained
  <1>5. ASSUME NEW c \in Calls, CancelWait(c)
        PROVE  Chained'
    <2>1. chain' = chain /\ target' = target /\ owner' = owner /\ pc'[c] = "released"
          /\ \A d \in Calls : d # c => pc'[d] = pc[d]
      BY <1>5 DEF CancelWait, TypeOK
    <2> QED
      BY <2>1, StaysChained
  <1>6. ASSUME NEW c \in Calls, pc[c] = "running", EndOperation(c)
        PROVE  Chained'
    <2>1. /\ chain' = chain /\ pc[c] = "running" /\ pc'[c] \in {"idle", "released"}
          /\ owner[c] = c => pc'[c] = "released" /\ target'[c] = target[c]
          /\ \A d \in Calls : d # c =>
                 pc'[d] = pc[d] /\ target'[d] = target[d] /\ owner'[d] = owner[d]
      BY <1>6 DEF EndOperation, TypeOK
    <2> QED
      BY <2>1, StaysChained
  <1>7. ASSUME NEW u \in Udids, Settle(u)
        PROVE  Chained'
    BY <1>7, SettleChains
  <1>8. CASE UNCHANGED vars
    BY <1>8, StaysChained DEF vars
  <1> QED
    BY <1>1, <1>2, <1>3, <1>4, <1>5, <1>6, <1>7, <1>8
    DEF Next, CallStep, RunExclusive, TryRunExclusive, Finish

(* The call of S that is for Simulator u.                                  *)
TheOne(S, t, u) == IF \E c \in S : t[c] = u THEN CHOOSE c \in S : t[c] = u ELSE None

(* The only one is it.                                                     *)
LEMMA OneIs ==
    ASSUME NEW S, NEW t, NEW u, NEW c \in S, t[c] = u, \A d \in S : t[d] = u => d = c
    PROVE  TheOne(S, t, u) = c
  BY DEF TheOne

(* Only which calls are for the Simulator counts.                          *)
LEMMA SameOne ==
    ASSUME NEW S, NEW t, NEW Z, NEW r, NEW u,
           \A c, d \in S : t[c] = u /\ t[d] = u => c = d,
           \A c : (c \in S /\ t[c] = u) <=> (c \in Z /\ r[c] = u)
    PROVE  TheOne(S, t, u) = TheOne(Z, r, u)
  <1>1. ASSUME NEW c \in S, t[c] = u
        PROVE  TheOne(S, t, u) = TheOne(Z, r, u)
    <2>1. TheOne(S, t, u) = c
      <3>1. c \in S /\ t[c] = u /\ \A d \in S : t[d] = u => d = c
        BY <1>1
      <3> QED
        BY <3>1, OneIs
    <2>2. TheOne(Z, r, u) = c
      <3>1. c \in Z /\ r[c] = u /\ \A d \in Z : r[d] = u => d = c
        BY <1>1
      <3> QED
        BY <3>1, OneIs
    <2> QED
      BY <2>1, <2>2
  <1>2. CASE \A c \in S : t[c] # u
    BY <1>2 DEF TheOne
  <1> QED
    BY <1>1, <1>2

(* Who holds a lease, and who does not.                                    *)
LEMMA HolderIs ==
    ASSUME LeaseInv
    PROVE  /\ \A c \in active : c \in Calls /\ target[c] \in Udids /\ Holder(target[c]) = c
           /\ \A u \in Udids : (\A c \in active : target[c] # u) => Holder(u) = None
           /\ \A u \in Udids : Holder(u) # None => Holder(u) \in active
           /\ \A c, d \in active : target[c] = target[d] => c = d
  <1>1. /\ \A c, d \in active : target[c] = target[d] => c = d
        /\ \A c \in active : c \in Calls /\ target[c] \in Udids
    BY DEF LeaseInv, TypeOK, HoldersLead, HasTurn
  <1>2. ASSUME NEW c \in active
        PROVE  Holder(target[c]) = c
    <2>1. TheOne(active, target, target[c]) = c
      BY <1>1, OneIs
    <2> QED
      BY <2>1 DEF Holder, TheOne
  <1> QED
    BY <1>1, <1>2 DEF Holder

(* Who is the only owner is the holder.                                    *)
LEMMA BecomesHolder ==
    ASSUME NEW u, NEW c, c \in active', target'[c] = u, \A d \in active' : target'[d] = u => d = c
    PROVE  Holder(u)' = c
  BY DEF Holder

(* Nothing about the leases of Simulator u changes.                        *)
LEMMA SameHolder ==
    ASSUME LeaseInv, NEW u \in Udids,
           \A c \in Calls : (c \in active /\ target[c] = u) <=> (c \in active' /\ target'[c] = u),
           active' \subseteq Calls
    PROVE  Holder(u)' = Holder(u)
  <1>1. /\ \A c, d \in active : target[c] = target[d] => c = d
        /\ active \subseteq Calls
    BY HolderIs
  <1>2. TheOne(active, target, u) = TheOne(active', target', u)
    BY <1>1, SameOne
  <1> QED
    BY <1>2 DEF Holder, TheOne

(* Nor does its line, if nobody in its chain begins or ceases to wait.     *)
LEMMA SameLine ==
    ASSUME LeaseInv, NEW u \in Udids, chain'[u] = chain[u],
           \A i \in 1..Len(chain[u]) : pc'[chain[u][i]] = "waiting" <=> pc[chain[u][i]] = "waiting"
    PROVE  Line(u)' = Line(u)
  <1>1. PICK q \in Seq(Calls) : q = chain[u]
    BY DEF LeaseInv, TypeOK
  <1>2. \A i \in 1..Len(q) : q[i] \in Waiting <=> q[i] \in Waiting'
    BY <1>1 DEF Waiting
  <1>3. Keep(q, Waiting) = Keep(q, Waiting')
    BY <1>2, KeepSame
  <1> QED
    BY <1>1, <1>3 DEF Line

(* The abstract lease leaves out as the chain does.                        *)
LEMMA SameKeep ==
    ASSUME NEW q, NEW S
    PROVE  Lease!Keep(q, S) = Keep(q, S)
  BY DEF Lease!Keep, Keep

(* What a step does to the abstract lease.                                 *)
LEMMA EnqueueClaims ==
    ASSUME LeaseInv, Chained, NEW c \in Calls, NEW u \in Udids, NEW p \in Calls \cup {None},
           Enqueue(c, u, p)
    PROVE  Lease!Claim(u, c)
  <1> USE DEF LeaseInv
  <1>1. /\ active' = active /\ pc[c] = "idle" /\ pc'[c] = "waiting"
        /\ \A d \in Calls : d # c => pc'[d] = pc[d] /\ target'[d] = target[d]
        /\ chain'[u] = Append(chain[u], c) /\ \A v \in Udids : v # u => chain'[v] = chain[v]
        /\ c \notin active
    BY DEF Enqueue, Fresh, TypeOK, HoldersLead
  <1>2. ASSUME NEW v \in Udids
        PROVE  Holder(v)' = Holder(v) /\ Holder(v) # c
    <2>1. Holder(v)' = Holder(v)
      BY <1>1, SameHolder DEF TypeOK
    <2>2. Holder(v) # c
      BY <1>1, HolderIs, CoordinatorAssumption
    <2> QED
      BY <2>1, <2>2
  <1>3. ASSUME NEW v \in Udids, NEW i \in 1..Len(chain[v])
        PROVE  chain[v][i] \in Calls /\ chain[v][i] # c
               /\ (pc'[chain[v][i]] = "waiting" <=> pc[chain[v][i]] = "waiting")
    <2>1. chain[v][i] \in Calls /\ chain[v][i] # c
      BY <1>1 DEF TypeOK, Chained
    <2> QED
      BY <1>1, <2>1
  <1>4. ASSUME NEW v \in Udids, v # u
        PROVE  Line(v)' = Line(v)
    BY <1>1, <1>3, <1>4, SameLine
  <1>5. Line(u)' = Append(Line(u), c)
    <2>1. PICK q \in Seq(Calls) : q = chain[u]
      BY DEF TypeOK
    <2>2. c \in Waiting'
      BY <1>1 DEF Waiting
    <2>3. Keep(Append(q, c), Waiting') = Append(Keep(q, Waiting'), c)
      BY <2>2, KeepAppend
    <2>4. \A i \in 1..Len(q) : q[i] \in Waiting <=> q[i] \in Waiting'
      BY <1>3, <2>1 DEF Waiting
    <2>5. Keep(q, Waiting) = Keep(q, Waiting')
      BY <2>4, KeepSame
    <2> QED
      BY <1>1, <2>1, <2>3, <2>5 DEF Line
  <1> QED
    BY <1>2, <1>4, <1>5 DEF Lease!Claim

(* The first of the chain is the first in line, as it waits.               *)
LEMMA TakeTurnGrants ==
    ASSUME LeaseInv, Chained, NEW c \in Calls, TakeTurn(c)
    PROVE  \E u \in Udids : Lease!Grant(u)
  <1> USE DEF LeaseInv
  <1>1. PICK u \in Udids : u = target[c]
    BY DEF TakeTurn, HoldersLead
  <1>2. PICK q \in Seq(Calls) : q = chain[u]
    BY DEF TypeOK
  <1>3. /\ active' = active \cup {c} /\ pc[c] = "waiting" /\ pc'[c] = "running" /\ chain' = chain
        /\ \A d \in Calls : d # c => pc'[d] = pc[d]
        /\ target' = target /\ q # <<>> /\ Head(q) = c /\ c \notin active
    BY <1>1, <1>2 DEF TakeTurn, TypeOK, HasTurn, HoldersLead
  <1>4. \A d \in active : target[d] # u
    BY <1>1, <1>2, <1>3 DEF HoldersLead, HasTurn
  <1>5. Holder(u) = None
    BY <1>4, HolderIs
  <1>6. Holder(u)' = c
    <2>1. c \in active' /\ target'[c] = u /\ \A d \in active' : target'[d] = u => d = c
      BY <1>1, <1>3, <1>4
    <2> QED
      BY <2>1, BecomesHolder
  <1>7. ASSUME NEW v \in Udids, v # u
        PROVE  Holder(v)' = Holder(v) /\ Line(v)' = Line(v)
    <2>1. Holder(v)' = Holder(v)
      BY <1>1, <1>3, <1>7, SameHolder DEF TypeOK
    <2>2. \A i \in 1..Len(chain[v]) : chain[v][i] \in Calls /\ chain[v][i] # c
      BY <1>1, <1>7 DEF TypeOK, Chained
    <2>3. Line(v)' = Line(v)
      BY <1>3, <2>2, SameLine
    <2> QED
      BY <2>1, <2>3
  <1>8. Line(u) # <<>> /\ Head(Line(u)) = c /\ Line(u)' = Tail(Line(u))
    <2>1. c \in Waiting /\ c \notin Waiting'
      BY <1>3 DEF Waiting
    <2>2. Keep(q, Waiting) # <<>> /\ Head(Keep(q, Waiting)) = Head(q)
          /\ Tail(Keep(q, Waiting)) = Keep(Tail(q), Waiting)
      BY <1>3, <2>1, KeepHead
    <2>3. Keep(q, Waiting') = Keep(Tail(q), Waiting')
      BY <1>3, <2>1, KeepNotHead
    <2>4. Tail(q) \in Seq(Calls) /\ Len(q) \in Nat /\ Len(Tail(q)) = Len(q) - 1 /\ q[1] = c
          /\ \A i \in 1..(Len(q) - 1) : Tail(q)[i] = q[i + 1]
      BY <1>3
    <2>5. \A i \in 1..Len(Tail(q)) : Tail(q)[i] \in Waiting <=> Tail(q)[i] \in Waiting'
      <3> TAKE i \in 1..Len(Tail(q))
      <3>1. i + 1 \in 1..Len(q) /\ 1 \in 1..Len(q) /\ i + 1 # 1 /\ Tail(q)[i] = q[i + 1]
        BY <2>4
      <3>2. q[i + 1] # q[1] /\ q[i + 1] \in Calls
        BY <1>2, <3>1 DEF Chained
      <3> QED
        BY <1>3, <2>4, <3>1, <3>2 DEF Waiting
    <2>6. Keep(Tail(q), Waiting) = Keep(Tail(q), Waiting')
      BY <2>4, <2>5, KeepSame
    <2> QED
      BY <1>2, <1>3, <2>2, <2>3, <2>6 DEF Line
  <1>9. Lease!Grant(u)
    BY <1>5, <1>6, <1>7, <1>8 DEF Lease!Grant
  <1> QED
    BY <1>9

(* The others in the chain stay where they are, and wait or not as before. *)
LEMMA CancelWaitGivesUp ==
    ASSUME LeaseInv, Chained, NEW c \in Calls, CancelWait(c)
    PROVE  \E u \in Udids : Lease!GiveUp(u, c)
  <1> USE DEF LeaseInv
  <1>1. PICK u \in Udids : u = target[c]
    BY DEF CancelWait, HoldersLead
  <1>2. PICK q \in Seq(Calls) : q = chain[u]
    BY DEF TypeOK
  <1>3. /\ active' = active /\ pc[c] = "waiting" /\ pc'[c] = "released" /\ chain' = chain
        /\ \A d \in Calls : d # c => pc'[d] = pc[d]
        /\ target' = target
    BY DEF CancelWait, TypeOK
  <1>4. \A v \in Udids : Holder(v)' = Holder(v)
    BY <1>3, SameHolder DEF TypeOK
  <1>5. ASSUME NEW v \in Udids, v # u
        PROVE  Line(v)' = Line(v)
    <2>1. \A i \in 1..Len(chain[v]) : chain[v][i] \in Calls /\ chain[v][i] # c
      BY <1>1, <1>5 DEF TypeOK, Chained
    <2> QED
      BY <1>3, <2>1, SameLine
  <1>6. Waiting' = Waiting \cap (Calls \ {c})
    BY <1>3 DEF Waiting
  <1>7. Line(u)' = Lease!Keep(Line(u), Calls \ {c})
    <2>1. Keep(Keep(q, Waiting), Calls \ {c}) = Keep(q, Waiting')
      BY <1>6, KeepTwice
    <2> QED
      BY <1>2, <1>3, <2>1, SameKeep DEF Line
  <1>8. \E i \in DOMAIN Line(u) : Line(u)[i] = c
    <2>1. PICK k \in 1..Len(q) : q[k] = c
      BY <1>1, <1>2, <1>3 DEF Chained
    <2>2. c \in Waiting
      BY <1>3 DEF Waiting
    <2>3. \E i \in DOMAIN Keep(q, Waiting) : Keep(q, Waiting)[i] = q[k]
      BY <2>1, <2>2, KeepHas
    <2> QED
      BY <1>2, <2>1, <2>3 DEF Line
  <1>9. Lease!GiveUp(u, c)
    BY <1>4, <1>5, <1>7, <1>8 DEF Lease!GiveUp
  <1> QED
    BY <1>9

(* An operation that ends releases its own lease; a nested one's is not    *)
(* its own.                                                                *)
LEMMA EndReleases ==
    ASSUME LeaseInv, Chained, NEW c \in Calls, pc[c] = "running", EndOperation(c)
    PROVE  (\E u \in Udids : Lease!Release(u)) \/ UNCHANGED Lease!leaseVars
  <1> USE DEF LeaseInv
  <1>1. /\ active' = active \ {c} /\ pc[c] = "running" /\ pc'[c] \in {"idle", "released"}
        /\ chain' = chain
        /\ \A d \in Calls : d # c => pc'[d] = pc[d] /\ target'[d] = target[d]
    BY DEF EndOperation, TypeOK
  <1>2. ASSUME NEW v \in Udids
        PROVE  Line(v)' = Line(v)
    <2>1. \A i \in 1..Len(chain[v]) : chain[v][i] \in Calls
      BY DEF TypeOK
    <2> QED
      BY <1>1, <2>1, SameLine
  <1>3. CASE c \in active
    <2>1. PICK u \in Udids : u = target[c]
      BY <1>3, HolderIs
    <2>2. Holder(u) # None
      BY <1>3, <2>1, HolderIs, CoordinatorAssumption
    <2>3. Holder(u)' = None
      <3>1. \A d \in active' : target'[d] # u
        BY <1>1, <1>3, <2>1, HolderIs
      <3> QED
        BY <3>1 DEF Holder
    <2>4. ASSUME NEW v \in Udids, v # u
          PROVE  Holder(v)' = Holder(v)
      BY <1>1, <1>3, <2>1, <2>4, SameHolder DEF TypeOK
    <2>5. Lease!Release(u)
      BY <1>2, <2>2, <2>3, <2>4 DEF Lease!Release
    <2> QED
      BY <2>5
  <1>4. CASE c \notin active
    <2>1. \A v \in Udids : Holder(v)' = Holder(v)
      BY <1>1, <1>4, SameHolder DEF TypeOK
    <2> QED
      BY <1>2, <2>1 DEF Lease!leaseVars
  <1> QED
    BY <1>3, <1>4

(* A nested call, a signal and a tail that settles are no news to a lease. *)
LEMMA OthersStutter ==
    ASSUME LeaseInv, active' = active,
           \A d \in active : target'[d] = target[d],
           \A u \in Udids : Line(u)' = Line(u)
    PROVE  UNCHANGED Lease!leaseVars
  <1>1. \A u \in Udids : Holder(u)' = Holder(u)
    BY SameHolder DEF LeaseInv, TypeOK
  <1> QED
    BY <1>1 DEF Lease!leaseVars

(* A tail that settles was in no line.                                     *)
LEMMA SettleStutters ==
    ASSUME LeaseInv, Chained, NEW u \in Udids, Settle(u)
    PROVE  UNCHANGED Lease!leaseVars
  <1> USE DEF LeaseInv
  <1>1. PICK q \in Seq(Calls) : q = chain[u]
    BY DEF TypeOK
  <1>2. q # <<>> /\ Tail(q) \in Seq(Calls) /\ Head(q) \in Calls
    BY <1>1 DEF Settle
  <1>3. PICK h \in Calls : h = Head(q)
    BY <1>2
  <1>4. /\ chain'[u] = Tail(q) /\ \A v \in Udids : v # u => chain'[v] = chain[v]
        /\ active' = active /\ pc[h] = "released" /\ pc'[h] = "idle"
        /\ \A d \in Calls : d # h => pc'[d] = pc[d] /\ target'[d] = target[d]
        /\ h \notin active
    BY <1>1, <1>2, <1>3 DEF Settle, TypeOK, HoldersLead
  <1>5. Waiting' = Waiting /\ h \notin Waiting
    BY <1>4 DEF Waiting
  <1>6. Keep(q, Waiting) = Keep(Tail(q), Waiting)
    BY <1>2, <1>3, <1>5, KeepNotHead
  <1>7. \A v \in Udids : Line(v)' = Line(v)
    BY <1>1, <1>4, <1>5, <1>6 DEF Line
  <1>8. \A d \in active : target'[d] = target[d]
    BY <1>4 DEF TypeOK
  <1> QED
    BY <1>4, <1>7, <1>8, OthersStutter

(* A step of the coordinator is a step of the abstract lease or none.      *)
LEMMA LeaseSteps ==
    ASSUME LeaseInv, Chained, [Next]_vars
    PROVE  [Lease!LeaseNext]_(Lease!leaseVars)
  <1> DEFINE Goal == [Lease!LeaseNext]_(Lease!leaseVars)
  <1>1. ASSUME NEW c \in Calls, NEW u \in Udids, NEW p \in Calls \cup {None}, Enqueue(c, u, p)
        PROVE  Goal
    BY <1>1, EnqueueClaims DEF Lease!LeaseNext
  <1>2. ASSUME NEW c \in Calls, NEW u \in Udids, NEW l \in Calls, RunWithLease(c, u, l)
        PROVE  Goal
    <2>1. /\ active' = active /\ pc[c] = "idle" /\ pc'[c] = "running" /\ chain' = chain
          /\ \A d \in Calls : d # c => pc'[d] = pc[d] /\ target'[d] = target[d]
          /\ c \notin active
      BY <1>2 DEF RunWithLease, Fresh, LeaseInv, TypeOK, HoldersLead
    <2>2. Waiting' = Waiting
      BY <2>1 DEF Waiting
    <2> QED
      BY <2>1, <2>2, OthersStutter DEF LeaseInv, TypeOK, Line
  <1>3. ASSUME NEW c \in Calls, Abort(c)
        PROVE  Goal
    BY <1>3, OthersStutter DEF Abort, Line, Waiting
  <1>4. ASSUME NEW c \in Calls, TakeTurn(c)
        PROVE  Goal
    BY <1>4, TakeTurnGrants DEF Lease!LeaseNext
  <1>5. ASSUME NEW c \in Calls, CancelWait(c)
        PROVE  Goal
    BY <1>5, CancelWaitGivesUp DEF Lease!LeaseNext
  <1>6. ASSUME NEW c \in Calls, Finish(c)
        PROVE  Goal
    BY <1>6, EndReleases DEF Finish, Lease!LeaseNext
  <1>7. ASSUME NEW u \in Udids, Settle(u)
        PROVE  Goal
    BY <1>7, SettleStutters
  <1>8. CASE UNCHANGED vars
    BY <1>8, OthersStutter DEF vars, Line, Waiting
  <1> QED
    BY <1>1, <1>2, <1>3, <1>4, <1>5, <1>6, <1>7, <1>8
    DEF Next, CallStep, RunExclusive, TryRunExclusive

LEMMA LeaseStart ==
    ASSUME Init
    PROVE  LeaseInv /\ Chained /\ Lease!LeaseInit
  <1>1. Chained
    BY DEF Init, Chained
  <1>2. \A u \in Udids : Holder(u) = None
    BY DEF Init, Holder
  <1>3. \A u \in Udids : Line(u) = <<>>
    BY KeepEmpty DEF Init, Line
  <1> QED
    BY <1>1, <1>2, <1>3, InitLeases DEF Inv, LeaseInv, Lease!LeaseInit

(* The coordinator, with its promise chains, implements the abstract       *)
(* lease: every step grants the free lease to the first in line, takes a   *)
(* place at the end, leaves the line without moving anybody else, releases *)
(* the lease, or is none of a claimant's business.  A caller that stops    *)
(* waiting for a job it nested gives the lease up like any other.          *)
THEOREM LeaseRefinement == Spec => ImplementsLease
  <1>1. LeaseInv /\ Chained /\ [Next]_vars => LeaseInv' /\ Chained'
    BY NextKeepsLeases, NextChains
  <1> QED
    BY <1>1, LeaseStart, LeaseSteps, PTL DEF Spec, ImplementsLease, Lease!LeaseSpec
=============================================================================
