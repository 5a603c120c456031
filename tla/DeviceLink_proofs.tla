-------------------------- MODULE DeviceLink_proofs --------------------------
(***************************************************************************)
(* For any number of connections, actions and snapshots: the safety        *)
(* properties of DeviceLink, from one inductive invariant.                 *)
(***************************************************************************)
EXTENDS DeviceLink, FiniteSetTheorems, TLAPS

(* What is in a list of messages. *)
IsResult(m) == m.type = "action-result"
NoResult(q) == \A i \in 1..Len(q) : ~IsResult(q[i])
OneResult(q, id) ==
    \E k \in 1..Len(q) : /\ IsResult(q[k]) /\ q[k].id = id
                         /\ \A i \in 1..Len(q) : IsResult(q[i]) => i = k

(* The client has nothing to do, or one action, and nothing else.          *)
Idle == queue = <<>> /\ active = None /\ results = <<>>
Waits(a) == Len(queue) = 1 /\ queue[1].action = a /\ active = None /\ results = <<>>
Runs(a) == queue = <<>> /\ active = a /\ results = <<>>
Reports(a) == queue = <<>> /\ active = None /\ Len(results) = 1 /\ results[1].id = a.id

(* Nothing is on its way over connection c, or a alone is.                 *)
Quiet(c) == down[c] = <<>> /\ (socket = c => Idle) /\ NoResult(up[c])
Carries(c, a) ==
    \/ Len(down[c]) = 1 /\ down[c][1] = a /\ Idle /\ NoResult(up[c])
    \/ down[c] = <<>> /\ NoResult(up[c]) /\ (Waits(a) \/ Runs(a) \/ Reports(a))
    \/ down[c] = <<>> /\ Idle /\ OneResult(up[c], a.id)

-----------------------------------------------------------------------------
(* The inductive invariant.                                                *)

(* Connections are opened in order, at both ends at once; the client has   *)
(* the one whose end it has not closed, and does nothing without one.      *)
EndsMatch ==
    /\ \A c \in Conns : appEnd[c] = "unused" =>
          brokerEnd[c] = "unused" /\ up[c] = <<>> /\ down[c] = <<>>
    /\ \A c \in Conns : appEnd[c] \in {"open", "closing"} <=> socket = c
    /\ \A b, c \in Conns : b < c /\ appEnd[c] # "unused" => appEnd[b] # "unused"
    /\ \A c \in Conns : IsCurrent(c) => brokerEnd[c] \in {"open", "closing"}
    /\ socket = None => Idle

(* One action pends at most, on a connected device.                        *)
OnePends ==
    /\ \A p, q \in pending : p = q
    /\ PendingIsOnline

(* A success that is known is one of an action the app completed, and the  *)
(* client that reported it remembers it.                                   *)
Remembered ==
    /\ \A id \in Ids : processed[id] # None /\ processed[id].ok =>
          [id |-> id, body |-> processed[id].body] \in done
    /\ \A r \in answers : /\ appEnd[r[2]] # "unused"
                          /\ r[2] >= firstConn => processed[r[1].id] # None
    /\ AnswersAreTrue

(* Of the pending action, if m says that it succeeded.                     *)
Truthful(c, m) ==
    IsResult(m) /\ m.ok =>
        \A p \in pending : /\ p.action \in done
                           /\ c >= firstConn => processed[p.action.id] # None

(* On a connection the broker reads: before its hello nothing is on its    *)
(* way, and then the pending action is, unless the app is gone.            *)
Heard(c) ==
    /\ pending = {} => NoResult(up[c])
    /\ \A p \in pending : NoResult(up[c]) \/ OneResult(up[c], p.action.id)
    /\ \A i \in 1..Len(up[c]) : Truthful(c, up[c][i])
Live(c) ==
    /\ pending = {} => Quiet(c)
    /\ \A p \in pending : Carries(c, p.action)
    /\ \A i \in 1..Len(results) : Truthful(c, results[i])
CarriedAt(c) ==
    brokerEnd[c] = "open" =>
        /\ ~IsCurrent(c) => Quiet(c)
        /\ IsCurrent(c) => Heard(c)
        /\ IsCurrent(c) /\ appEnd[c] = "open" => Live(c)
Carried == \A c \in Conns : CarriedAt(c)

(* Snapshots are numbered in order, above what the session has seen.       *)
IsSnapshot(m) == m.type = "snapshot"
InOrder(q) ==
    \A i, j \in 1..Len(q) : i < j /\ IsSnapshot(q[i]) /\ IsSnapshot(q[j]) =>
                               q[i].sequence < q[j].sequence
Above(q, n) == \A i \in 1..Len(q) : IsSnapshot(q[i]) => n < q[i].sequence
UpTo(q, n) == \A i \in 1..Len(q) : IsSnapshot(q[i]) => q[i].sequence <= n

Numbered ==
    \A c \in Conns :
        /\ InOrder(up[c])
        /\ socket = c => UpTo(up[c], sequence)
        /\ IsCurrent(c) /\ brokerEnd[c] = "open" =>
              /\ Above(up[c], session.sequence)
              /\ socket = c => session.sequence <= sequence

IInv ==
    /\ TypeOK /\ EndsMatch /\ OnePends /\ Remembered /\ Carried /\ OnlyCurrentIsRead /\ Numbered

-----------------------------------------------------------------------------
(* Lists: what taking the first and adding a last message does.            *)
LEMMA AppendIs ==
    ASSUME NEW S, NEW q \in Seq(S), NEW e \in S
    PROVE  /\ Append(q, e) \in Seq(S) /\ Len(Append(q, e)) = Len(q) + 1
           /\ \A j \in 1..Len(q) : Append(q, e)[j] = q[j]
           /\ Append(q, e)[Len(q) + 1] = e
  OBVIOUS

LEMMA TailIs ==
    ASSUME NEW S, NEW q \in Seq(S), q # <<>>
    PROVE  /\ Tail(q) \in Seq(S) /\ Len(q) \in Nat \ {0} /\ Len(Tail(q)) = Len(q) - 1
           /\ Head(q) = q[1] /\ q[1] \in S
           /\ \A j \in 1..Len(Tail(q)) : j + 1 \in 2..Len(q) /\ Tail(q)[j] = q[j + 1]
  OBVIOUS

LEMMA EmptyIs ==
    ASSUME NEW S, NEW q \in Seq(S)
    PROVE  (q = <<>> <=> Len(q) = 0) /\ (Len(q) \in Nat)
  OBVIOUS

LEMMA TailOfOne ==
    ASSUME NEW S, NEW q \in Seq(S), Len(q) = 1
    PROVE  Tail(q) = <<>>
  <1>1. q # <<>>
    BY EmptyIs
  <1>2. Tail(q) \in Seq(S) /\ Len(Tail(q)) = 0
    BY <1>1, TailIs
  <1> QED
    BY <1>2, EmptyIs

LEMMA ResultAdded ==
    ASSUME NEW S, NEW q \in Seq(S), NEW m \in S, NoResult(q)
    PROVE  /\ ~IsResult(m) => NoResult(Append(q, m))
           /\ IsResult(m) => OneResult(Append(q, m), m.id)
  <1> DEFINE t == Append(q, m)
  <1>1. /\ Len(t) = Len(q) + 1 /\ Len(q) \in Nat /\ t[Len(q) + 1] = m
        /\ \A j \in 1..Len(q) : t[j] = q[j]
    BY AppendIs, EmptyIs
  <1>2. \A j \in 1..Len(t) : j = Len(q) + 1 \/ ~IsResult(t[j])
    BY <1>1 DEF NoResult
  <1> HIDE DEF t
  <1>3. Len(q) + 1 \in 1..Len(t)
    BY <1>1
  <1>4. ~IsResult(m) => NoResult(t)
    BY <1>1, <1>2 DEF NoResult
  <1>5. IsResult(m) => OneResult(t, m.id)
    BY <1>1, <1>2, <1>3 DEF OneResult
  <1> QED
    BY <1>4, <1>5 DEF t

LEMMA OtherAdded ==
    ASSUME NEW S, NEW q \in Seq(S), NEW m \in S, ~IsResult(m), NEW id, OneResult(q, id)
    PROVE  OneResult(Append(q, m), id)
  <1> DEFINE t == Append(q, m)
  <1>1. /\ Len(t) = Len(q) + 1 /\ Len(q) \in Nat /\ t[Len(q) + 1] = m
        /\ \A j \in 1..Len(q) : t[j] = q[j]
    BY AppendIs, EmptyIs
  <1> HIDE DEF t
  <1>2. PICK k \in 1..Len(q) : /\ IsResult(q[k]) /\ q[k].id = id
                               /\ \A i \in 1..Len(q) : IsResult(q[i]) => i = k
    BY DEF OneResult
  <1>3. k \in 1..Len(t) /\ \A j \in 1..Len(t) : j \in 1..Len(q) \/ j = Len(q) + 1
    BY <1>1
  <1>4. \A j \in 1..Len(t) : IsResult(t[j]) => j = k
    BY <1>1, <1>2, <1>3
  <1>5. OneResult(t, id)
    BY <1>1, <1>2, <1>3, <1>4 DEF OneResult
  <1> QED
    BY <1>5 DEF t

LEMMA ResultsLeft ==
    ASSUME NEW S, NEW q \in Seq(S), q # <<>>
    PROVE  /\ NoResult(q) => NoResult(Tail(q))
           /\ \A id : OneResult(q, id) =>
                 IF IsResult(Head(q)) THEN Head(q).id = id /\ NoResult(Tail(q))
                                      ELSE OneResult(Tail(q), id)
  <1> DEFINE t == Tail(q)
  <1>1. /\ Len(q) \in Nat \ {0} /\ Len(t) = Len(q) - 1 /\ Head(q) = q[1]
        /\ \A j \in 1..Len(t) : j + 1 \in 2..Len(q) /\ t[j] = q[j + 1]
    BY TailIs
  <1> HIDE DEF t
  <1>2. \A j \in 1..Len(t) : j + 1 \in 1..Len(q) /\ j + 1 # 1
    BY <1>1
  <1>3. NoResult(q) => NoResult(t)
    BY <1>1, <1>2 DEF NoResult
  <1>4. ASSUME NEW id, OneResult(q, id)
        PROVE  IF IsResult(Head(q)) THEN Head(q).id = id /\ NoResult(t) ELSE OneResult(t, id)
    <2>1. PICK k \in 1..Len(q) : /\ IsResult(q[k]) /\ q[k].id = id
                                 /\ \A i \in 1..Len(q) : IsResult(q[i]) => i = k
      BY <1>4 DEF OneResult
    <2>2. CASE IsResult(q[1])
      <3>1. k = 1
        BY <1>1, <2>1, <2>2
      <3>2. NoResult(t)
        BY <1>1, <1>2, <2>1, <3>1 DEF NoResult
      <3> QED
        BY <1>1, <2>1, <2>2, <3>1, <3>2
    <2>3. CASE ~IsResult(q[1])
      <3>1. k # 1 /\ k - 1 \in 1..Len(t) /\ t[k - 1] = q[k]
        BY <1>1, <2>1, <2>3
      <3>2. \A j \in 1..Len(t) : IsResult(t[j]) => j + 1 = k
        BY <1>1, <1>2, <2>1
      <3>3. \A j \in 1..Len(t) : j + 1 = k => j = k - 1
        BY <1>1
      <3>4. OneResult(t, id)
        BY <2>1, <3>1, <3>2, <3>3 DEF OneResult
      <3> QED
        BY <1>1, <2>3, <3>4
    <2> QED
      BY <2>2, <2>3
  <1> QED
    BY <1>3, <1>4 DEF t

-----------------------------------------------------------------------------
(* Types. *)
LEMMA Constants ==
    /\ MaxPending \in Nat /\ MaxConns \in Nat /\ MaxDispatches \in Nat /\ MaxSequence \in Nat
    /\ None \notin Conns /\ None \notin Owners
  BY LinkAssumption DEF Conns

LEMMA MessagesAre ==
    /\ Hello \in Messages /\ ~IsResult(Hello) /\ Hello.type = "hello"
    /\ \A n \in 1..MaxSequence :
          /\ Snapshot(n) \in Messages /\ ~IsResult(Snapshot(n))
          /\ Snapshot(n).type = "snapshot" /\ Snapshot(n).sequence = n
    /\ \A id \in Ids, ok \in BOOLEAN :
          /\ Result(id, ok) \in Messages /\ IsResult(Result(id, ok))
          /\ Result(id, ok).type = "action-result"
          /\ Result(id, ok).id = id /\ Result(id, ok).ok = ok
    /\ \A m \in Messages :
          /\ m.type \in {"hello", "snapshot", "action-result"}
          /\ m.type = "hello" => m = Hello
          /\ m.type = "snapshot" => m.sequence \in 1..MaxSequence
          /\ IsResult(m) => m.id \in Ids /\ m.ok \in BOOLEAN
  <1>1. Hello \in Messages /\ ~IsResult(Hello) /\ Hello.type = "hello"
    BY DEF Messages, Hello, IsResult
  <1>2. \A n \in 1..MaxSequence :
          /\ Snapshot(n) \in Messages /\ ~IsResult(Snapshot(n))
          /\ Snapshot(n).type = "snapshot" /\ Snapshot(n).sequence = n
    BY DEF Messages, Snapshot, IsResult
  <1>3. \A id \in Ids, ok \in BOOLEAN :
          /\ Result(id, ok) \in Messages /\ IsResult(Result(id, ok))
          /\ Result(id, ok).type = "action-result"
          /\ Result(id, ok).id = id /\ Result(id, ok).ok = ok
    BY DEF Messages, Result, IsResult
  <1>4. ASSUME NEW m \in Messages
        PROVE  /\ m.type \in {"hello", "snapshot", "action-result"}
               /\ m.type = "hello" => m = Hello
               /\ m.type = "snapshot" => m.sequence \in 1..MaxSequence
               /\ IsResult(m) => m.id \in Ids /\ m.ok \in BOOLEAN
    <2>1. CASE m = Hello
      BY <1>1, <2>1
    <2>2. CASE \E n \in 1..MaxSequence : m = Snapshot(n)
      BY <1>2, <2>2
    <2>3. CASE \E id \in Ids, ok \in BOOLEAN : m = Result(id, ok)
      BY <1>3, <2>3
    <2> QED
      BY <2>1, <2>2, <2>3 DEF Messages
  <1> QED
    BY <1>1, <1>2, <1>3, <1>4

Outbox == [type : {"action-result"}, id : Ids, ok : BOOLEAN]
Entries == [action : Actions, owner : Owners]
Pendings == [action : Actions, timedOut : BOOLEAN]

LEMMA RecordsAre ==
    /\ \A id \in Ids, ok \in BOOLEAN : Result(id, ok) \in Outbox
    /\ \A m \in Outbox : m \in Messages /\ IsResult(m) /\ m.id \in Ids /\ m.ok \in BOOLEAN
    /\ \A a \in Actions : a.id \in Ids /\ a.body \in Bodies /\ a # None
    /\ \A a \in Actions, b \in Actions : a.id = b.id /\ a.body = b.body => a = b
    /\ \A e \in Entries : e.action \in Actions /\ e.owner \in Owners
    /\ \A a \in Actions, o \in Owners : Queued(a, o) \in Entries /\ Queued(a, o).action = a
                                        /\ Queued(a, o).owner = o
    /\ \A p \in Pendings : p.action \in Actions /\ p.timedOut \in BOOLEAN
    /\ \A a \in Actions, t \in BOOLEAN : Pending(a, t) \in Pendings /\ Pending(a, t).action = a
    /\ \A s \in Sessions : s # None
    /\ \A o \in Outcomes : o # None
  <1>1. \A id \in Ids, ok \in BOOLEAN : Result(id, ok) \in Outbox
    BY DEF Result, Outbox
  <1>2. \A m \in Outbox : /\ m.id \in Ids /\ m.ok \in BOOLEAN /\ m.type = "action-result"
                          /\ m = Result(m.id, m.ok)
    BY DEF Outbox, Result
  <1>3. \A m \in Outbox : m \in Messages
    BY <1>2, MessagesAre
  <1>4. \A a \in Actions : a.id \in Ids /\ a.body \in Bodies /\ a # None
    BY NoneAssumption DEF Actions
  <1>5. \A a \in Actions, b \in Actions : a.id = b.id /\ a.body = b.body => a = b
    BY DEF Actions
  <1>6. \A e \in Entries : e.action \in Actions /\ e.owner \in Owners
    BY DEF Entries
  <1>7. \A a \in Actions, o \in Owners : Queued(a, o) \in Entries /\ Queued(a, o).action = a
                                         /\ Queued(a, o).owner = o
    BY DEF Queued, Entries
  <1>8. \A p \in Pendings : p.action \in Actions /\ p.timedOut \in BOOLEAN
    BY DEF Pendings
  <1>9. \A a \in Actions, t \in BOOLEAN : Pending(a, t) \in Pendings /\ Pending(a, t).action = a
    BY DEF Pending, Pendings
  <1>10. (\A s \in Sessions : s # None) /\ \A o \in Outcomes : o # None
    BY NoneAssumption
  <1> QED
    BY <1>1, <1>2, <1>3, <1>4, <1>5, <1>6, <1>7, <1>8, <1>9, <1>10 DEF IsResult

LEMMA InitIInv == Init => IInv
  <1> SUFFICES ASSUME Init PROVE IInv
    OBVIOUS
  <1> USE Constants DEF Init
  <1>1. TypeOK
    BY DEF TypeOK, Sessions, Ends, Conns
  <1>2. EndsMatch /\ OnePends
    BY DEF EndsMatch, Conns, IsCurrent, Idle, OnePends, PendingIsOnline
  <1>3. Remembered
    BY DEF Remembered, AnswersAreTrue
  <1>4. Carried /\ OnlyCurrentIsRead
    BY DEF Carried, CarriedAt, OnlyCurrentIsRead
  <1>5. Numbered
    BY DEF Numbered, IsCurrent, InOrder, UpTo
  <1> QED
    BY <1>1, <1>2, <1>3, <1>4, <1>5 DEF IInv

LEMMA TypeOKKept ==
    ASSUME TypeOK, [Next]_vars
    PROVE  TypeOK'
  <1> USE Constants
  <1>1. ASSUME NEW c \in Conns, Connect(c)
        PROVE  TypeOK'
    <2>1. <<Hello>> \in Seq(Messages)
      BY MessagesAre
    <2> QED
      BY <1>1, <2>1 DEF Connect, TypeOK, Ends, brokerVars, appVars
  <1>2. CASE OnMessage
    <2>1. socket \in Conns /\ down[socket] \in Seq(Actions) /\ up[socket] \in Seq(Messages)
      BY <1>2 DEF OnMessage, Connected, TypeOK
    <2>2. Head(down[socket]) \in Actions /\ Tail(down[socket]) \in Seq(Actions)
      BY <1>2, <2>1, TailIs DEF OnMessage
    <2>3. down' \in [Conns -> Seq(Actions)]
      BY <1>2, <2>1, <2>2 DEF OnMessage, TypeOK
    <2>4. CASE Refuse(Head(down[socket]))
      <3>1. Result(Head(down[socket]).id, FALSE) \in Messages
        BY <2>2, RecordsAre, MessagesAre
      <3>2. Append(up[socket], Result(Head(down[socket]).id, FALSE)) \in Seq(Messages)
        BY <2>1, <3>1, AppendIs
      <3>3. up' \in [Conns -> Seq(Messages)] /\ appEnd' \in [Conns -> Ends] /\ queue' = queue
        BY <2>1, <2>4, <3>2 DEF Refuse, Send, TypeOK, Ends
      <3> QED
        BY <1>2, <2>3, <3>3 DEF OnMessage, TypeOK, brokerVars, appVars
    <2>5. CASE Admit(Head(down[socket]))
      <3>1. owner \in Owners
        BY <2>5 DEF Admit, TypeOK
      <3>2. queue' \in Seq(Entries)
        BY <2>2, <2>5, <3>1, RecordsAre, AppendIs DEF Admit, TypeOK, Entries
      <3> QED
        BY <1>2, <2>3, <2>5, <3>2 DEF OnMessage, Admit, TypeOK, brokerVars, appVars, Entries
    <2> QED
      BY <1>2, <2>4, <2>5 DEF OnMessage
  <1>3. CASE HandleAction
    <2>0. queue # <<>> /\ queue' = Tail(queue) /\ queue \in Seq(Entries)
      BY <1>3, Zenon DEF HandleAction, TypeOK, Entries
    <2>1. Head(queue) \in Entries /\ queue' \in Seq(Entries)
      BY <2>0, TailIs
    <2>2. Head(queue).action \in Actions
      BY <2>1, RecordsAre
    <2>3. active' \in Actions \cup {None}
      BY <1>3, <2>2 DEF HandleAction, TypeOK
    <2>4. (Authorized(Head(queue)) /\ Replayed(Head(queue).action)) \in BOOLEAN
      OBVIOUS
    <2>5. results' \in Seq(Outbox)
      <3>1. Result(Head(queue).action.id, Authorized(Head(queue)) /\ Replayed(Head(queue).action))
               \in Outbox
        BY <2>2, <2>4, RecordsAre
      <3>2. results \in Seq(Outbox)
        BY DEF TypeOK, Outbox
      <3>3. UNCHANGED results
            \/ results' = Append(results, Result(Head(queue).action.id,
                                     Authorized(Head(queue)) /\ Replayed(Head(queue).action)))
        BY <1>3, Zenon DEF HandleAction
      <3> QED
        BY ONLY <3>1, <3>2, <3>3, AppendIs
    <2> QED
      BY <1>3, <2>1, <2>3, <2>5
         DEF HandleAction, TypeOK, brokerVars, linkVars, appVars, Entries, Outbox
  <1>4. ASSUME NEW ok \in BOOLEAN, Settle(ok)
        PROVE  /\ active \in Actions
               /\ active' = None
               /\ processed' \in [Ids -> Outcomes \cup {None}]
               /\ results' \in Seq(Outbox)
               /\ UNCHANGED <<brokerVars, linkVars, firstConn, socket, sequence, queue, owner>>
    <2>1. active \in Actions
      BY <1>4 DEF Settle, TypeOK
    <2>2. active.id \in Ids /\ [body |-> active.body, ok |-> ok] \in Outcomes
      BY <2>1, RecordsAre DEF Outcomes
    <2>3. results \in Seq(Outbox) /\ Result(active.id, ok) \in Outbox
      BY <2>2, RecordsAre DEF TypeOK, Outbox
    <2>4. results' \in Seq(Outbox)
      BY <1>4, <2>3, AppendIs DEF Settle
    <2> QED
      BY <1>4, <2>1, <2>2, <2>4 DEF Settle, TypeOK
  <1>5. CASE HostCompletes \/ HostRejects \/ HostTimesOut
    <2>1. PICK ok \in BOOLEAN : Settle(ok)
      BY <1>5 DEF HostCompletes, HostRejects, HostTimesOut
    <2>2. adrift' \subseteq Actions /\ done' \subseteq Actions
      BY <1>4, <1>5, <2>1 DEF HostCompletes, HostRejects, HostTimesOut, TypeOK
    <2> QED
      BY <1>4, <2>1, <2>2 DEF TypeOK, brokerVars, linkVars, Outbox
  <1>6. ASSUME NEW a \in Actions, AdriftCompletes(a)
        PROVE  TypeOK'
    BY <1>6 DEF AdriftCompletes, TypeOK, brokerVars, linkVars, clientVars
  <1>7. CASE SendResult \/ SendSnapshot
    <2>1. socket \in Conns /\ up[socket] \in Seq(Messages)
      BY <1>7 DEF SendResult, SendSnapshot, Connected, TypeOK
    <2>2. \A m \in Messages : Send(m) => up' \in [Conns -> Seq(Messages)]
      BY <2>1, AppendIs DEF Send, TypeOK
    <2>3. CASE SendResult
      <3>1. results \in Seq(Outbox) /\ results # <<>>
        BY <2>3 DEF SendResult, TypeOK, Outbox
      <3>2. Head(results) \in Messages /\ results' \in Seq(Outbox)
        BY <2>3, <3>1, TailIs, RecordsAre DEF SendResult
      <3> QED
        BY <2>2, <2>3, <3>2 DEF SendResult, TypeOK, brokerVars, appVars, Outbox
    <2>4. CASE SendSnapshot
      <3>1. sequence + 1 \in 1..MaxSequence
        BY <2>4 DEF SendSnapshot, TypeOK
      <3>2. up' \in [Conns -> Seq(Messages)]
        BY <2>2, <2>4, <3>1, MessagesAre DEF SendSnapshot
      <3> QED
        BY <2>4, <3>1, <3>2 DEF SendSnapshot, TypeOK, brokerVars, appVars
    <2> QED
      BY <1>7, <2>3, <2>4
  <1>8. CASE OnClose \/ RestartClient
    <2>1. Detach /\ GivenUp \subseteq Actions
      BY <1>8 DEF OnClose, RestartClient, GivenUp, TypeOK
    <2>2. appEnd' \in [Conns -> Ends] /\ down' \in [Conns -> Seq(Actions)]
      BY <2>1 DEF Detach, TypeOK, Ends
    <2>3. /\ socket' = None /\ queue' = <<>> /\ active' = None /\ results' = <<>>
          /\ UNCHANGED <<brokerVars, up, brokerEnd, owner, done>>
      BY <2>1 DEF Detach
    <2>4. CASE OnClose
      BY <2>1, <2>2, <2>3, <2>4 DEF OnClose, TypeOK, brokerVars
    <2>5. CASE RestartClient
      <3> DEFINE Used == {c \in Conns : appEnd[c] # "unused"}
      <3>1. IsFiniteSet(Conns) /\ Cardinality(Conns) = MaxConns
        <4>1. IsFiniteSet(1..MaxConns) /\ Cardinality(1..MaxConns) = IF 1 > MaxConns THEN 0 ELSE MaxConns - 1 + 1
          BY FS_Interval
        <4> QED
          BY <4>1 DEF Conns
      <3>2. Cardinality(Used) \in Nat /\ Cardinality(Used) <= MaxConns
        <4>1. Used \subseteq Conns
          OBVIOUS
        <4>2. IsFiniteSet(Used) /\ Cardinality(Used) <= Cardinality(Conns)
          BY <3>1, <4>1, FS_Subset
        <4>3. Cardinality(Used) \in Nat
          BY <4>2, FS_CardinalityType
        <4> QED
          BY <3>1, <4>2, <4>3
      <3>3. firstConn' = Cardinality(Used) + 1
        BY <2>5 DEF RestartClient
      <3> HIDE DEF Used
      <3>4. firstConn' \in 1..(MaxConns + 1)
        BY <3>2, <3>3
      <3>5. adrift' \subseteq Actions /\ sequence' = 0 /\ processed' = [id \in Ids |-> None]
        BY <2>1, <2>5 DEF RestartClient
      <3> QED
        BY <2>2, <2>3, <3>4, <3>5 DEF TypeOK, brokerVars
    <2> QED
      BY <1>8, <2>4, <2>5
  <1>9. ASSUME NEW c \in Conns, NEW type, Read(c, type)
        PROVE  /\ Message(c) \in Messages /\ up' \in [Conns -> Seq(Messages)]
               /\ Message(c).type = type
               /\ UNCHANGED <<down, appEnd, dispatched, clientVars, appVars>>
    <2>1. up[c] \in Seq(Messages) /\ up[c] # <<>>
      BY <1>9 DEF Read, TypeOK
    <2>2. Head(up[c]) \in Messages /\ Tail(up[c]) \in Seq(Messages)
      BY <2>1, TailIs
    <2> QED
      BY <1>9, <2>2 DEF Read, Message, TypeOK
  <1>10. ASSUME NEW c \in Conns, ReadHello(c)
         PROVE  TypeOK'
    <2>1. /\ up' \in [Conns -> Seq(Messages)]
          /\ UNCHANGED <<down, appEnd, dispatched, clientVars, appVars>>
      BY <1>9, <1>10 DEF ReadHello
    <2>2. session' \in Sessions /\ answers' = answers
      BY <1>10 DEF ReadHello, Register, Session, Sessions, NoTools
    <2>3. pending' \subseteq Pendings /\ brokerEnd' \in [Conns -> Ends]
      BY <1>10 DEF ReadHello, Register, TypeOK, Pendings, Ends
    <2> QED
      BY <2>1, <2>2, <2>3 DEF TypeOK, clientVars, appVars, Pendings
  <1>11. ASSUME NEW c \in Conns, ReadSnapshot(c)
         PROVE  TypeOK'
    <2>1. /\ up' \in [Conns -> Seq(Messages)] /\ Message(c).sequence \in 1..MaxSequence
          /\ UNCHANGED <<down, appEnd, dispatched, clientVars, appVars>>
      BY <1>9, <1>11, MessagesAre DEF ReadSnapshot
    <2>2. session \in Sessions
      BY <1>11 DEF ReadSnapshot, IsCurrent, TypeOK
    <2>3. session' \in Sessions
      BY <1>11, <2>1, <2>2 DEF ReadSnapshot, Session, Sessions
    <2> QED
      BY <1>11, <2>1, <2>3 DEF ReadSnapshot, TypeOK, clientVars, appVars
  <1>12. ASSUME NEW c \in Conns, ReadResult(c)
         PROVE  TypeOK'
    <2>1. /\ up' \in [Conns -> Seq(Messages)]
          /\ UNCHANGED <<down, appEnd, dispatched, clientVars, appVars>>
      BY <1>9, <1>12 DEF ReadResult
    <2>2. pending \subseteq Pendings
      BY DEF TypeOK, Pendings
    <2>3. pending' \subseteq Pendings /\ answers' \subseteq Actions \X Conns
      BY <1>12, <2>2, RecordsAre DEF ReadResult, TypeOK
    <2> QED
      BY <1>12, <2>1, <2>3 DEF ReadResult, TypeOK, clientVars, appVars, Pendings
  <1>13. ASSUME NEW c \in Conns, CloseConnection(c)
         PROVE  TypeOK'
    BY <1>13 DEF CloseConnection, TypeOK, Ends, brokerVars, clientVars, appVars
  <1>14. ASSUME NEW c \in Conns, ConnectionClosed(c)
         PROVE  TypeOK'
    <2>1. session' \in Sessions \cup {None} /\ pending' \subseteq Pendings
      BY <1>14 DEF ConnectionClosed, IsCurrent, TypeOK, Sessions, Pendings
    <2>2. up' \in [Conns -> Seq(Messages)] /\ brokerEnd' \in [Conns -> Ends]
      BY <1>14 DEF ConnectionClosed, TypeOK, Ends
    <2>3. UNCHANGED <<dispatched, answers, down, appEnd, clientVars, appVars>>
      BY <1>14 DEF ConnectionClosed
    <2> QED
      BY <2>1, <2>2, <2>3 DEF TypeOK, clientVars, appVars, Pendings
  <1>15. CASE DeleteSession \/ OwnerChanges
    BY <1>15 DEF DeleteSession, OwnerChanges, TypeOK, brokerVars, linkVars, clientVars, appVars
  <1>16. ASSUME NEW a \in Actions, Dispatch(a)
         PROVE  TypeOK'
    <2>1. Online \in Conns
      BY <1>16 DEF Dispatch, Online, TypeOK, Sessions
    <2>2. Append(down[Online], a) \in Seq(Actions)
      BY <2>1, AppendIs DEF TypeOK
    <2>3. down' \in [Conns -> Seq(Actions)]
      BY <1>16, <2>1, <2>2 DEF Dispatch, TypeOK
    <2>4. pending' \subseteq Pendings
      BY <1>16, RecordsAre DEF Dispatch
    <2>5. /\ dispatched' \in 0..MaxDispatches
          /\ UNCHANGED <<session, answers, up, appEnd, brokerEnd, clientVars, appVars>>
      BY <1>16 DEF Dispatch, TypeOK
    <2> QED
      BY <2>3, <2>4, <2>5 DEF TypeOK, clientVars, appVars, Pendings
  <1>17. ASSUME NEW p \in pending, ActionTimesOut(p) \/ SendFails(p)
         PROVE  TypeOK'
    <2>1. p \in Pendings /\ pending \subseteq Pendings
      BY DEF TypeOK, Pendings
    <2>2. Pending(p.action, TRUE) \in Pendings
      BY <2>1, RecordsAre
    <2>3. pending' \subseteq pending \cup {Pending(p.action, TRUE)}
      BY <1>17 DEF ActionTimesOut, SendFails, Overdue
    <2>4. pending' \subseteq Pendings
      BY <2>1, <2>2, <2>3
    <2> QED
      BY <1>17, <2>4 DEF ActionTimesOut, SendFails, TypeOK, linkVars, clientVars, appVars, Pendings
  <1>18. CASE UNCHANGED vars
    BY <1>18 DEF vars, TypeOK, brokerVars, linkVars, clientVars, appVars
  <1> QED
    BY <1>1, <1>2, <1>3, <1>5, <1>6, <1>7, <1>8, <1>10, <1>11, <1>12, <1>13, <1>14, <1>15,
       <1>16, <1>17, <1>18 DEF Next, Client, Broker

-----------------------------------------------------------------------------
(* What the steps of the client that need a connection do, Boolean parts   *)
(* of messages apart.                                                      *)
LEMMA HandleActionIs ==
    ASSUME TypeOK, HandleAction
    PROVE  /\ socket \in Conns /\ appEnd[socket] = "open"
           /\ queue \in Seq(Entries) /\ queue # <<>> /\ active = None /\ queue' = Tail(queue)
           /\ Head(queue) = queue[1] /\ queue[1].action \in Actions
           /\ \/ /\ processed[queue[1].action.id] = None
                 /\ active' = queue[1].action /\ results' = results
              \/ /\ active' = None
                 /\ \E ok \in BOOLEAN :
                       /\ ok => Replayed(queue[1].action)
                       /\ results' = Append(results, Result(queue[1].action.id, ok))
           /\ UNCHANGED <<brokerVars, linkVars, firstConn, socket, sequence, processed, appVars>>
  <1>1. Connected /\ queue # <<>> /\ active = None /\ queue' = Tail(queue)
    BY Zenon DEF HandleAction
  <1>2. socket \in Conns /\ appEnd[socket] = "open"
    BY <1>1 DEF Connected, TypeOK
  <1>3. queue \in Seq(Entries)
    BY DEF TypeOK, Entries
  <1>4. Head(queue) = queue[1] /\ queue[1] \in Entries
    BY <1>1, <1>3, TailIs
  <1>5. queue[1].action \in Actions
    BY <1>4, RecordsAre
  <1>6. UNCHANGED <<brokerVars, linkVars, firstConn, socket, sequence, processed, appVars>>
    BY Zenon DEF HandleAction
  <1> DEFINE e == Head(queue)
             ok == Authorized(e) /\ Replayed(e.action)
  <1>7. \/ processed[e.action.id] = None /\ active' = e.action /\ results' = results
        \/ results' = Append(results, Result(e.action.id, ok)) /\ active' = active
    BY Zenon DEF HandleAction
  <1>8. ok \in BOOLEAN /\ (ok => Replayed(e.action))
    OBVIOUS
  <1> HIDE DEF e, ok
  <1>9. \/ /\ processed[e.action.id] = None
           /\ active' = e.action /\ results' = results
        \/ /\ active' = None
           /\ \E k \in BOOLEAN : /\ k => Replayed(e.action)
                                 /\ results' = Append(results, Result(e.action.id, k))
    BY <1>1, <1>7, <1>8, Zenon
  <1>10. e = queue[1]
    BY <1>4 DEF e
  <1> QED
    BY <1>1, <1>2, <1>3, <1>4, <1>5, <1>6, <1>9, <1>10, Zenon

LEMMA OnMessageIs ==
    ASSUME TypeOK, OnMessage
    PROVE  /\ socket \in Conns /\ appEnd[socket] = "open"
           /\ down[socket] \in Seq(Actions) /\ down[socket] # <<>>
           /\ down[socket][1] \in Actions
           /\ down' = [down EXCEPT ![socket] = Tail(down[socket])]
           /\ \/ /\ up' = [up EXCEPT ![socket] = Append(up[socket], Result(down[socket][1].id, FALSE))]
                 /\ appEnd' = [appEnd EXCEPT ![socket] = "closing"]
                 /\ queue' = queue
              \/ /\ \E o \in Owners : queue' = Append(queue, Queued(down[socket][1], o))
                 /\ UNCHANGED <<up, appEnd>>
           /\ UNCHANGED <<brokerVars, brokerEnd, firstConn, socket, sequence, active, results,
                          processed, appVars>>
  <1>1. socket \in Conns /\ appEnd[socket] = "open" /\ down[socket] # <<>>
    BY DEF OnMessage, Connected, TypeOK
  <1>2. down[socket] \in Seq(Actions)
    BY <1>1 DEF TypeOK
  <1>3. Head(down[socket]) = down[socket][1] /\ down[socket][1] \in Actions
    BY <1>1, <1>2, TailIs
  <1>4. CASE Refuse(Head(down[socket]))
    BY <1>1, <1>2, <1>3, <1>4 DEF OnMessage, Refuse, Send
  <1>5. CASE Admit(Head(down[socket]))
    <2>1. owner \in Owners
      BY <1>5 DEF Admit, TypeOK
    <2> QED
      BY <1>1, <1>2, <1>3, <1>5, <2>1 DEF OnMessage, Admit
  <1> QED
    BY <1>4, <1>5 DEF OnMessage

LEMMA SendResultIs ==
    ASSUME TypeOK, SendResult
    PROVE  /\ socket \in Conns /\ appEnd[socket] = "open"
           /\ results \in Seq(Outbox) /\ results # <<>> /\ results' = Tail(results)
           /\ results[1] \in Outbox
           /\ up' = [up EXCEPT ![socket] = Append(up[socket], results[1])]
           /\ UNCHANGED <<brokerVars, down, appEnd, brokerEnd, firstConn, socket,
                          sequence, queue, active, processed, appVars>>
  <1>1. socket \in Conns /\ appEnd[socket] = "open" /\ results \in Seq(Outbox) /\ results # <<>>
    BY DEF SendResult, Connected, TypeOK, Outbox
  <1>2. Head(results) = results[1] /\ results[1] \in Outbox
    BY <1>1, TailIs
  <1> QED
    BY <1>1, <1>2 DEF SendResult, Send

LEMMA SendSnapshotIs ==
    ASSUME TypeOK, SendSnapshot
    PROVE  /\ socket \in Conns /\ appEnd[socket] = "open" /\ results = <<>>
           /\ sequence + 1 \in 1..MaxSequence /\ sequence' = sequence + 1
           /\ up' = [up EXCEPT ![socket] = Append(up[socket], Snapshot(sequence + 1))]
           /\ UNCHANGED <<brokerVars, down, appEnd, brokerEnd, firstConn, socket,
                          queue, active, results, processed, appVars>>
  BY Constants DEF SendSnapshot, Send, Connected, TypeOK

(* The end of an action at the host. *)
Outcome(ok) ==
    /\ active' = None
    /\ processed' = [processed EXCEPT ![active.id] = [body |-> active.body, ok |-> ok]]
    /\ results' = Append(results, Result(active.id, ok))

LEMMA HostIs ==
    ASSUME TypeOK, HostCompletes \/ HostRejects \/ HostTimesOut
    PROVE  /\ active \in Actions
           /\ \E ok \in BOOLEAN : /\ Outcome(ok)
                                  /\ done' = IF ok THEN done \cup {active} ELSE done
           /\ UNCHANGED <<brokerVars, linkVars, firstConn, socket, sequence, queue, owner>>
  <1>1. CASE HostCompletes
    BY <1>1, Zenon DEF HostCompletes, Settle, TypeOK, Outcome
  <1>2. CASE HostRejects \/ HostTimesOut
    BY <1>2, Zenon DEF HostRejects, HostTimesOut, Settle, TypeOK, Outcome
  <1> QED
    BY <1>1, <1>2

LEMMA DetachIs ==
    ASSUME TypeOK, EndsMatch, OnClose \/ RestartClient
    PROVE  /\ socket' = None /\ queue' = <<>> /\ active' = None /\ results' = <<>>
           /\ \A c \in Conns :
                 /\ appEnd'[c] = IF c = socket THEN "closed" ELSE appEnd[c]
                 /\ down'[c] = IF c = socket THEN <<>> ELSE down[c]
           /\ UNCHANGED <<brokerVars, up, brokerEnd, owner, done>>
  BY Constants DEF OnClose, RestartClient, Detach, TypeOK

-----------------------------------------------------------------------------
(* The ends of the connections.                                            *)
LEMMA EndsFrame ==
    ASSUME EndsMatch, UNCHANGED <<appEnd, brokerEnd, socket, session>>,
           \A c \in Conns : appEnd[c] = "unused" => up'[c] = up[c] /\ down'[c] = down[c],
           socket = None => Idle'
    PROVE  EndsMatch'
  BY DEF EndsMatch, IsCurrent

(* What the steps of the broker that read a message do. *)
LEMMA ReadIs ==
    ASSUME TypeOK, NEW c \in Conns, NEW type, Read(c, type)
    PROVE  /\ brokerEnd[c] = "open" /\ up[c] \in Seq(Messages) /\ up[c] # <<>>
           /\ Message(c) = up[c][1] /\ up[c][1] \in Messages /\ up[c][1].type = type
           /\ up' = [up EXCEPT ![c] = Tail(up[c])]
           /\ UNCHANGED <<down, appEnd, dispatched, clientVars, appVars>>
  <1>1. up[c] \in Seq(Messages) /\ up[c] # <<>>
    BY DEF Read, TypeOK
  <1>2. Head(up[c]) = up[c][1] /\ up[c][1] \in Messages
    BY <1>1, TailIs
  <1> QED
    BY <1>1, <1>2 DEF Read, Message

LEMMA RegisterIs ==
    ASSUME TypeOK, OnePends, NEW c \in Conns, Register(c)
    PROVE  /\ session'.conn = c /\ session'.sequence = 0 /\ session' # None /\ session' \in Sessions
           /\ \/ IsCurrent(c) /\ pending' = pending /\ brokerEnd' = brokerEnd
              \/ /\ ~IsCurrent(c) /\ pending' = {}
                 /\ \A b \in Conns : /\ ~IsCurrent(b) => brokerEnd'[b] = brokerEnd[b]
                                     /\ IsCurrent(b) => brokerEnd'[b] # "open"
                                     /\ brokerEnd[b] = "unused" => brokerEnd'[b] = "unused"
  <1>1. session' = Session(c, 0, 0)
    BY DEF Register, NoTools
  <1>2. session' \in Sessions /\ session'.conn = c /\ session'.sequence = 0 /\ session' # None
    BY <1>1, RecordsAre, Constants DEF Session, Sessions
  <1>3. CASE Online = None
    <2>1. pending = {} /\ pending' = {} /\ brokerEnd' = brokerEnd /\ \A b \in Conns : ~IsCurrent(b)
      BY <1>3, Constants DEF OnePends, PendingIsOnline, Register, Online, IsCurrent
    <2> QED
      BY <1>2, <2>1
  <1>4. CASE Online = c
    BY <1>2, <1>4, Constants DEF Register, Online, IsCurrent
  <1>5. CASE Online \notin {None, c}
    <2>1. /\ pending' = {} /\ ~IsCurrent(c) /\ session # None /\ session.conn = Online
          /\ brokerEnd' = [brokerEnd EXCEPT ![Online] =
                                IF @ = "open" THEN "closing" ELSE @]
      BY <1>5 DEF Register, Online, IsCurrent
    <2> QED
      BY <1>2, <2>1 DEF IsCurrent, TypeOK
  <1> QED
    BY <1>3, <1>4, <1>5

LEMMA ReadSnapshotIs ==
    ASSUME TypeOK, NEW c \in Conns, ReadSnapshot(c)
    PROVE  /\ Read(c, "snapshot") /\ IsCurrent(c) /\ IsCurrent(c)'
           /\ up[c][1].sequence \in 1..MaxSequence
           /\ session \in Sessions /\ session' \in Sessions /\ session' # None
           /\ session'.sequence = IF up[c][1].sequence > session.sequence
                                  THEN up[c][1].sequence ELSE session.sequence
           /\ up[c][1].sequence > session.sequence => session'.shown = up[c][1].sequence
           /\ UNCHANGED <<pending, answers, brokerEnd>>
  <1>1. Read(c, "snapshot") /\ IsCurrent(c) /\ UNCHANGED <<pending, answers, brokerEnd>>
    BY DEF ReadSnapshot
  <1>2. Message(c) = up[c][1] /\ up[c][1].sequence \in 1..MaxSequence
    BY <1>1, ReadIs, MessagesAre
  <1>3. session \in Sessions
    BY <1>1, RecordsAre DEF IsCurrent, TypeOK
  <1>4. /\ session' \in Sessions /\ session'.conn = session.conn
        /\ session'.sequence = IF up[c][1].sequence > session.sequence
                               THEN up[c][1].sequence ELSE session.sequence
        /\ (up[c][1].sequence > session.sequence => session'.shown = up[c][1].sequence)
    <2> DEFINE n == up[c][1].sequence
    <2>1. session' = IF n > session.sequence THEN Session(session.conn, n, n) ELSE session
      BY <1>2 DEF ReadSnapshot
    <2>2. n \in 1..MaxSequence
      BY <1>2
    <2> HIDE DEF n
    <2>3. Session(session.conn, n, n) \in Sessions
      BY <1>3, <2>2, Constants DEF Session, Sessions
    <2>4. session' \in Sessions /\ session'.conn = session.conn
          /\ session'.sequence = (IF n > session.sequence THEN n ELSE session.sequence)
          /\ (n > session.sequence => session'.shown = n)
      BY <1>3, <2>1, <2>3 DEF Session
    <2> QED
      BY <2>4 DEF n
  <1>5. session' # None /\ IsCurrent(c)'
    BY <1>1, <1>4, RecordsAre DEF IsCurrent
  <1> QED
    BY <1>1, <1>2, <1>3, <1>4, <1>5

LEMMA EndsMatchKept ==
    ASSUME TypeOK, EndsMatch, OnePends, [Next]_vars
    PROVE  EndsMatch'
  <1> USE Constants
  <1>1. ASSUME NEW c \in Conns, Connect(c)
        PROVE  EndsMatch'
    <2>1. /\ socket = None /\ appEnd[c] = "unused" /\ socket' = c
          /\ \A b \in Conns : b < c => appEnd[b] # "unused"
          /\ appEnd' = [appEnd EXCEPT ![c] = "open"]
          /\ brokerEnd' = [brokerEnd EXCEPT ![c] = "open"]
          /\ up' = [up EXCEPT ![c] = <<Hello>>]
          /\ UNCHANGED <<session, down, queue, active, results>>
      BY <1>1 DEF Connect, brokerVars, Conns
    <2>2. \A b \in Conns : b # c => /\ appEnd'[b] = appEnd[b] /\ brokerEnd'[b] = brokerEnd[b]
                                    /\ up'[b] = up[b] /\ down'[b] = down[b]
      BY <2>1 DEF TypeOK
    <2>3. appEnd'[c] = "open" /\ brokerEnd'[c] = "open"
      BY <2>1 DEF TypeOK
    <2>4. \A a, b \in Conns : a < b /\ appEnd'[b] # "unused" => appEnd'[a] # "unused"
      BY <2>1, <2>2, <2>3 DEF EndsMatch
    <2>5. \A b \in Conns : /\ appEnd'[b] = "unused" => brokerEnd'[b] = "unused" /\ up'[b] = <<>> /\ down'[b] = <<>>
                           /\ appEnd'[b] \in {"open", "closing"} <=> socket' = b
                           /\ IsCurrent(b)' => brokerEnd'[b] \in {"open", "closing"}
      BY <2>1, <2>2, <2>3 DEF EndsMatch, IsCurrent
    <2> QED
      BY <2>1, <2>4, <2>5 DEF EndsMatch
  <1>2. CASE OnMessage
    <2>1. /\ socket \in Conns /\ appEnd[socket] = "open" /\ socket' = socket
          /\ \A c \in Conns : c # socket => appEnd'[c] = appEnd[c] /\ up'[c] = up[c] /\ down'[c] = down[c]
          /\ appEnd'[socket] \in {"open", "closing"}
          /\ UNCHANGED <<session, brokerEnd>>
      BY <1>2, OnMessageIs DEF TypeOK, brokerVars
    <2> QED
      BY <2>1 DEF EndsMatch, IsCurrent
  <1>3. CASE HandleAction
    BY <1>3, HandleActionIs, EndsFrame DEF brokerVars, linkVars
  <1>4. CASE HostCompletes \/ HostRejects \/ HostTimesOut
    <2>1. socket # None
      BY <1>4, HostIs, RecordsAre DEF EndsMatch, Idle
    <2> QED
      BY <1>4, <2>1, HostIs, EndsFrame DEF brokerVars, linkVars
  <1>5. ASSUME NEW a \in Actions, AdriftCompletes(a)
        PROVE  EndsMatch'
    BY <1>5, EndsFrame DEF AdriftCompletes, brokerVars, linkVars, clientVars, EndsMatch, Idle
  <1>6. CASE SendResult \/ SendSnapshot
    <2>1. /\ socket \in Conns /\ appEnd[socket] = "open" /\ socket' = socket
          /\ \A c \in Conns : c # socket => up'[c] = up[c]
          /\ UNCHANGED <<session, brokerEnd, appEnd, down>>
      BY <1>6, SendResultIs, SendSnapshotIs DEF TypeOK, brokerVars
    <2> QED
      BY <2>1, EndsFrame DEF EndsMatch
  <1>7. CASE OnClose \/ RestartClient
    BY <1>7, DetachIs DEF EndsMatch, IsCurrent, Idle, brokerVars
  <1>8. ASSUME NEW c \in Conns, ReadHello(c)
        PROVE  EndsMatch'
    <2>1. Read(c, "hello") /\ Register(c)
      BY <1>8 DEF ReadHello
    <2>2. /\ brokerEnd[c] = "open"
          /\ \A b \in Conns : b # c => up'[b] = up[b]
          /\ UNCHANGED <<down, appEnd, socket, queue, active, results>>
      BY <2>1, ReadIs DEF TypeOK, clientVars
    <2>3. \A b \in Conns : IsCurrent(b)' => b = c
      BY <2>1, RegisterIs DEF IsCurrent
    <2>4. brokerEnd'[c] = "open" /\ \A b \in Conns : brokerEnd[b] = "unused" => brokerEnd'[b] = "unused"
      BY <2>1, <2>2, RegisterIs
    <2> QED
      BY <2>2, <2>3, <2>4 DEF EndsMatch, Idle
  <1>9. ASSUME NEW c \in Conns, ReadSnapshot(c) \/ ReadResult(c)
        PROVE  EndsMatch'
    <2>1. /\ brokerEnd[c] = "open"
          /\ \A b \in Conns : b # c => up'[b] = up[b]
          /\ UNCHANGED <<down, appEnd, socket, queue, active, results>>
      BY <1>9, ReadIs DEF ReadSnapshot, ReadResult, TypeOK, clientVars
    <2>2. brokerEnd' = brokerEnd /\ \A b \in Conns : IsCurrent(b)' => IsCurrent(b)
      BY <1>9 DEF ReadSnapshot, ReadResult, IsCurrent, Session
    <2> QED
      BY <2>1, <2>2 DEF EndsMatch, Idle
  <1>10. ASSUME NEW c \in Conns, CloseConnection(c)
         PROVE  EndsMatch'
    BY <1>10 DEF CloseConnection, TypeOK, EndsMatch, IsCurrent, Idle, brokerVars, clientVars
  <1>11. ASSUME NEW c \in Conns, ConnectionClosed(c)
         PROVE  EndsMatch'
    <2>1. /\ brokerEnd[c] # "unused" /\ UNCHANGED <<down, appEnd, socket, queue, active, results>>
          /\ \A b \in Conns : b # c => up'[b] = up[b] /\ brokerEnd'[b] = brokerEnd[b]
      BY <1>11 DEF ConnectionClosed, TypeOK, clientVars
    <2>2. \A b \in Conns : IsCurrent(b)' => IsCurrent(b) /\ b # c
      BY <1>11 DEF ConnectionClosed, TypeOK, Sessions, IsCurrent
    <2> QED
      BY <2>1, <2>2 DEF EndsMatch, Idle
  <1>12. CASE DeleteSession \/ OwnerChanges
    BY <1>12 DEF DeleteSession, OwnerChanges, EndsMatch, IsCurrent, Idle, brokerVars, linkVars, clientVars
  <1>13. ASSUME NEW a \in Actions, Dispatch(a)
         PROVE  EndsMatch'
    <2>1. /\ Online \in Conns /\ brokerEnd[Online] = "open"
          /\ \A c \in Conns : c # Online => down'[c] = down[c]
          /\ UNCHANGED <<session, up, appEnd, brokerEnd, clientVars>>
      BY <1>13 DEF Dispatch, Online, TypeOK, Sessions
    <2> QED
      BY <2>1 DEF EndsMatch, IsCurrent, Idle, clientVars
  <1>14. ASSUME NEW p \in pending, ActionTimesOut(p) \/ SendFails(p)
         PROVE  EndsMatch'
    BY <1>14 DEF ActionTimesOut, SendFails, EndsMatch, IsCurrent, Idle, linkVars, clientVars
  <1>15. CASE UNCHANGED vars
    BY <1>15 DEF vars, EndsMatch, IsCurrent, Idle, brokerVars, linkVars, clientVars
  <1> QED
    BY <1>1, <1>2, <1>3, <1>4, <1>5, <1>6, <1>7, <1>8, <1>9, <1>10, <1>11, <1>12, <1>13, <1>14,
       <1>15 DEF Next, Client, Broker

-----------------------------------------------------------------------------
(* The pending action.                                                     *)
LEMMA PendingFrame ==
    ASSUME OnePends, pending' \subseteq pending, session' = session
    PROVE  OnePends'
  BY DEF OnePends, PendingIsOnline, Online

LEMMA OnePendsKept ==
    ASSUME TypeOK, EndsMatch, OnePends, [Next]_vars
    PROVE  OnePends'
  <1> USE Constants
  <1>1. CASE Client \/ OwnerChanges \/ UNCHANGED vars
    <2>1. UNCHANGED <<session, pending>>
      BY <1>1, HandleActionIs, OnMessageIs, HostIs, DetachIs
         DEF Client, OwnerChanges, vars, Connect, AdriftCompletes, SendResult, SendSnapshot, brokerVars
    <2> QED
      BY <2>1, PendingFrame
  <1>2. ASSUME NEW c \in Conns, ReadHello(c)
        PROVE  OnePends'
    <2>1. Register(c)
      BY <1>2 DEF ReadHello
    <2>2. Online' = c /\ pending' \subseteq pending
      BY <2>1, RegisterIs DEF Online
    <2> QED
      BY <2>2 DEF OnePends, PendingIsOnline
  <1>3. ASSUME NEW c \in Conns, ReadSnapshot(c) \/ ReadResult(c)
        PROVE  OnePends'
    <2>1. CASE ReadSnapshot(c)
      BY <2>1, ReadSnapshotIs DEF OnePends, PendingIsOnline, Online, IsCurrent
    <2>2. CASE ReadResult(c)
      BY <2>2, PendingFrame DEF ReadResult
    <2> QED
      BY <1>3, <2>1, <2>2
  <1>4. ASSUME NEW c \in Conns, CloseConnection(c) \/ ConnectionClosed(c)
        PROVE  OnePends'
    <2>1. pending' = {} \/ UNCHANGED <<session, pending>>
      BY <1>4 DEF CloseConnection, ConnectionClosed, brokerVars
    <2> QED
      BY <2>1 DEF OnePends, PendingIsOnline, Online
  <1>5. CASE DeleteSession
    BY <1>5 DEF DeleteSession, OnePends, PendingIsOnline, Online
  <1>6. ASSUME NEW a \in Actions, Dispatch(a)
        PROVE  OnePends'
    BY <1>6 DEF Dispatch, OnePends, PendingIsOnline, Online
  <1>7. ASSUME NEW p \in pending, ActionTimesOut(p) \/ SendFails(p)
        PROVE  OnePends'
    BY <1>7 DEF ActionTimesOut, SendFails, Overdue, OnePends, PendingIsOnline, Online
  <1> QED
    BY <1>1, <1>2, <1>3, <1>4, <1>5, <1>6, <1>7 DEF Next, Broker

-----------------------------------------------------------------------------
(* What the client remembers. *)
LEMMA RememberedFrame ==
    ASSUME Remembered, UNCHANGED <<processed, firstConn, answers>>, done \subseteq done',
           \A r \in answers : appEnd[r[2]] # "unused" => appEnd'[r[2]] # "unused"
    PROVE  Remembered'
  BY DEF Remembered, AnswersAreTrue

(* Connections are numbered in the order they are made, so the ones of the *)
(* clients before are those below their number.                            *)
Used == {c \in Conns : appEnd[c] # "unused"}

LEMMA UsedAreBelow ==
    ASSUME EndsMatch, NEW c \in Used
    PROVE  Cardinality(Used) \in Nat /\ c <= Cardinality(Used)
  <1>1. c \in Nat /\ c >= 1 /\ 1..c \subseteq Conns
    BY Constants DEF Used, Conns
  <1>2. 1..c \subseteq Used
    BY <1>1 DEF EndsMatch, Used
  <1>3. IsFiniteSet(Conns) /\ Used \subseteq Conns
    <2>1. IsFiniteSet(1..MaxConns)
      BY FS_Interval, Constants
    <2> QED
      BY <2>1 DEF Conns, Used
  <1>4. IsFiniteSet(Used)
    BY <1>3, FS_Subset
  <1>5. Cardinality(1..c) <= Cardinality(Used)
    BY <1>2, <1>4, FS_Subset
  <1>6. Cardinality(1..c) = IF 1 > c THEN 0 ELSE c - 1 + 1
    BY <1>1, FS_Interval
  <1>7. Cardinality(Used) \in Nat
    BY <1>4, FS_CardinalityType
  <1>8. Cardinality(1..c) = c
    BY <1>1, <1>6
  <1> QED
    BY <1>5, <1>7, <1>8

LEMMA RememberedKept ==
    ASSUME IInv, [Next]_vars
    PROVE  Remembered'
  <1> USE Constants
  <1>0. TypeOK /\ EndsMatch /\ OnePends /\ Remembered /\ Carried /\ OnlyCurrentIsRead
    BY DEF IInv
  <1>00. \A r \in answers : r[1] \in Actions /\ r[2] \in Conns
    BY <1>0 DEF TypeOK
  <1>1. ASSUME NEW c \in Conns, Connect(c)
        PROVE  Remembered'
    BY <1>0, <1>00, <1>1, RememberedFrame DEF Connect, TypeOK, brokerVars, appVars
  <1>2. CASE OnMessage
    <2>1. UNCHANGED <<processed, firstConn, answers, done>>
      BY <1>0, <1>2, OnMessageIs DEF brokerVars, appVars
    <2>2. \A c \in Conns : appEnd[c] # "unused" => appEnd'[c] # "unused"
      BY <1>0, <1>2, OnMessageIs DEF TypeOK
    <2> QED
      BY <1>0, <1>00, <2>1, <2>2, RememberedFrame
  <1>3. CASE HandleAction
    BY <1>0, <1>3, HandleActionIs, RememberedFrame DEF brokerVars, linkVars, appVars
  <1>4. CASE HostCompletes \/ HostRejects \/ HostTimesOut
    <2>1. PICK ok \in BOOLEAN : Outcome(ok) /\ done' = IF ok THEN done \cup {active} ELSE done
      BY <1>0, <1>4, HostIs
    <2>2. active \in Actions /\ active = [id |-> active.id, body |-> active.body] /\ active.id \in Ids
      BY <1>0, <1>4, HostIs DEF Actions
    <2>3. UNCHANGED <<answers, appEnd, firstConn>>
      BY <1>0, <1>4, HostIs DEF brokerVars, linkVars
    <2>4. [body |-> active.body, ok |-> ok] # None
      BY <2>1, <2>2, RecordsAre DEF Outcomes
    <2>5. processed'[active.id] = [body |-> active.body, ok |-> ok]
      BY <1>0, <2>1, <2>2, Zenon DEF Outcome, TypeOK
    <2>6. processed'[active.id] # None /\ processed'[active.id].body = active.body
          /\ (processed'[active.id].ok => active \in done')
      <3>1. CASE ok
        BY <2>1, <2>4, <2>5, <3>1
      <3>2. CASE ~ok
        <4>1. /\ [body |-> active.body, ok |-> ok].ok = ok
              /\ [body |-> active.body, ok |-> ok].body = active.body
          BY Zenon
        <4> QED
          BY <2>4, <2>5, <3>2, <4>1, Zenon
      <3> QED
        BY <3>1, <3>2
    <2>7. \A id \in Ids : id # active.id => processed'[id] = processed[id]
      BY <1>0, <2>1, <2>2, Zenon DEF Outcome, TypeOK
    <2>8. done \subseteq done'
      BY <2>1
    <2>9. \A id \in Ids : processed'[id] # None /\ processed'[id].ok =>
            [id |-> id, body |-> processed'[id].body] \in done'
      <3> SUFFICES ASSUME NEW id \in Ids, processed'[id] # None, processed'[id].ok
                   PROVE  [id |-> id, body |-> processed'[id].body] \in done'
        OBVIOUS
      <3>1. CASE id = active.id
        BY <2>2, <2>6, <3>1, Zenon
      <3>2. CASE id # active.id
        <4>1. processed[id] # None /\ processed[id].ok /\ processed'[id].body = processed[id].body
          BY <2>7, <3>2, Zenon
        <4> QED
          BY <1>0, <2>8, <4>1, Zenon DEF Remembered
      <3> QED
        BY <3>1, <3>2
    <2>10. \A r \in answers : r[2] >= firstConn => processed'[r[1].id] # None
      BY <1>0, <1>00, <2>6, <2>7, RecordsAre DEF Remembered
    <2> QED
      BY <1>0, <2>3, <2>8, <2>9, <2>10, Zenon DEF Remembered, AnswersAreTrue
  <1>5. ASSUME NEW a \in Actions, AdriftCompletes(a)
        PROVE  Remembered'
    BY <1>0, <1>5, RememberedFrame DEF AdriftCompletes, brokerVars, linkVars, clientVars
  <1>6. CASE SendResult \/ SendSnapshot
    BY <1>0, <1>6, SendResultIs, SendSnapshotIs, RememberedFrame DEF brokerVars, appVars
  <1>7. CASE OnClose
    BY <1>0, <1>00, <1>7, DetachIs, RememberedFrame DEF OnClose, brokerVars
  <1>8. CASE RestartClient
    <2>1. /\ firstConn' = Cardinality(Used) + 1 /\ \A id \in Ids : processed'[id] = None
          /\ UNCHANGED <<answers, done>>
      BY <1>0, <1>8, DetachIs DEF RestartClient, Used, brokerVars
    <2>2. \A r \in answers : ~(r[2] >= firstConn') /\ appEnd'[r[2]] # "unused"
      <3> SUFFICES ASSUME NEW r \in answers PROVE ~(r[2] >= firstConn') /\ appEnd'[r[2]] # "unused"
        OBVIOUS
      <3>1. r[2] \in Used /\ r[2] \in Nat
        BY <1>0, <1>00 DEF Remembered, Used, Conns
      <3>2. Cardinality(Used) \in Nat /\ r[2] <= Cardinality(Used)
        BY <1>0, <3>1, UsedAreBelow
      <3>3. appEnd'[r[2]] # "unused"
        BY <1>0, <1>8, <3>1, DetachIs DEF Used
      <3> QED
        BY <2>1, <3>1, <3>2, <3>3
    <2> QED
      BY <1>0, <2>1, <2>2 DEF Remembered, AnswersAreTrue
  <1>9. ASSUME NEW c \in Conns, ReadHello(c) \/ ReadSnapshot(c)
        PROVE  Remembered'
    <2>1. UNCHANGED <<answers, appEnd, processed, firstConn, done>>
      BY <1>0, <1>9, ReadIs DEF ReadHello, ReadSnapshot, clientVars, appVars
    <2> QED
      BY <1>0, <2>1, RememberedFrame
  <1>10. ASSUME NEW c \in Conns, ReadResult(c)
         PROVE  Remembered'
    <2>1. /\ Read(c, "action-result") /\ IsCurrent(c)
          /\ answers' \subseteq answers \cup {<<p.action, c>> : p \in {q \in pending : Message(c).ok}}
      BY <1>10 DEF ReadResult
    <2>2. /\ brokerEnd[c] = "open" /\ Message(c) = up[c][1] /\ IsResult(up[c][1])
          /\ 1 \in 1..Len(up[c])
          /\ UNCHANGED <<appEnd, processed, firstConn, done>>
      BY <1>0, <2>1, ReadIs DEF IsResult, clientVars, appVars
    <2>3. appEnd[c] # "unused"
      BY <1>0, <2>2 DEF EndsMatch
    <2>4. Truthful(c, up[c][1])
      BY <1>0, <2>1, <2>2 DEF Carried, CarriedAt, Heard
    <2>5. ASSUME NEW r \in answers', r \notin answers
          PROVE  /\ r[1] \in done /\ r[2] = c
                 /\ c >= firstConn => processed[r[1].id] # None
      <3>1. PICK p \in pending : r = <<p.action, c>> /\ Message(c).ok
        BY <2>1, <2>5
      <3>2. p.action \in done /\ (c >= firstConn => processed[p.action.id] # None)
        BY <2>2, <2>4, <3>1, Zenon DEF Truthful
      <3> QED
        BY <3>1, <3>2
    <2> QED
      BY <1>0, <2>2, <2>3, <2>5 DEF Remembered, AnswersAreTrue
  <1>11. ASSUME NEW c \in Conns, CloseConnection(c) \/ ConnectionClosed(c)
         PROVE  Remembered'
    BY <1>0, <1>11, RememberedFrame DEF CloseConnection, ConnectionClosed, brokerVars, clientVars, appVars
  <1>12. CASE DeleteSession \/ OwnerChanges \/ UNCHANGED vars
    BY <1>0, <1>12, RememberedFrame
       DEF DeleteSession, OwnerChanges, vars, brokerVars, linkVars, clientVars, appVars
  <1>13. ASSUME NEW a \in Actions, Dispatch(a)
         PROVE  Remembered'
    BY <1>0, <1>13, RememberedFrame DEF Dispatch, clientVars, appVars
  <1>14. ASSUME NEW p \in pending, ActionTimesOut(p) \/ SendFails(p)
         PROVE  Remembered'
    BY <1>0, <1>14, RememberedFrame DEF ActionTimesOut, SendFails, linkVars, clientVars, appVars
  <1> QED
    BY <1>1, <1>2, <1>3, <1>4, <1>5, <1>6, <1>7, <1>8, <1>9, <1>10, <1>11, <1>12, <1>13, <1>14
       DEF Next, Client, Broker

-----------------------------------------------------------------------------
(* The order of the messages of a connection.                              *)
LEMMA HeadKept ==
    ASSUME NEW S, NEW q \in Seq(S), q # <<>>, NEW e \in S
    PROVE  Append(q, e) # <<>> /\ Head(Append(q, e)) = Head(q)
  OBVIOUS

LEMMA NumbersAre ==
    \A m \in Messages : IsSnapshot(m) => m.sequence \in 1..MaxSequence
  BY MessagesAre DEF IsSnapshot

LEMMA OtherNumbersKept ==
    ASSUME NEW q \in Seq(Messages), NEW m \in Messages, ~IsSnapshot(m)
    PROVE  /\ InOrder(q) => InOrder(Append(q, m))
           /\ \A n : /\ Above(q, n) => Above(Append(q, m), n)
                     /\ UpTo(q, n) => UpTo(Append(q, m), n)
  <1> DEFINE t == Append(q, m)
  <1>1. /\ Len(t) = Len(q) + 1 /\ Len(q) \in Nat /\ t[Len(q) + 1] = m
        /\ \A j \in 1..Len(q) : t[j] = q[j]
    BY AppendIs, EmptyIs
  <1> HIDE DEF t
  <1>2. \A j \in 1..Len(t) : IsSnapshot(t[j]) => j \in 1..Len(q) /\ t[j] = q[j]
    BY <1>1
  <1>3. /\ InOrder(q) => InOrder(t)
        /\ \A n : (Above(q, n) => Above(t, n)) /\ (UpTo(q, n) => UpTo(t, n))
    BY <1>2 DEF InOrder, Above, UpTo
  <1> QED
    BY <1>3 DEF t

LEMMA SnapshotAdded ==
    ASSUME NEW q \in Seq(Messages), NEW n \in Nat, n + 1 \in 1..MaxSequence, InOrder(q), UpTo(q, n)
    PROVE  /\ InOrder(Append(q, Snapshot(n + 1))) /\ UpTo(Append(q, Snapshot(n + 1)), n + 1)
           /\ \A k \in Nat : k <= n /\ Above(q, k) => Above(Append(q, Snapshot(n + 1)), k)
  <1> DEFINE m == Snapshot(n + 1)
             t == Append(q, m)
  <1>1. m \in Messages /\ IsSnapshot(m) /\ m.sequence = n + 1
    BY MessagesAre DEF IsSnapshot
  <1> HIDE DEF m
  <1>2. /\ Len(t) = Len(q) + 1 /\ Len(q) \in Nat /\ t[Len(q) + 1] = m
        /\ \A j \in 1..Len(q) : t[j] = q[j]
    BY <1>1, AppendIs, EmptyIs
  <1> HIDE DEF t
  <1>3. \A j \in 1..Len(q) : q[j] \in Messages
    OBVIOUS
  <1>4. \A j \in 1..Len(q) : IsSnapshot(q[j]) => q[j].sequence \in Nat
    BY <1>3, NumbersAre
  <1>5. \A j \in 1..Len(t) : (j \in 1..Len(q) /\ t[j] = q[j]) \/ (j = Len(q) + 1 /\ t[j] = m)
    BY <1>2
  <1>6. \A j \in 1..Len(q) : IsSnapshot(q[j]) => q[j].sequence <= n
    BY DEF UpTo
  <1>7. UpTo(t, n + 1)
    BY <1>1, <1>4, <1>5, <1>6 DEF UpTo
  <1>8. InOrder(t)
    <2> SUFFICES ASSUME NEW i \in 1..Len(t), NEW j \in 1..Len(t), i < j,
                        IsSnapshot(t[i]), IsSnapshot(t[j])
                 PROVE  t[i].sequence < t[j].sequence
      BY DEF InOrder
    <2>1. i \in 1..Len(q) /\ t[i] = q[i]
      BY <1>2, <1>5
    <2>2. CASE j \in 1..Len(q) /\ t[j] = q[j]
      BY <2>1, <2>2 DEF InOrder
    <2>3. CASE t[j] = m
      BY <1>1, <1>4, <1>6, <2>1, <2>3
    <2> QED
      BY <1>5, <2>2, <2>3
  <1>9. ASSUME NEW k \in Nat, k <= n, Above(q, k)
        PROVE  Above(t, k)
    BY <1>1, <1>5, <1>9 DEF Above
  <1> QED
    BY <1>7, <1>8, <1>9 DEF t, m

LEMMA NumbersLeft ==
    ASSUME NEW q \in Seq(Messages), q # <<>>, InOrder(q)
    PROVE  /\ InOrder(Tail(q))
           /\ IsSnapshot(q[1]) => Above(Tail(q), q[1].sequence)
           /\ Above(Tail(q), 0)
           /\ \A n : /\ Above(q, n) => Above(Tail(q), n) /\ (IsSnapshot(q[1]) => n < q[1].sequence)
                     /\ UpTo(q, n) => UpTo(Tail(q), n) /\ (IsSnapshot(q[1]) => q[1].sequence <= n)
  <1> DEFINE t == Tail(q)
  <1>1. /\ Len(q) \in Nat \ {0} /\ \A j \in 1..Len(t) : j + 1 \in 2..Len(q) /\ t[j] = q[j + 1]
        /\ Len(t) \in Nat /\ t \in Seq(Messages)
    BY TailIs, EmptyIs
  <1> HIDE DEF t
  <1>2. \A j \in 1..Len(t) : j + 1 \in 1..Len(q) /\ 1 < j + 1
    BY <1>1
  <1>3. 1 \in 1..Len(q)
    BY <1>1
  <1>4. \A i, j \in 1..Len(t) : i < j => i + 1 < j + 1
    OBVIOUS
  <1>5. InOrder(t)
    BY <1>1, <1>2, <1>4 DEF InOrder
  <1>6. IsSnapshot(q[1]) => Above(t, q[1].sequence)
    BY <1>1, <1>2, <1>3 DEF InOrder, Above
  <1>7. \A j \in 1..Len(t) : t[j] \in Messages
    BY <1>1
  <1>8. Above(t, 0)
    BY <1>7, NumbersAre DEF Above
  <1>9. ASSUME NEW n
        PROVE  /\ Above(q, n) => Above(t, n) /\ (IsSnapshot(q[1]) => n < q[1].sequence)
               /\ UpTo(q, n) => UpTo(t, n) /\ (IsSnapshot(q[1]) => q[1].sequence <= n)
    BY <1>1, <1>2, <1>3 DEF Above, UpTo
  <1> QED
    BY <1>5, <1>6, <1>8, <1>9 DEF t

LEMMA OnlyCurrentIsReadKept ==
    ASSUME IInv, [Next]_vars
    PROVE  OnlyCurrentIsRead'
  <1> USE Constants
  <1>0. TypeOK /\ EndsMatch /\ OnePends /\ OnlyCurrentIsRead
    BY DEF IInv
  <1>1. ASSUME NEW c \in Conns, Connect(c)
        PROVE  OnlyCurrentIsRead'
    <2>1. up'[c] = <<Hello>> /\ session' = session
          /\ \A b \in Conns : b # c => up'[b] = up[b] /\ brokerEnd'[b] = brokerEnd[b]
      BY <1>0, <1>1 DEF Connect, TypeOK, brokerVars
    <2>2. <<Hello>> # <<>> /\ Head(<<Hello>>) = Hello
      OBVIOUS
    <2> QED
      BY <1>0, <2>1, <2>2 DEF OnlyCurrentIsRead, IsCurrent, Message
  <1>2. CASE OnMessage \/ SendResult \/ SendSnapshot
    <2>1. PICK m \in Messages : /\ socket \in Conns /\ UNCHANGED <<session, brokerEnd>>
                                /\ \/ up' = up
                                   \/ up' = [up EXCEPT ![socket] = Append(up[socket], m)]
      <3>1. CASE OnMessage
        <4>1. /\ socket \in Conns /\ UNCHANGED <<session, brokerEnd>>
              /\ \/ up' = up
                 \/ up' = [up EXCEPT ![socket] = Append(up[socket], Result(down[socket][1].id, FALSE))]
          BY <1>0, <3>1, OnMessageIs DEF brokerVars
        <4>2. Result(down[socket][1].id, FALSE) \in Messages
          BY <1>0, <3>1, OnMessageIs, RecordsAre, MessagesAre
        <4> QED
          BY <4>1, <4>2
      <3>2. CASE SendResult
        BY <1>0, <3>2, SendResultIs, RecordsAre DEF brokerVars
      <3>3. CASE SendSnapshot
        BY <1>0, <3>3, SendSnapshotIs, MessagesAre DEF brokerVars
      <3> QED
        BY <1>2, <3>1, <3>2, <3>3
    <2>2. \A c \in Conns : up[c] # <<>> => up'[c] # <<>> /\ Head(up'[c]) = Head(up[c])
      <3>1. \A c \in Conns : up[c] \in Seq(Messages)
        BY <1>0 DEF TypeOK
      <3>2. \A c \in Conns : up[c] # <<>> => Append(up[c], m) # <<>> /\ Head(Append(up[c], m)) = Head(up[c])
        BY <3>1, HeadKept
      <3> QED
        BY <1>0, <2>1, <3>2 DEF TypeOK
    <2> QED
      BY <1>0, <2>1, <2>2 DEF OnlyCurrentIsRead, IsCurrent, Message
  <1>3. CASE HandleAction \/ HostCompletes \/ HostRejects \/ HostTimesOut \/ OnClose \/ RestartClient
             \/ OwnerChanges \/ UNCHANGED vars
    <2>1. UNCHANGED <<session, brokerEnd, up>>
      BY <1>0, <1>3, HandleActionIs, HostIs, DetachIs DEF OwnerChanges, vars, brokerVars, linkVars
    <2> QED
      BY <1>0, <2>1 DEF OnlyCurrentIsRead, IsCurrent, Message
  <1>4. ASSUME NEW a \in Actions, AdriftCompletes(a) \/ Dispatch(a)
        PROVE  OnlyCurrentIsRead'
    BY <1>0, <1>4 DEF AdriftCompletes, Dispatch, OnlyCurrentIsRead, IsCurrent, Message, brokerVars, linkVars
  <1>5. ASSUME NEW c \in Conns, ReadHello(c)
        PROVE  OnlyCurrentIsRead'
    <2>1. Read(c, "hello") /\ Register(c)
      BY <1>5 DEF ReadHello
    <2>2. \A b \in Conns : b # c => up'[b] = up[b]
      BY <1>0, <2>1, ReadIs DEF TypeOK
    <2>3. IsCurrent(c)'
      BY <1>0, <2>1, RegisterIs DEF IsCurrent
    <2>4. \A b \in Conns : brokerEnd'[b] = "open" /\ b # c => brokerEnd[b] = "open" /\ ~IsCurrent(b)
      BY <1>0, <2>1, RegisterIs DEF IsCurrent
    <2> QED
      BY <1>0, <2>2, <2>3, <2>4 DEF OnlyCurrentIsRead, Message
  <1>6. ASSUME NEW c \in Conns, ReadSnapshot(c) \/ ReadResult(c)
        PROVE  OnlyCurrentIsRead'
    <2>1. IsCurrent(c) /\ IsCurrent(c)' /\ brokerEnd' = brokerEnd
      BY <1>0, <1>6, ReadSnapshotIs DEF ReadResult, IsCurrent
    <2>2. \A b \in Conns : b # c => up'[b] = up[b]
      BY <1>0, <1>6, ReadIs DEF ReadSnapshot, ReadResult, TypeOK
    <2>3. \A b \in Conns : IsCurrent(b) => b = c
      BY <2>1 DEF IsCurrent
    <2> QED
      BY <1>0, <2>1, <2>2, <2>3 DEF OnlyCurrentIsRead, Message
  <1>7. ASSUME NEW c \in Conns, CloseConnection(c) \/ ConnectionClosed(c)
        PROVE  OnlyCurrentIsRead'
    <2>1. /\ brokerEnd'[c] # "open"
          /\ \A b \in Conns : b # c => up'[b] = up[b] /\ brokerEnd'[b] = brokerEnd[b]
      BY <1>0, <1>7 DEF CloseConnection, ConnectionClosed, TypeOK
    <2>2. session' = session \/ (ConnectionClosed(c) /\ IsCurrent(c))
      BY <1>7 DEF CloseConnection, ConnectionClosed, brokerVars
    <2>3. \A b \in Conns : b # c /\ IsCurrent(b) => IsCurrent(b)'
      BY <2>2 DEF IsCurrent
    <2> QED
      BY <1>0, <2>1, <2>3 DEF OnlyCurrentIsRead, Message
  <1>8. CASE DeleteSession
    BY <1>0, <1>8 DEF DeleteSession, OnlyCurrentIsRead, IsCurrent, Message, linkVars
  <1>9. ASSUME NEW p \in pending, ActionTimesOut(p) \/ SendFails(p)
        PROVE  OnlyCurrentIsRead'
    BY <1>0, <1>9 DEF ActionTimesOut, SendFails, OnlyCurrentIsRead, IsCurrent, Message, linkVars
  <1> QED
    BY <1>1, <1>2, <1>3, <1>4, <1>5, <1>6, <1>7, <1>8, <1>9 DEF Next, Client, Broker

LEMMA NumberedKept ==
    ASSUME IInv, [Next]_vars
    PROVE  Numbered'
  <1> USE Constants
  <1>0. TypeOK /\ EndsMatch /\ OnePends /\ Numbered
    BY DEF IInv
  <1>00. \A c \in Conns : up[c] \in Seq(Messages)
    BY <1>0 DEF TypeOK
  <1>1. ASSUME NEW c \in Conns, Connect(c)
        PROVE  Numbered'
    <2>1. /\ up'[c] = <<Hello>> /\ session' = session /\ socket' = c /\ appEnd[c] = "unused"
          /\ sequence' = sequence
          /\ \A b \in Conns : b # c => up'[b] = up[b] /\ brokerEnd'[b] = brokerEnd[b]
      BY <1>0, <1>1 DEF Connect, TypeOK, brokerVars
    <2>2. ~IsCurrent(c)
      BY <1>0, <2>1 DEF EndsMatch
    <2>3. InOrder(<<Hello>>) /\ UpTo(<<Hello>>, sequence)
      <3>1. \A i \in 1..Len(<<Hello>>) : ~IsSnapshot(<<Hello>>[i])
        BY DEF IsSnapshot, Hello
      <3> QED
        BY <3>1 DEF InOrder, UpTo
    <2> QED
      BY <1>0, <2>1, <2>2, <2>3 DEF Numbered, IsCurrent
  <1>2. CASE OnMessage \/ SendResult
    <2>1. PICK m \in Messages : /\ socket \in Conns /\ UNCHANGED <<session, brokerEnd, socket, sequence>>
                                /\ \/ up' = up
                                   \/ up' = [up EXCEPT ![socket] = Append(up[socket], m)]
                                /\ ~IsSnapshot(m)
      <3>1. CASE OnMessage
        <4>1. /\ socket \in Conns /\ UNCHANGED <<session, brokerEnd, socket, sequence>>
              /\ \/ up' = up
                 \/ up' = [up EXCEPT ![socket] = Append(up[socket], Result(down[socket][1].id, FALSE))]
          BY <1>0, <3>1, OnMessageIs DEF brokerVars
        <4>2. /\ Result(down[socket][1].id, FALSE) \in Messages
              /\ ~IsSnapshot(Result(down[socket][1].id, FALSE))
          <5>1. down[socket][1].id \in Ids
            BY <1>0, <3>1, OnMessageIs, RecordsAre
          <5>2. \A id \in Ids : /\ Result(id, FALSE) \in Messages
                               /\ Result(id, FALSE).type = "action-result"
            BY MessagesAre
          <5> QED
            BY <5>1, <5>2 DEF IsSnapshot
        <4> QED
          BY <4>1, <4>2
      <3>2. CASE SendResult
        BY <1>0, <3>2, SendResultIs, RecordsAre DEF brokerVars, IsResult, IsSnapshot
      <3> QED
        BY <1>2, <3>1, <3>2
    <2>2. \A c \in Conns : /\ InOrder(up[c]) => InOrder(up'[c])
                           /\ \A n : /\ Above(up[c], n) => Above(up'[c], n)
                                     /\ UpTo(up[c], n) => UpTo(up'[c], n)
      <3> SUFFICES ASSUME NEW c \in Conns
                   PROVE  /\ InOrder(up[c]) => InOrder(up'[c])
                          /\ \A n : /\ Above(up[c], n) => Above(up'[c], n)
                                    /\ UpTo(up[c], n) => UpTo(up'[c], n)
        OBVIOUS
      <3>1. up'[c] = up[c] \/ up'[c] = Append(up[c], m)
        BY <1>0, <2>1 DEF TypeOK
      <3> QED
        BY <1>00, <2>1, <3>1, OtherNumbersKept
    <2> QED
      BY <1>0, <2>1, <2>2 DEF Numbered, IsCurrent
  <1>3. CASE SendSnapshot
    <2>1. /\ socket \in Conns /\ UNCHANGED <<session, brokerEnd, socket>>
          /\ sequence + 1 \in 1..MaxSequence /\ sequence' = sequence + 1 /\ sequence \in Nat
          /\ up'[socket] = Append(up[socket], Snapshot(sequence + 1))
          /\ \A c \in Conns : c # socket => up'[c] = up[c]
      BY <1>0, <1>3, SendSnapshotIs DEF TypeOK, brokerVars
    <2>2. InOrder(up[socket]) /\ UpTo(up[socket], sequence)
      BY <1>0, <2>1 DEF Numbered
    <2>3. /\ InOrder(up'[socket]) /\ UpTo(up'[socket], sequence')
          /\ \A k \in Nat : k <= sequence /\ Above(up[socket], k) => Above(up'[socket], k)
      BY <1>00, <2>1, <2>2, SnapshotAdded
    <2>4. \A c \in Conns : IsCurrent(c) => session.sequence \in Nat
      BY <1>0 DEF IsCurrent, TypeOK, Sessions
    <2>5. \A c \in Conns : IsCurrent(c)' <=> IsCurrent(c)
      BY <2>1 DEF IsCurrent
    <2>6. CASE ~IsCurrent(socket)
      BY <1>0, <2>1, <2>3, <2>5, <2>6 DEF Numbered
    <2>7. CASE IsCurrent(socket)
      <3>1. \A c \in Conns : IsCurrent(c) => c = socket
        BY <2>7 DEF IsCurrent
      <3>2. session.sequence \in Nat
        BY <2>1, <2>4, <2>7
      <3>3. brokerEnd[socket] = "open" => Above(up'[socket], session.sequence) /\ session.sequence <= sequence'
        BY <1>0, <2>1, <2>3, <2>7, <3>2 DEF Numbered
      <3> QED
        BY <1>0, <2>1, <2>3, <2>5, <3>1, <3>3 DEF Numbered
    <2> QED
      BY <2>6, <2>7
  <1>4. CASE HandleAction \/ HostCompletes \/ HostRejects \/ HostTimesOut
             \/ OwnerChanges \/ UNCHANGED vars
    <2>1. UNCHANGED <<session, brokerEnd, up, socket, sequence>>
      BY <1>0, <1>4, HandleActionIs, HostIs DEF OwnerChanges, vars, brokerVars, linkVars, clientVars
    <2> QED
      BY <1>0, <2>1 DEF Numbered, IsCurrent
  <1>5. CASE OnClose \/ RestartClient
    <2>1. UNCHANGED <<session, brokerEnd, up>> /\ socket' = None
      BY <1>0, <1>5, DetachIs DEF brokerVars
    <2> QED
      BY <1>0, <2>1 DEF Numbered, IsCurrent
  <1>6. ASSUME NEW a \in Actions, AdriftCompletes(a) \/ Dispatch(a)
        PROVE  Numbered'
    BY <1>0, <1>6 DEF AdriftCompletes, Dispatch, Numbered, IsCurrent, brokerVars, linkVars, clientVars
  <1>7. ASSUME NEW c \in Conns, NEW type, Read(c, type)
        PROVE  /\ InOrder(up'[c]) /\ Above(up'[c], 0)
               /\ IsSnapshot(up[c][1]) => Above(up'[c], up[c][1].sequence)
               /\ socket = c /\ IsSnapshot(up[c][1]) => up[c][1].sequence <= sequence
               /\ socket = c => UpTo(up'[c], sequence)
               /\ \A n : Above(up[c], n) => Above(up'[c], n) /\ (IsSnapshot(up[c][1]) => n < up[c][1].sequence)
               /\ \A b \in Conns : b # c => up'[b] = up[b]
               /\ UNCHANGED <<socket, sequence>>
    <2>1. /\ up[c] \in Seq(Messages) /\ up[c] # <<>> /\ up'[c] = Tail(up[c])
          /\ \A b \in Conns : b # c => up'[b] = up[b]
          /\ UNCHANGED <<socket, sequence>>
      BY <1>0, <1>7, ReadIs DEF TypeOK, clientVars
    <2>2. InOrder(up[c]) /\ (socket = c => UpTo(up[c], sequence))
      BY <1>0 DEF Numbered
    <2> QED
      BY <2>1, <2>2, NumbersLeft
  <1>8. ASSUME NEW c \in Conns, ReadHello(c)
        PROVE  Numbered'
    <2>1. Read(c, "hello") /\ Register(c)
      BY <1>8 DEF ReadHello
    <2>2. /\ session'.sequence = 0 /\ session'.conn = c
          /\ \A b \in Conns : IsCurrent(b)' => b = c
      BY <1>0, <2>1, RegisterIs DEF IsCurrent
    <2>3. sequence \in Nat
      BY <1>0 DEF TypeOK
    <2>4. /\ InOrder(up'[c]) /\ Above(up'[c], 0) /\ (socket = c => UpTo(up'[c], sequence))
          /\ \A b \in Conns : b # c => up'[b] = up[b]
          /\ UNCHANGED <<socket, sequence>>
      BY <1>7, <2>1
    <2> QED
      BY <1>0, <2>2, <2>3, <2>4 DEF Numbered
  <1>9. ASSUME NEW c \in Conns, ReadSnapshot(c)
        PROVE  Numbered'
    <2> DEFINE n == up[c][1].sequence
    <2>1. /\ Read(c, "snapshot") /\ IsCurrent(c) /\ IsCurrent(c)' /\ brokerEnd' = brokerEnd
          /\ session'.sequence = IF n > session.sequence THEN n ELSE session.sequence
      BY <1>0, <1>9, ReadSnapshotIs
    <2>2. IsSnapshot(up[c][1]) /\ brokerEnd[c] = "open"
      BY <1>0, <2>1, ReadIs DEF IsSnapshot
    <2>3. session.sequence < n /\ session.sequence \in Nat /\ n \in Nat
      <3>1. Above(up[c], session.sequence)
        BY <1>0, <2>1, <2>2 DEF Numbered
      <3>2. session.sequence \in Nat
        BY <1>0, <2>1, RecordsAre DEF IsCurrent, TypeOK, Sessions
      <3>3. n \in Nat
        BY <1>0, <1>9, ReadSnapshotIs
      <3> QED
        BY <1>7, <2>1, <2>2, <3>1, <3>2, <3>3
    <2>4. session'.sequence = n
      BY <2>1, <2>3
    <2>5. /\ InOrder(up'[c]) /\ Above(up'[c], n) /\ (socket = c => UpTo(up'[c], sequence) /\ n <= sequence)
          /\ \A b \in Conns : b # c => up'[b] = up[b]
          /\ UNCHANGED <<socket, sequence>>
      BY <1>7, <2>1, <2>2
    <2>6. \A b \in Conns : IsCurrent(b)' => b = c
      BY <2>1 DEF IsCurrent
    <2> QED
      BY <1>0, <2>4, <2>5, <2>6 DEF Numbered
  <1>10. ASSUME NEW c \in Conns, ReadResult(c)
         PROVE  Numbered'
    <2>1. Read(c, "action-result") /\ UNCHANGED <<session, brokerEnd>>
      BY <1>10 DEF ReadResult
    <2>2. /\ InOrder(up'[c]) /\ (\A n : Above(up[c], n) => Above(up'[c], n))
          /\ (socket = c => UpTo(up'[c], sequence))
          /\ \A b \in Conns : b # c => up'[b] = up[b]
          /\ UNCHANGED <<socket, sequence>>
      BY <1>7, <2>1
    <2> QED
      BY <1>0, <2>1, <2>2 DEF Numbered, IsCurrent
  <1>11. ASSUME NEW c \in Conns, CloseConnection(c) \/ ConnectionClosed(c)
         PROVE  Numbered'
    <2>1. /\ brokerEnd'[c] # "open" /\ UNCHANGED <<socket, sequence>>
          /\ up'[c] = up[c] \/ up'[c] = <<>>
          /\ \A b \in Conns : b # c => up'[b] = up[b] /\ brokerEnd'[b] = brokerEnd[b]
      BY <1>0, <1>11 DEF CloseConnection, ConnectionClosed, TypeOK, clientVars
    <2>2. session' = session \/ (ConnectionClosed(c) /\ IsCurrent(c))
      BY <1>11 DEF CloseConnection, ConnectionClosed, brokerVars
    <2>3. \A b \in Conns : b # c => session' = session \/ ~IsCurrent(b)'
      BY <1>0, <2>2 DEF IsCurrent, ConnectionClosed, TypeOK, Sessions
    <2>4. InOrder(<<>>) /\ UpTo(<<>>, sequence)
      BY DEF InOrder, UpTo
    <2> QED
      BY <1>0, <2>1, <2>3, <2>4 DEF Numbered, IsCurrent
  <1>12. CASE DeleteSession
    BY <1>0, <1>12 DEF DeleteSession, Numbered, IsCurrent, linkVars, clientVars
  <1>13. ASSUME NEW p \in pending, ActionTimesOut(p) \/ SendFails(p)
         PROVE  Numbered'
    BY <1>0, <1>13 DEF ActionTimesOut, SendFails, Numbered, IsCurrent, linkVars, clientVars
  <1> QED
    BY <1>1, <1>2, <1>3, <1>4, <1>5, <1>6, <1>8, <1>9, <1>10, <1>11, <1>12, <1>13
       DEF Next, Client, Broker

-----------------------------------------------------------------------------
(* What is on its way over the connections.                                *)
Steady(c) ==
    /\ done \subseteq done'
    /\ \A p \in pending' : \E q \in pending : q.action = p.action
    /\ c >= firstConn' => /\ c >= firstConn
                          /\ \A id \in Ids : processed[id] # None => processed'[id] # None

LEMMA TruthKept ==
    ASSUME TypeOK, TypeOK', NEW c \in Conns, Steady(c), NEW m, Truthful(c, m)
    PROVE  IsResult(m) /\ m.ok =>
              \A p \in pending' : /\ p.action \in done'
                                  /\ c >= firstConn' => processed'[p.action.id] # None
  <1> SUFFICES ASSUME IsResult(m) /\ m.ok, NEW p \in pending'
               PROVE  /\ p.action \in done'
                      /\ c >= firstConn' => processed'[p.action.id] # None
    BY Zenon
  <1>1. PICK q \in pending : q.action = p.action
    BY DEF Steady
  <1>2. q.action.id \in Ids
    <2>1. q \in Pendings
      BY DEF TypeOK, Pendings
    <2> QED
      BY <2>1, RecordsAre
  <1>3. q.action \in done /\ (c >= firstConn => processed[q.action.id] # None)
    BY Zenon DEF Truthful
  <1> QED
    BY <1>1, <1>2, <1>3, Zenon DEF Steady

(* A connection of which only what is known changes.                       *)
LEMMA CarriedFrame ==
    ASSUME TypeOK, TypeOK', NEW c \in Conns, Steady(c), CarriedAt(c),
           UNCHANGED <<session, brokerEnd, socket, queue, active, results>>, appEnd' = appEnd,
           pending' = {} => pending = {}, up'[c] = up[c], down'[c] = down[c]
    PROVE  CarriedAt(c)'
  <1>1. Quiet(c) => Quiet(c)'
    BY DEF Quiet, Idle
  <1>2. \A a : Carries(c, a) => Carries(c, a)'
    BY DEF Carries, Idle, Waits, Runs, Reports
  <1>3. \A m : Truthful(c, m) => Truthful(c, m)'
    BY TruthKept, Zenon DEF Truthful
  <1>4. \A p \in pending' : \E q \in pending : q.action = p.action
    BY DEF Steady
  <1>5. Heard(c) => Heard(c)'
    BY <1>3, <1>4 DEF Heard
  <1>6. Live(c) => Live(c)'
    BY <1>1, <1>2, <1>3, <1>4 DEF Live
  <1> QED
    BY <1>1, <1>5, <1>6 DEF CarriedAt, IsCurrent

(* A connection the client has not, or has no more.                        *)
LEMMA OthersCarried ==
    ASSUME TypeOK, TypeOK', EndsMatch', NEW c \in Conns, Steady(c), CarriedAt(c), socket' # c,
           UNCHANGED <<session, pending, brokerEnd>>,
           up'[c] = up[c], down'[c] \in {down[c], <<>>}
    PROVE  CarriedAt(c)'
  <1>1. appEnd'[c] # "open"
    BY DEF EndsMatch
  <1>2. Quiet(c) => Quiet(c)'
    BY DEF Quiet
  <1>3. \A m : Truthful(c, m) => Truthful(c, m)'
    BY TruthKept, Zenon DEF Truthful
  <1>4. Heard(c) => Heard(c)'
    BY <1>3 DEF Heard
  <1> QED
    BY <1>1, <1>2, <1>4 DEF CarriedAt, IsCurrent

(* When the client of a connection the broker reads has something to do,   *)
(* it is the pending action.                                               *)
LEMMA BusyIs ==
    ASSUME IInv, socket \in Conns, appEnd[socket] = "open", brokerEnd[socket] = "open",
           ~Idle \/ down[socket] # <<>>
    PROVE  /\ IsCurrent(socket) /\ Heard(socket) /\ Live(socket)
           /\ \E p \in pending : pending = {p} /\ p.action \in Actions /\ Carries(socket, p.action)
  <1>1. CarriedAt(socket)
    BY DEF IInv, Carried
  <1>2. IsCurrent(socket) /\ Heard(socket) /\ Live(socket)
    BY <1>1 DEF CarriedAt, Quiet
  <1>3. pending # {}
    BY <1>2 DEF Live, Quiet
  <1>4. PICK p \in pending : pending = {p}
    BY <1>3 DEF IInv, OnePends
  <1>5. p.action \in Actions
    <2>1. p \in Pendings
      BY DEF IInv, TypeOK, Pendings
    <2> QED
      BY <2>1, RecordsAre
  <1>6. Carries(socket, p.action)
    BY <1>2 DEF Live
  <1> QED
    BY <1>2, <1>4, <1>5, <1>6

LEMMA ConnectCarried ==
    ASSUME IInv, TypeOK', EndsMatch', NEW c \in Conns, Connect(c)
    PROVE  Carried'
  <1>0. TypeOK /\ EndsMatch /\ Carried
    BY DEF IInv
  <1>1. /\ up'[c] = <<Hello>> /\ socket' = c /\ appEnd[c] = "unused" /\ socket = None
        /\ \A b \in Conns : b # c => up'[b] = up[b]
        /\ UNCHANGED <<session, pending, queue, active, results, down, processed, firstConn, done>>
    BY <1>0 DEF Connect, TypeOK, brokerVars, appVars
  <1>2. ~IsCurrent(c)' /\ Idle' /\ down[c] = <<>>
    BY <1>0, <1>1 DEF EndsMatch, IsCurrent, Idle
  <1>3. NoResult(<<Hello>>)
    <2>1. \A i \in 1..Len(<<Hello>>) : ~IsResult(<<Hello>>[i])
      BY DEF IsResult, Hello
    <2> QED
      BY <2>1 DEF NoResult
  <1>4. CarriedAt(c)'
    BY <1>1, <1>2, <1>3 DEF CarriedAt, Quiet
  <1>5. ASSUME NEW b \in Conns, b # c
        PROVE  CarriedAt(b)'
    <2>1. CarriedAt(b) /\ brokerEnd'[b] = brokerEnd[b] /\ appEnd'[b] # "open"
      BY <1>0, <1>1, <1>5 DEF Carried, Connect, TypeOK, EndsMatch
    <2>2. Quiet(b) => Quiet(b)'
      BY <1>1, <1>5 DEF Quiet
    <2>3. Heard(b) => Heard(b)'
      BY <1>1, <1>5 DEF Heard, Truthful
    <2> QED
      BY <1>1, <2>1, <2>2, <2>3 DEF CarriedAt, IsCurrent
  <1> QED
    BY <1>4, <1>5 DEF Carried

(* Of a step of the client on its connection, that connection is left.     *)
LEMMA SocketIsLeft ==
    ASSUME IInv, TypeOK', EndsMatch', UNCHANGED <<session, pending, brokerEnd, socket, firstConn>>,
           done \subseteq done', \A id \in Ids : processed[id] # None => processed'[id] # None,
           \A b \in Conns : b # socket => up'[b] = up[b] /\ down'[b] = down[b],
           socket \in Conns /\ brokerEnd[socket] = "open" => CarriedAt(socket)'
    PROVE  Carried'
  <1>1. ASSUME NEW c \in Conns
        PROVE  CarriedAt(c)'
    <2>1. CASE c = socket
      <3>1. CASE brokerEnd[c] = "open"
        BY <2>1, <3>1
      <3>2. CASE brokerEnd[c] # "open"
        BY <3>2 DEF CarriedAt
      <3> QED
        BY <3>1, <3>2
    <2>2. CASE c # socket
      <3>1. Steady(c)
        BY DEF Steady
      <3>2. TypeOK /\ CarriedAt(c)
        BY DEF IInv, Carried
      <3> QED
        BY <2>2, <3>1, <3>2, OthersCarried
    <2> QED
      BY <2>1, <2>2
  <1> QED
    BY <1>1 DEF Carried

LEMMA OnMessageCarried ==
    ASSUME IInv, TypeOK', EndsMatch', OnMessage
    PROVE  Carried'
  <1> DEFINE c == socket
             a == down[socket][1]
  <1>0. TypeOK /\ EndsMatch /\ Carried
    BY DEF IInv
  <1>1. /\ c \in Conns /\ appEnd[c] = "open" /\ down[c] \in Seq(Actions) /\ down[c] # <<>> /\ a \in Actions
        /\ down' = [down EXCEPT ![c] = Tail(down[c])]
        /\ \/ /\ up' = [up EXCEPT ![c] = Append(up[c], Result(a.id, FALSE))]
              /\ appEnd' = [appEnd EXCEPT ![c] = "closing"] /\ queue' = queue
           \/ /\ \E o \in Owners : queue' = Append(queue, Queued(a, o))
              /\ UNCHANGED <<up, appEnd>>
        /\ UNCHANGED <<session, pending, brokerEnd, firstConn, socket, active, results, processed, done>>
    BY <1>0, OnMessageIs, Zenon DEF brokerVars, appVars
  <1>2. \A b \in Conns : b # c => up'[b] = up[b] /\ down'[b] = down[b]
    BY <1>0, <1>1 DEF TypeOK
  <1>3. ASSUME brokerEnd[c] = "open"
        PROVE  CarriedAt(c)'
    <2>1. PICK p \in pending : /\ IsCurrent(c) /\ Heard(c) /\ Live(c)
                               /\ pending = {p} /\ p.action \in Actions /\ Carries(c, p.action)
      BY <1>1, <1>3, BusyIs
    <2>2. Len(down[c]) = 1 /\ p.action = a /\ Idle /\ NoResult(up[c])
      BY <1>1, <2>1 DEF Carries
    <2>3. down'[c] = <<>> /\ IsCurrent(c)'
      <3>1. Tail(down[c]) = <<>>
        BY <1>1, <2>2, TailOfOne
      <3>2. down'[c] = Tail(down[c])
        BY <1>0, <1>1 DEF TypeOK
      <3>3. IsCurrent(c)'
        BY <1>1, <2>1 DEF IsCurrent
      <3> QED
        BY <1>1, <2>2, <3>1, <3>2, <3>3
    <2>4. CASE /\ up' = [up EXCEPT ![c] = Append(up[c], Result(a.id, FALSE))]
               /\ appEnd' = [appEnd EXCEPT ![c] = "closing"]
      <3> DEFINE m == Result(a.id, FALSE)
      <3>1. /\ up'[c] = Append(up[c], m) /\ appEnd'[c] = "closing"
            /\ up[c] \in Seq(Messages)
        BY <1>0, <1>1, <2>4 DEF TypeOK
      <3>2. m \in Messages /\ IsResult(m) /\ m.id = a.id /\ ~m.ok
        <4>1. a.id \in Ids
          BY <1>1, RecordsAre
        <4>2. \A id \in Ids : /\ Result(id, FALSE) \in Messages /\ IsResult(Result(id, FALSE))
                              /\ Result(id, FALSE).id = id /\ Result(id, FALSE).ok = FALSE
          BY MessagesAre
        <4> QED
          BY <4>1, <4>2
      <3> HIDE DEF m
      <3>3. OneResult(up'[c], p.action.id)
        BY <2>2, <3>1, <3>2, ResultAdded
      <3>4. \A i \in 1..Len(up'[c]) : (i \in 1..Len(up[c]) /\ up'[c][i] = up[c][i]) \/ up'[c][i] = m
        BY <3>1, <3>2, AppendIs
      <3>5. \A i \in 1..Len(up'[c]) : Truthful(c, up'[c][i])
        BY <2>2, <3>2, <3>4 DEF Truthful, NoResult
      <3>6. Heard(c)'
        BY <1>1, <2>1, <3>3, <3>5 DEF Heard, Truthful
      <3> QED
        BY <1>1, <2>3, <3>1, <3>6 DEF CarriedAt
    <2>5. CASE (\E o \in Owners : queue' = Append(queue, Queued(a, o))) /\ UNCHANGED <<up, appEnd>>
      <3>1. PICK o \in Owners : queue' = Append(queue, Queued(a, o))
        BY <2>5
      <3>2. queue = <<>> /\ Queued(a, o) \in Entries /\ Queued(a, o).action = a
        BY <1>1, <2>2, RecordsAre DEF Idle
      <3>3. Len(queue') = 1 /\ queue'[1].action = a
        BY <3>1, <3>2
      <3>4. Waits(p.action)'
        BY <1>1, <2>2, <3>3 DEF Waits, Idle
      <3>5. Carries(c, p.action)'
        BY <1>1, <2>2, <2>3, <2>5, <3>4 DEF Carries
      <3>6. Heard(c)' /\ Live(c)'
        BY <1>1, <2>1, <2>2, <2>5, <3>5 DEF Heard, Live, Truthful
      <3> QED
        BY <1>1, <2>3, <3>6 DEF CarriedAt
    <2> QED
      BY <1>1, <2>4, <2>5
  <1> QED
    BY <1>1, <1>2, <1>3, SocketIsLeft

LEMMA HandleActionCarried ==
    ASSUME IInv, TypeOK', EndsMatch', HandleAction
    PROVE  Carried'
  <1>0. TypeOK /\ EndsMatch /\ Carried /\ Remembered
    BY DEF IInv
  <1>1. PICK c \in Conns :
           /\ socket = c /\ appEnd[c] = "open"
           /\ queue \in Seq(Entries) /\ queue # <<>> /\ active = None /\ queue' = Tail(queue)
           /\ \/ /\ active' = queue[1].action /\ results' = results
              \/ /\ active' = None
                 /\ \E ok \in BOOLEAN :
                       /\ ok => Replayed(queue[1].action)
                       /\ results' = Append(results, Result(queue[1].action.id, ok))
    BY <1>0, HandleActionIs, Zenon
  <1>2. UNCHANGED <<session, pending, up, down, appEnd, brokerEnd, socket, firstConn, processed, done>>
    BY <1>0, HandleActionIs, Zenon DEF brokerVars, linkVars, appVars
  <1>3. ASSUME brokerEnd[c] = "open"
        PROVE  CarriedAt(c)'
    <2>1. PICK p \in pending : /\ IsCurrent(c) /\ Heard(c) /\ Live(c)
                               /\ pending = {p} /\ p.action \in Actions /\ Carries(c, p.action)
      BY <1>1, <1>3, BusyIs DEF Idle
    <2>2. Waits(p.action) /\ down[c] = <<>> /\ NoResult(up[c])
      BY <1>1, <2>1 DEF Carries, Idle, Waits, Runs, Reports
    <2>3. queue[1].action = p.action /\ queue' = <<>> /\ results = <<>>
      BY <1>1, <2>2 DEF Waits
    <2>4. IsCurrent(c)' /\ Heard(c)'
      BY <1>2, <2>1 DEF IsCurrent, Heard, Truthful
    <2>5. CASE active' = queue[1].action /\ results' = results
      <3>1. Runs(p.action)'
        BY <2>3, <2>5 DEF Runs
      <3>2. Live(c)'
        BY <1>2, <2>1, <2>2, <2>3, <2>5, <3>1 DEF Live, Carries
      <3> QED
        BY <2>4, <3>2 DEF CarriedAt
    <2>6. ASSUME NEW ok \in BOOLEAN, ok => Replayed(queue[1].action),
                 results' = Append(results, Result(queue[1].action.id, ok)), active' = None
          PROVE  CarriedAt(c)'
      <3> DEFINE m == Result(p.action.id, ok)
      <3>1. m \in Messages /\ IsResult(m) /\ m.id = p.action.id /\ m.ok = ok
        BY <2>1, RecordsAre, MessagesAre
      <3>2. results' = Append(results, m)
        BY <2>3, <2>6
      <3> HIDE DEF m
      <3>3. Len(results') = 1 /\ results'[1] = m
        BY <2>3, <3>2
      <3>4. Reports(p.action)'
        BY <2>3, <2>6, <3>1, <3>3 DEF Reports
      <3>5. m.ok => p.action \in done /\ processed[p.action.id] # None
        <4>1. m.ok => Replayed(p.action)
          BY <2>3, <2>6, <3>1, Zenon
        <4>2. /\ p.action.id \in Ids
              /\ p.action = [id |-> p.action.id, body |-> p.action.body]
          BY <2>1 DEF Actions
        <4>3. Replayed(p.action) => /\ processed[p.action.id] # None /\ processed[p.action.id].ok
                                    /\ processed[p.action.id].body = p.action.body
          BY Zenon DEF Replayed
        <4> QED
          BY <1>0, <4>1, <4>2, <4>3, Zenon DEF Remembered
      <3>6. Truthful(c, m)'
        BY <1>2, <2>1, <3>5, Zenon DEF Truthful
      <3>7. \A i \in 1..Len(results') : results'[i] = m
        BY <3>3
      <3>8. Carries(c, p.action)'
        BY <1>2, <2>2, <3>4, Zenon DEF Carries
      <3>9. Live(c)'
        BY <1>2, <2>1, <3>6, <3>7, <3>8 DEF Live
      <3> QED
        BY <2>4, <3>9 DEF CarriedAt
    <2> QED
      BY <1>1, <2>5, <2>6
  <1> QED
    BY <1>1, <1>2, <1>3, SocketIsLeft

LEMMA HostCarried ==
    ASSUME IInv, TypeOK', EndsMatch', HostCompletes \/ HostRejects \/ HostTimesOut
    PROVE  Carried'
  <1>0. TypeOK /\ EndsMatch /\ Carried
    BY DEF IInv
  <1>1. PICK ok \in BOOLEAN : Outcome(ok) /\ done' = IF ok THEN done \cup {active} ELSE done
    BY <1>0, HostIs
  <1>2. /\ active \in Actions /\ active # None /\ active.id \in Ids
        /\ UNCHANGED <<session, pending, up, down, appEnd, brokerEnd, socket, firstConn, queue>>
    BY <1>0, HostIs, RecordsAre DEF brokerVars, linkVars
  <1>3. PICK c \in Conns : socket = c
    BY <1>0, <1>2 DEF EndsMatch, Idle, TypeOK
  <1>4. processed'[active.id] # None
        /\ \A id \in Ids : id # active.id => processed'[id] = processed[id]
    <2>1. [body |-> active.body, ok |-> ok] \in Outcomes
      BY <1>2, RecordsAre DEF Outcomes
    <2>2. processed'[active.id] = [body |-> active.body, ok |-> ok]
      BY <1>0, <1>1, <1>2, Zenon DEF Outcome, TypeOK
    <2>3. \A id \in Ids : id # active.id => processed'[id] = processed[id]
      BY <1>0, <1>1, <1>2, Zenon DEF Outcome, TypeOK
    <2> QED
      BY <2>1, <2>2, <2>3, RecordsAre
  <1>5. done \subseteq done' /\ \A id \in Ids : processed[id] # None => processed'[id] # None
    BY <1>1, <1>4
  <1>6. Steady(c)
    BY <1>2, <1>5 DEF Steady
  <1>7. ASSUME brokerEnd[c] = "open"
        PROVE  CarriedAt(c)'
    <2>1. CarriedAt(c) /\ ~Idle
      BY <1>0, <1>2 DEF Carried, Idle
    <2>2. IsCurrent(c) /\ Heard(c) /\ IsCurrent(c)'
      BY <1>2, <1>3, <1>7, <2>1 DEF CarriedAt, Quiet, IsCurrent
    <2>3. \A k : Truthful(c, k) => Truthful(c, k)'
      BY <1>0, <1>6, TruthKept, Zenon DEF Truthful
    <2>4. Heard(c)'
      BY <1>2, <2>2, <2>3 DEF Heard
    <2>5. CASE appEnd[c] # "open"
      BY <1>2, <2>2, <2>4, <2>5 DEF CarriedAt
    <2>6. CASE appEnd[c] = "open"
      <3>1. PICK p \in pending : /\ pending = {p} /\ p.action \in Actions /\ Carries(c, p.action)
        BY <1>3, <1>7, <2>1, <2>6, BusyIs
      <3>2. Runs(p.action) /\ down[c] = <<>> /\ NoResult(up[c])
        BY <1>2, <3>1 DEF Carries, Idle, Waits, Runs, Reports
      <3> DEFINE m == Result(p.action.id, ok)
      <3>3. m \in Messages /\ IsResult(m) /\ m.id = p.action.id /\ m.ok = ok
        BY <3>1, RecordsAre, MessagesAre
      <3>4. results' = Append(results, m) /\ active' = None /\ results = <<>> /\ active = p.action
        BY <1>1, <3>2 DEF Outcome, Runs
      <3> HIDE DEF m
      <3>5. Len(results') = 1 /\ results'[1] = m
        BY <3>4
      <3>6. Reports(p.action)'
        BY <1>2, <3>2, <3>3, <3>4, <3>5 DEF Reports, Runs
      <3>7. m.ok => p.action \in done'
        <4>1. ok => active \in done'
          BY <1>1
        <4> QED
          BY <3>3, <3>4, <4>1, Zenon
      <3>8. Truthful(c, m)'
        BY <1>2, <1>4, <3>1, <3>4, <3>7, Zenon DEF Truthful
      <3>9. \A i \in 1..Len(results') : results'[i] = m
        BY <3>5
      <3>10. Carries(c, p.action)'
        BY <1>2, <3>2, <3>6, Zenon DEF Carries
      <3>11. Live(c)'
        BY <1>2, <3>1, <3>8, <3>9, <3>10 DEF Live
      <3> QED
        BY <2>2, <2>4, <3>11 DEF CarriedAt
    <2> QED
      BY <2>5, <2>6
  <1> QED
    BY <1>2, <1>3, <1>5, <1>7, SocketIsLeft

LEMMA SendResultCarried ==
    ASSUME IInv, TypeOK', EndsMatch', SendResult
    PROVE  Carried'
  <1>0. TypeOK /\ EndsMatch /\ Carried
    BY DEF IInv
  <1>1. PICK c \in Conns, m \in Outbox :
           /\ socket = c /\ appEnd[c] = "open" /\ m = results[1]
           /\ results \in Seq(Outbox) /\ results # <<>> /\ results' = Tail(results)
           /\ up' = [up EXCEPT ![c] = Append(up[c], m)]
    BY <1>0, SendResultIs
  <1>2. UNCHANGED <<session, pending, down, appEnd, brokerEnd, socket, firstConn, queue, active,
                    processed, done>>
    BY <1>0, SendResultIs DEF brokerVars, appVars
  <1>3. /\ up'[c] = Append(up[c], m) /\ up[c] \in Seq(Messages)
        /\ \A b \in Conns : b # c => up'[b] = up[b]
    BY <1>0, <1>1 DEF TypeOK
  <1>4. ASSUME brokerEnd[c] = "open"
        PROVE  CarriedAt(c)'
    <2>1. PICK p \in pending : /\ IsCurrent(c) /\ Heard(c) /\ Live(c)
                               /\ pending = {p} /\ p.action \in Actions /\ Carries(c, p.action)
      BY <1>1, <1>4, BusyIs DEF Idle
    <2>2. Reports(p.action) /\ down[c] = <<>> /\ NoResult(up[c])
      BY <1>1, <2>1 DEF Carries, Idle, Waits, Runs, Reports
    <2>3. m.id = p.action.id /\ m \in Messages /\ IsResult(m)
      BY <1>1, <2>2, RecordsAre DEF Reports
    <2>4. Truthful(c, m)
      BY <1>1, <2>1, <2>2 DEF Live, Reports
    <2>5. OneResult(up'[c], p.action.id)
      BY <1>3, <2>2, <2>3, ResultAdded
    <2>6. \A i \in 1..Len(up'[c]) : (i \in 1..Len(up[c]) /\ up'[c][i] = up[c][i]) \/ up'[c][i] = m
      BY <1>3, <2>3, AppendIs
    <2>7. \A i \in 1..Len(up'[c]) : Truthful(c, up'[c][i])
      BY <2>2, <2>4, <2>6 DEF Truthful, NoResult
    <2>8. Heard(c)'
      BY <1>2, <2>1, <2>5, <2>7 DEF Heard, Truthful
    <2>9. Idle' /\ results' = <<>>
      BY <1>1, <1>2, <2>2 DEF Reports, Idle
    <2>10. Carries(c, p.action)'
      BY <1>2, <2>2, <2>5, <2>9 DEF Carries
    <2>11. Live(c)'
      BY <1>2, <2>1, <2>9, <2>10 DEF Live
    <2> QED
      BY <1>2, <2>1, <2>8, <2>11 DEF CarriedAt, IsCurrent
  <1> QED
    BY <1>1, <1>2, <1>3, <1>4, SocketIsLeft

LEMMA SendSnapshotCarried ==
    ASSUME IInv, TypeOK', EndsMatch', SendSnapshot
    PROVE  Carried'
  <1>0. TypeOK /\ EndsMatch /\ Carried
    BY DEF IInv
  <1>1. PICK c \in Conns, m \in Messages :
           /\ socket = c /\ appEnd[c] = "open" /\ ~IsResult(m) /\ results = <<>>
           /\ up' = [up EXCEPT ![c] = Append(up[c], m)]
    <2>1. Snapshot(sequence + 1) \in Messages /\ ~IsResult(Snapshot(sequence + 1))
      BY <1>0, SendSnapshotIs, MessagesAre
    <2> QED
      BY <1>0, <2>1, SendSnapshotIs
  <1>2. UNCHANGED <<session, pending, down, appEnd, brokerEnd, socket, firstConn, queue, active,
                    results, processed, done>>
    BY <1>0, SendSnapshotIs DEF brokerVars, appVars
  <1>3. /\ up'[c] = Append(up[c], m) /\ up[c] \in Seq(Messages)
        /\ \A b \in Conns : b # c => up'[b] = up[b]
    BY <1>0, <1>1 DEF TypeOK
  <1>4. NoResult(up[c]) => NoResult(up'[c])
    BY <1>1, <1>3, ResultAdded
  <1>5. \A id : OneResult(up[c], id) => OneResult(up'[c], id)
    BY <1>1, <1>3, OtherAdded
  <1>6. ASSUME brokerEnd[c] = "open"
        PROVE  CarriedAt(c)'
    <2>1. Idle => Idle'
      BY <1>2 DEF Idle
    <2>2. Quiet(c) => Quiet(c)'
      BY <1>2, <1>4, <2>1 DEF Quiet
    <2>3. \A a : (Waits(a) => Waits(a)') /\ (Runs(a) => Runs(a)') /\ (Reports(a) => Reports(a)')
      BY <1>2 DEF Waits, Runs, Reports
    <2>4. \A a : Carries(c, a) => Carries(c, a)'
      BY <1>2, <1>4, <1>5, <2>1, <2>3 DEF Carries
    <2>5. \A i \in 1..Len(up'[c]) : (i \in 1..Len(up[c]) /\ up'[c][i] = up[c][i]) \/ up'[c][i] = m
      BY <1>3, AppendIs
    <2>6. Heard(c) => Heard(c)'
      BY <1>1, <1>2, <1>4, <1>5, <2>5 DEF Heard, Truthful
    <2>7. Live(c) => Live(c)'
      BY <1>2, <2>2, <2>4 DEF Live, Truthful
    <2> QED
      BY <1>0, <1>2, <2>2, <2>6, <2>7 DEF Carried, CarriedAt, IsCurrent
  <1> QED
    BY <1>1, <1>2, <1>3, <1>6, SocketIsLeft

LEMMA CloseCarried ==
    ASSUME IInv, TypeOK', EndsMatch', OnClose \/ RestartClient
    PROVE  Carried'
  <1>0. TypeOK /\ EndsMatch /\ Carried
    BY DEF IInv
  <1>1. /\ socket' = None /\ UNCHANGED <<session, pending, brokerEnd, up, done>>
        /\ \A c \in Conns : down'[c] \in {down[c], <<>>}
    BY <1>0, DetachIs DEF brokerVars
  <1>2. ASSUME NEW c \in Conns
        PROVE  CarriedAt(c)'
    <2>1. CASE brokerEnd[c] # "open"
      BY <1>1, <2>1 DEF CarriedAt
    <2>2. CASE brokerEnd[c] = "open"
      <3>1. Steady(c)
        <4>1. OnClose => Steady(c)
          BY <1>1 DEF OnClose, Steady
        <4>2. RestartClient => Steady(c)
          <5> SUFFICES ASSUME RestartClient PROVE Steady(c)
            OBVIOUS
          <5>1. c \in Used /\ c \in Nat
            BY <1>0, <2>2 DEF EndsMatch, Used, Conns
          <5>2. Cardinality(Used) \in Nat /\ c <= Cardinality(Used)
            BY <1>0, <5>1, UsedAreBelow
          <5>3. firstConn' = Cardinality(Used) + 1
            BY DEF RestartClient, Used
          <5>4. ~(c >= firstConn')
            BY <5>1, <5>2, <5>3
          <5> QED
            BY <1>1, <5>4 DEF Steady
        <4> QED
          BY <4>1, <4>2
      <3>2. socket' # c /\ CarriedAt(c)
        BY <1>0, <1>1, Constants DEF Carried
      <3> QED
        BY <1>0, <1>1, <3>1, <3>2, OthersCarried
    <2> QED
      BY <2>1, <2>2
  <1> QED
    BY <1>2 DEF Carried

(* The broker reads something other than a result.                         *)
LEMMA OtherIsRead ==
    ASSUME IInv, NEW c \in Conns, NEW type, type # "action-result", Read(c, type)
    PROVE  /\ Quiet(c) => Quiet(c)'
           /\ Heard(c) /\ pending' = pending => Heard(c)'
           /\ Live(c) /\ pending' = pending => Live(c)'
           /\ NoResult(up[c]) => NoResult(up'[c])
  <1>0. TypeOK
    BY DEF IInv
  <1>1. /\ up[c] \in Seq(Messages) /\ up[c] # <<>> /\ Head(up[c]) = up[c][1] /\ ~IsResult(up[c][1])
        /\ up'[c] = Tail(up[c])
        /\ UNCHANGED <<down, appEnd, socket, queue, active, results, firstConn, processed, done>>
    BY <1>0, ReadIs DEF TypeOK, IsResult, Message, clientVars, appVars
  <1>2. NoResult(up[c]) => NoResult(up'[c])
    BY <1>1, ResultsLeft
  <1>3. \A id : OneResult(up[c], id) => OneResult(up'[c], id)
    BY <1>1, ResultsLeft
  <1>4. Idle' = Idle
    BY <1>1 DEF Idle
  <1>5. Quiet(c) => Quiet(c)'
    BY <1>1, <1>2, <1>4 DEF Quiet
  <1>6. \A a : (Waits(a) => Waits(a)') /\ (Runs(a) => Runs(a)') /\ (Reports(a) => Reports(a)')
    BY <1>1 DEF Waits, Runs, Reports
  <1>7. \A a : Carries(c, a) => Carries(c, a)'
    BY <1>1, <1>2, <1>3, <1>4, <1>6 DEF Carries
  <1>8. \A i \in 1..Len(up'[c]) : i + 1 \in 1..Len(up[c]) /\ up'[c][i] = up[c][i + 1]
    BY <1>1, TailIs
  <1>9. Heard(c) /\ pending' = pending => Heard(c)'
    BY <1>1, <1>2, <1>3, <1>8 DEF Heard, Truthful
  <1>10. Live(c) /\ pending' = pending => Live(c)'
    BY <1>1, <1>5, <1>7 DEF Live, Truthful
  <1> QED
    BY <1>2, <1>5, <1>9, <1>10

LEMMA ReadHelloCarried ==
    ASSUME IInv, TypeOK', NEW c \in Conns, ReadHello(c)
    PROVE  Carried'
  <1>0. TypeOK /\ OnePends /\ Carried
    BY DEF IInv
  <1>1. Read(c, "hello") /\ Register(c)
    BY DEF ReadHello
  <1>2. /\ brokerEnd[c] = "open" /\ \A b \in Conns : b # c => up'[b] = up[b]
        /\ UNCHANGED <<down, appEnd, socket, queue, active, results>>
    <2>1. brokerEnd[c] = "open" /\ up' = [up EXCEPT ![c] = Tail(up[c])] /\ UNCHANGED <<down, appEnd, clientVars>>
      BY <1>0, <1>1, ReadIs, Zenon
    <2> QED
      BY <1>0, <2>1 DEF TypeOK, clientVars
  <1>3. /\ IsCurrent(c)' /\ \A b \in Conns : IsCurrent(b)' => b = c
        /\ IsCurrent(c) => pending' = pending
        /\ ~IsCurrent(c) => pending' = {}
    BY <1>0, <1>1, RegisterIs DEF IsCurrent
  <1>4. ASSUME NEW b \in Conns, b # c, brokerEnd'[b] = "open"
        PROVE  CarriedAt(b)'
    <2>1. ~IsCurrent(b) /\ brokerEnd[b] = "open"
      <3>1. CASE IsCurrent(c)
        BY <1>0, <1>1, <1>4, <3>1, RegisterIs DEF IsCurrent
      <3>2. CASE ~IsCurrent(c)
        BY <1>0, <1>1, <1>4, <3>2, RegisterIs
      <3> QED
        BY <3>1, <3>2
    <2>2. Quiet(b)
      BY <1>0, <2>1 DEF Carried, CarriedAt
    <2>3. Quiet(b)'
      BY <1>2, <1>4, <2>2 DEF Quiet, Idle
    <2> QED
      BY <1>3, <1>4, <2>3 DEF CarriedAt
  <1>5. CASE IsCurrent(c)
    <2>1. Heard(c)' /\ (appEnd[c] = "open" => Live(c)')
      BY <1>0, <1>1, <1>2, <1>3, <1>5, OtherIsRead DEF Carried, CarriedAt
    <2>2. CarriedAt(c)'
      BY <1>2, <1>3, <2>1 DEF CarriedAt
    <2> QED
      BY <1>4, <2>2 DEF Carried, CarriedAt
  <1>6. CASE ~IsCurrent(c)
    <2>1. Quiet(c) /\ Quiet(c)'
      BY <1>0, <1>1, <1>2, <1>6, OtherIsRead DEF Carried, CarriedAt
    <2>2. Heard(c)'
      BY <1>3, <1>6, <2>1 DEF Quiet, Heard, NoResult, Truthful
    <2>3. Live(c)'
      BY <1>3, <1>6, <2>1 DEF Live, Truthful
    <2>4. CarriedAt(c)'
      BY <1>3, <2>2, <2>3 DEF CarriedAt
    <2> QED
      BY <1>4, <2>4 DEF Carried, CarriedAt
  <1> QED
    BY <1>5, <1>6

(* The session's connection stays the one it was.                          *)
LEMMA OneIsCurrent ==
    ASSUME IInv, NEW c \in Conns, IsCurrent(c), IsCurrent(c)', brokerEnd' = brokerEnd,
           UNCHANGED <<down, appEnd, socket, queue, active, results>>,
           \A b \in Conns : b # c => up'[b] = up[b],
           CarriedAt(c)'
    PROVE  Carried'
  <1>1. ASSUME NEW b \in Conns, b # c
        PROVE  CarriedAt(b)'
    <2>1. ~IsCurrent(b) /\ ~IsCurrent(b)'
      BY <1>1 DEF IsCurrent
    <2>2. Quiet(b) => Quiet(b)'
      BY <1>1 DEF Quiet, Idle
    <2> QED
      BY <2>1, <2>2 DEF IInv, Carried, CarriedAt
  <1> QED
    BY <1>1 DEF Carried

LEMMA ReadSnapshotCarried ==
    ASSUME IInv, NEW c \in Conns, ReadSnapshot(c)
    PROVE  Carried'
  <1>0. TypeOK /\ Carried
    BY DEF IInv
  <1>1. Read(c, "snapshot") /\ IsCurrent(c) /\ IsCurrent(c)' /\ UNCHANGED <<pending, brokerEnd>>
    BY <1>0, ReadSnapshotIs
  <1>2. /\ brokerEnd[c] = "open" /\ \A b \in Conns : b # c => up'[b] = up[b]
        /\ UNCHANGED <<down, appEnd, socket, queue, active, results>>
    BY <1>0, <1>1, ReadIs DEF TypeOK, clientVars
  <1>3. Heard(c)' /\ (appEnd[c] = "open" => Live(c)')
    BY <1>0, <1>1, <1>2, OtherIsRead DEF Carried, CarriedAt
  <1>4. CarriedAt(c)'
    BY <1>1, <1>2, <1>3 DEF CarriedAt
  <1> QED
    BY <1>1, <1>2, <1>4, OneIsCurrent

LEMMA ReadResultCarried ==
    ASSUME IInv, NEW c \in Conns, ReadResult(c)
    PROVE  Carried'
  <1>0. TypeOK /\ Carried
    BY DEF IInv
  <1>1. Read(c, "action-result") /\ IsCurrent(c) /\ IsCurrent(c)' /\ brokerEnd' = brokerEnd
    BY DEF ReadResult, IsCurrent
  <1>2. /\ brokerEnd[c] = "open" /\ Message(c) = up[c][1] /\ IsResult(up[c][1])
        /\ up[c] \in Seq(Messages) /\ up[c] # <<>> /\ Head(up[c]) = up[c][1] /\ up'[c] = Tail(up[c])
        /\ \A b \in Conns : b # c => up'[b] = up[b]
        /\ UNCHANGED <<down, appEnd, socket, queue, active, results>>
    BY <1>0, <1>1, ReadIs DEF TypeOK, IsResult, Message, clientVars
  <1>3. Heard(c) /\ (appEnd[c] = "open" => Live(c)) /\ ~NoResult(up[c])
    <2>1. 1 \in 1..Len(up[c])
      BY <1>2
    <2> QED
      BY <1>0, <1>1, <1>2, <2>1 DEF Carried, CarriedAt, NoResult
  <1>4. PICK p \in pending : pending = {p} /\ OneResult(up[c], p.action.id)
    BY <1>3 DEF Heard, IInv, OnePends
  <1>5. up[c][1].id = p.action.id /\ NoResult(up'[c])
    BY <1>2, <1>4, ResultsLeft
  <1>6. pending' = {}
    BY <1>2, <1>4, <1>5 DEF ReadResult
  <1>7. Heard(c)'
    BY <1>5, <1>6 DEF Heard, NoResult, Truthful
  <1>8. ASSUME appEnd[c] = "open"
        PROVE  Live(c)'
    <2>1. Carries(c, p.action)
      BY <1>3, <1>4, <1>8 DEF Live
    <2>2. down[c] = <<>> /\ Idle
      BY <1>3, <2>1 DEF Carries
    <2>3. Quiet(c)'
      BY <1>2, <1>5, <2>2 DEF Quiet, Idle
    <2> QED
      BY <1>6, <2>3 DEF Live, Truthful
  <1>9. CarriedAt(c)'
    BY <1>1, <1>2, <1>7, <1>8 DEF CarriedAt
  <1> QED
    BY <1>1, <1>2, <1>9, OneIsCurrent

LEMMA CloseConnectionCarried ==
    ASSUME IInv, NEW c \in Conns, CloseConnection(c) \/ ConnectionClosed(c)
    PROVE  Carried'
  <1>0. TypeOK /\ Carried
    BY DEF IInv
  <1>1. /\ brokerEnd'[c] # "open"
        /\ \A b \in Conns : b # c => up'[b] = up[b] /\ brokerEnd'[b] = brokerEnd[b]
        /\ UNCHANGED <<down, appEnd, socket, queue, active, results, firstConn, processed, done>>
    BY <1>0 DEF CloseConnection, ConnectionClosed, TypeOK, clientVars, appVars
  <1>2. \/ UNCHANGED <<session, pending>>
        \/ IsCurrent(c) /\ \A b \in Conns : ~IsCurrent(b)'
    <2>1. CASE CloseConnection(c)
      BY <2>1 DEF CloseConnection, brokerVars
    <2>2. CASE ConnectionClosed(c) /\ ~IsCurrent(c)
      BY <2>2 DEF ConnectionClosed
    <2>3. CASE ConnectionClosed(c) /\ IsCurrent(c)
      <3>1. session \in Sessions /\ session' = [session EXCEPT !.conn = None]
        BY <1>0, <2>3 DEF ConnectionClosed, IsCurrent, TypeOK
      <3>2. session'.conn = None
        BY <3>1 DEF Sessions
      <3> QED
        BY <2>3, <3>2, Constants DEF IsCurrent
    <2> QED
      BY <2>1, <2>2, <2>3
  <1>3. ASSUME NEW b \in Conns, b # c
        PROVE  CarriedAt(b)'
    <2>1. Quiet(b) => Quiet(b)'
      BY <1>1, <1>3 DEF Quiet, Idle
    <2>2. CASE UNCHANGED <<session, pending>>
      <3>1. Heard(b) => Heard(b)'
        BY <1>1, <1>3, <2>2 DEF Heard, Truthful
      <3>2. \A a : Carries(b, a) => Carries(b, a)'
        BY <1>1, <1>3 DEF Carries, Idle, Waits, Runs, Reports
      <3>3. Live(b) => Live(b)'
        BY <1>1, <2>1, <2>2, <3>2 DEF Live, Truthful
      <3> QED
        BY <1>0, <1>1, <1>3, <2>1, <2>2, <3>1, <3>3 DEF Carried, CarriedAt, IsCurrent
    <2>3. CASE IsCurrent(c) /\ ~IsCurrent(b)'
      <3>1. ~IsCurrent(b)
        BY <1>3, <2>3 DEF IsCurrent
      <3> QED
        BY <1>0, <1>1, <1>3, <2>1, <2>3, <3>1 DEF Carried, CarriedAt
    <2> QED
      BY <1>2, <2>2, <2>3
  <1>4. CarriedAt(c)'
    BY <1>1 DEF CarriedAt
  <1> QED
    BY <1>3, <1>4 DEF Carried

LEMMA DispatchCarried ==
    ASSUME IInv, NEW a \in Actions, Dispatch(a)
    PROVE  Carried'
  <1>0. TypeOK /\ Carried
    BY DEF IInv
  <1>1. PICK c \in Conns : /\ c = Online /\ IsCurrent(c) /\ brokerEnd[c] = "open"
    BY <1>0 DEF Dispatch, Online, IsCurrent, TypeOK, Sessions
  <1>2. /\ pending = {} /\ pending' = {Pending(a, FALSE)} /\ Pending(a, FALSE).action = a
        /\ down'[c] = Append(down[c], a) /\ down[c] \in Seq(Actions)
        /\ \A b \in Conns : b # c => down'[b] = down[b]
        /\ UNCHANGED <<session, up, appEnd, brokerEnd, socket, queue, active, results>>
    BY <1>0, <1>1, RecordsAre DEF Dispatch, TypeOK, clientVars
  <1>3. IsCurrent(c)' /\ Heard(c) /\ (appEnd[c] = "open" => Quiet(c))
    BY <1>0, <1>1, <1>2 DEF Carried, CarriedAt, Live, IsCurrent
  <1>4. NoResult(up'[c])
    BY <1>2, <1>3 DEF Heard
  <1>5. Heard(c)'
    BY <1>2, <1>4 DEF Heard, NoResult, Truthful
  <1>6. ASSUME appEnd[c] = "open"
        PROVE  Live(c)'
    <2>1. down[c] = <<>> /\ Idle /\ Idle'
      <3>1. socket = c
        BY <1>6 DEF IInv, EndsMatch
      <3> QED
        BY <1>2, <1>3, <1>6, <3>1 DEF Quiet, Idle
    <2>2. Len(down'[c]) = 1 /\ down'[c][1] = a
      BY <1>2, <2>1
    <2>3. Carries(c, a)'
      BY <1>4, <2>1, <2>2 DEF Carries
    <2>4. \A i \in 1..Len(results') : FALSE
      BY <2>1 DEF Idle
    <2>5. pending' # {} /\ \A p \in pending' : p.action = a
      BY <1>2
    <2> QED
      BY <2>3, <2>4, <2>5 DEF Live
  <1>7. CarriedAt(c)'
    BY <1>2, <1>3, <1>5, <1>6 DEF CarriedAt
  <1>8. ASSUME NEW b \in Conns, b # c
        PROVE  CarriedAt(b)'
    <2>1. ~IsCurrent(b) /\ ~IsCurrent(b)'
      BY <1>1, <1>3, <1>8 DEF IsCurrent
    <2>2. Quiet(b) => Quiet(b)'
      BY <1>2, <1>8 DEF Quiet, Idle
    <2> QED
      BY <1>0, <1>2, <2>1, <2>2 DEF Carried, CarriedAt
  <1> QED
    BY <1>7, <1>8 DEF Carried

LEMMA CarriedKept ==
    ASSUME IInv, [Next]_vars, TypeOK', EndsMatch'
    PROVE  Carried'
  <1>0. TypeOK /\ OnePends /\ Carried
    BY DEF IInv
  <1>1. ASSUME UNCHANGED <<session, pending, brokerEnd, appEnd, up, down, clientVars>>, done \subseteq done'
        PROVE  Carried'
    <2>1. \A c \in Conns : Steady(c)
      BY <1>1 DEF Steady, clientVars
    <2> QED
      BY <1>0, <1>1, <2>1, CarriedFrame DEF Carried, clientVars
  <1>2. CASE OwnerChanges \/ UNCHANGED vars
    BY <1>1, <1>2 DEF OwnerChanges, vars, brokerVars, linkVars, appVars
  <1>3. ASSUME NEW a \in Actions, AdriftCompletes(a)
        PROVE  Carried'
    BY <1>1, <1>3 DEF AdriftCompletes, brokerVars, linkVars
  <1>4. CASE DeleteSession
    <2>1. \A c \in Conns : ~IsCurrent(c) /\ ~IsCurrent(c)'
      BY <1>4, Constants DEF DeleteSession, IsCurrent
    <2>2. \A c \in Conns : Quiet(c) => Quiet(c)'
      BY <1>4 DEF DeleteSession, Quiet, Idle, linkVars, clientVars
    <2> QED
      BY <1>0, <1>4, <2>1, <2>2 DEF DeleteSession, Carried, CarriedAt, linkVars
  <1>5. ASSUME NEW p \in pending, ActionTimesOut(p)
        PROVE  Carried'
    <2>1. p \in Pendings
      BY <1>0 DEF TypeOK, Pendings
    <2>2. Pending(p.action, TRUE).action = p.action
      BY <2>1, RecordsAre
    <2>3. \A q \in pending' : \E k \in pending : k.action = q.action
      BY <1>5, <2>2 DEF ActionTimesOut, Overdue
    <2>4. \A c \in Conns : Steady(c)
      BY <1>5, <2>3 DEF ActionTimesOut, Steady, clientVars, appVars
    <2>5. UNCHANGED <<session, brokerEnd, appEnd, up, down, socket, queue, active, results>>
      BY <1>5 DEF ActionTimesOut, linkVars, clientVars
    <2>6. ASSUME NEW c \in Conns
          PROVE  CarriedAt(c)'
      <3>1. CarriedAt(c) /\ (pending' = {} => pending = {})
        BY <1>0, <1>5 DEF Carried, ActionTimesOut, Overdue
      <3> QED
        BY <1>0, <2>4, <2>5, <3>1, CarriedFrame
    <2> QED
      BY <2>6 DEF Carried
  <1>6. ASSUME NEW p \in pending, SendFails(p)
        PROVE  Carried'
    <2>1. UNCHANGED <<session, brokerEnd, appEnd, up, down, socket, queue, active, results>>
      BY <1>6 DEF SendFails, linkVars, clientVars
    <2>2. \A c \in Conns : brokerEnd[c] = "open" => ~IsCurrent(c) /\ ~IsCurrent(c)'
      BY <1>6, <2>1 DEF SendFails, IsCurrent, Online
    <2>3. \A c \in Conns : Quiet(c) => Quiet(c)'
      BY <2>1 DEF Quiet, Idle
    <2> QED
      BY <1>0, <2>1, <2>2, <2>3 DEF Carried, CarriedAt
  <1> QED
    BY <1>2, <1>3, <1>4, <1>5, <1>6, ConnectCarried, OnMessageCarried, HandleActionCarried, HostCarried,
       SendResultCarried, SendSnapshotCarried, CloseCarried, ReadHelloCarried, ReadSnapshotCarried,
       ReadResultCarried, CloseConnectionCarried, DispatchCarried
       DEF Next, Client, Broker

LEMMA IInvNext == IInv /\ [Next]_vars => IInv'
  <1> SUFFICES ASSUME IInv, [Next]_vars PROVE IInv'
    OBVIOUS
  <1>1. TypeOK' /\ EndsMatch' /\ OnePends'
    BY TypeOKKept, EndsMatchKept, OnePendsKept DEF IInv
  <1>2. Remembered' /\ Carried' /\ OnlyCurrentIsRead' /\ Numbered'
    BY <1>1, RememberedKept, CarriedKept, OnlyCurrentIsReadKept, NumberedKept
  <1> QED
    BY <1>1, <1>2 DEF IInv

-----------------------------------------------------------------------------
(* What OneActionOnTheWay counts, part by part. *)
GoingDown(c) == {<<"down", i, down[c][i].id>> : i \in DOMAIN down[c]}
AtClient ==
    {<<"queue", i, queue[i].action.id>> : i \in DOMAIN queue}
    \cup (IF active = None THEN {} ELSE {<<"active", 1, active.id>>})
    \cup {<<"results", i, results[i].id>> : i \in DOMAIN results}
GoingUp(c) ==
    {<<"up", i, up[c][i].id>> :
        i \in {j \in DOMAIN up[c] : up[c][j].type = "action-result"}}

LEMMA OnTheWayIs ==
    ASSUME TypeOK, NEW c \in Conns, socket = c
    PROVE  /\ OnTheWay(c) = GoingDown(c) \cup AtClient \cup GoingUp(c)
           /\ down[c] = <<>> => GoingDown(c) = {}
           /\ \A a : Len(down[c]) = 1 /\ down[c][1] = a => GoingDown(c) = {<<"down", 1, a.id>>}
           /\ Idle => AtClient = {}
           /\ \A a \in Actions : /\ Waits(a) => AtClient = {<<"queue", 1, a.id>>}
                                 /\ Runs(a) => AtClient = {<<"active", 1, a.id>>}
                                 /\ Reports(a) => AtClient = {<<"results", 1, a.id>>}
           /\ NoResult(up[c]) => GoingUp(c) = {}
           /\ \A id : OneResult(up[c], id) => \E k \in Nat : GoingUp(c) = {<<"up", k, id>>}
  <1>1. /\ down[c] \in Seq(Actions) /\ up[c] \in Seq(Messages)
        /\ queue \in Seq(Entries) /\ results \in Seq(Outbox)
    BY DEF TypeOK, Entries, Outbox
  <1>2. /\ DOMAIN down[c] = 1..Len(down[c]) /\ DOMAIN up[c] = 1..Len(up[c])
        /\ DOMAIN queue = 1..Len(queue) /\ DOMAIN results = 1..Len(results)
    BY <1>1
  <1>3. OnTheWay(c) = GoingDown(c) \cup AtClient \cup GoingUp(c)
    BY DEF OnTheWay, GoingDown, AtClient, GoingUp
  <1>4. down[c] = <<>> => GoingDown(c) = {}
    BY DEF GoingDown
  <1>5. ASSUME NEW a, Len(down[c]) = 1, down[c][1] = a
        PROVE  GoingDown(c) = {<<"down", 1, a.id>>}
    BY <1>2, <1>5 DEF GoingDown
  <1>6. Idle => AtClient = {}
    BY DEF Idle, AtClient
  <1>7. ASSUME NEW a \in Actions
        PROVE  /\ Waits(a) => AtClient = {<<"queue", 1, a.id>>}
               /\ Runs(a) => AtClient = {<<"active", 1, a.id>>}
               /\ Reports(a) => AtClient = {<<"results", 1, a.id>>}
    <2>1. a # None
      BY RecordsAre
    <2>2. ASSUME Waits(a) PROVE AtClient = {<<"queue", 1, a.id>>}
      BY <1>2, <2>2 DEF Waits, AtClient
    <2>3. ASSUME Runs(a) PROVE AtClient = {<<"active", 1, a.id>>}
      BY <2>1, <2>3 DEF Runs, AtClient
    <2>4. ASSUME Reports(a) PROVE AtClient = {<<"results", 1, a.id>>}
      BY <1>2, <2>4 DEF Reports, AtClient
    <2> QED
      BY <2>2, <2>3, <2>4
  <1>8. NoResult(up[c]) => GoingUp(c) = {}
    BY <1>2 DEF NoResult, IsResult, GoingUp
  <1>9. ASSUME NEW id, OneResult(up[c], id)
        PROVE  \E k \in Nat : GoingUp(c) = {<<"up", k, id>>}
    <2>1. PICK k \in 1..Len(up[c]) : /\ IsResult(up[c][k]) /\ up[c][k].id = id
                                     /\ \A i \in 1..Len(up[c]) : IsResult(up[c][i]) => i = k
      BY <1>9 DEF OneResult
    <2>2. {j \in DOMAIN up[c] : up[c][j].type = "action-result"} = {k}
      BY <1>2, <2>1 DEF IsResult
    <2>3. GoingUp(c) = {<<"up", k, id>>}
      BY <2>1, <2>2 DEF GoingUp
    <2> QED
      BY <2>3
  <1> QED
    BY <1>3, <1>4, <1>5, <1>6, <1>7, <1>8, <1>9

LEMMA IInvImpliesInv == IInv => Inv
  <1> SUFFICES ASSUME IInv PROVE Inv
    OBVIOUS
  <1>0. TypeOK /\ EndsMatch /\ OnePends /\ Carried /\ OnlyCurrentIsRead
    BY DEF IInv
  <1>1. ASSUME NEW c, c = Online, c # None, brokerEnd[c] = "open", appEnd[c] = "open"
        PROVE  /\ pending = {} => OnTheWay(c) = {}
               /\ pending # {} => \E p \in pending, x \in OnTheWay(c) :
                                     pending = {p} /\ OnTheWay(c) = {x} /\ x[3] = p.action.id
    <2>1. c \in Conns /\ IsCurrent(c)
      BY <1>0, <1>1 DEF Online, IsCurrent, TypeOK, Sessions
    <2>2. socket = c /\ Live(c)
      BY <1>0, <1>1, <2>1 DEF EndsMatch, Carried, CarriedAt
    <2>3. ASSUME pending = {}
          PROVE  OnTheWay(c) = {}
      <3>1. Quiet(c)
        BY <2>2, <2>3 DEF Live
      <3>2. GoingDown(c) = {} /\ AtClient = {} /\ GoingUp(c) = {}
        BY <1>0, <2>1, <2>2, <3>1, OnTheWayIs DEF Quiet
      <3> QED
        BY <1>0, <2>1, <2>2, <3>2, OnTheWayIs
    <2>4. ASSUME pending # {}
          PROVE  \E p \in pending, x \in OnTheWay(c) :
                    pending = {p} /\ OnTheWay(c) = {x} /\ x[3] = p.action.id
      <3>1. PICK p \in pending : pending = {p}
        BY <1>0, <2>4 DEF OnePends
      <3>2. Carries(c, p.action)
        BY <2>2 DEF Live
      <3>3. p.action \in Actions
        <4>1. p \in Pendings
          BY <1>0 DEF TypeOK, Pendings
        <4> QED
          BY <4>1, RecordsAre
      <3> DEFINE a == p.action
      <3>4. CASE Len(down[c]) = 1 /\ down[c][1] = a /\ Idle /\ NoResult(up[c])
        <4>1. OnTheWay(c) = {<<"down", 1, a.id>>}
          BY <1>0, <2>1, <2>2, <3>4, OnTheWayIs
        <4> QED
          BY <3>1, <4>1
      <3>5. CASE down[c] = <<>> /\ NoResult(up[c]) /\ (Waits(a) \/ Runs(a) \/ Reports(a))
        <4>1. PICK where : AtClient = {<<where, 1, a.id>>}
          BY <1>0, <2>1, <2>2, <3>3, <3>5, OnTheWayIs
        <4>2. OnTheWay(c) = {<<where, 1, a.id>>}
          BY <1>0, <2>1, <2>2, <3>5, <4>1, OnTheWayIs
        <4> QED
          BY <3>1, <4>2
      <3>6. CASE down[c] = <<>> /\ Idle /\ OneResult(up[c], a.id)
        <4>1. PICK k \in Nat : GoingUp(c) = {<<"up", k, a.id>>}
          BY <1>0, <2>1, <2>2, <3>6, OnTheWayIs
        <4>2. OnTheWay(c) = {<<"up", k, a.id>>}
          BY <1>0, <2>1, <2>2, <3>6, <4>1, OnTheWayIs
        <4> QED
          BY <3>1, <4>2
      <3> QED
        BY <3>2, <3>4, <3>5, <3>6 DEF Carries
    <2> QED
      BY <2>3, <2>4
  <1>2. OneActionOnTheWay
    BY <1>1 DEF OneActionOnTheWay
  <1> QED
    BY <1>0, <1>2 DEF Inv, OnePends

-----------------------------------------------------------------------------
(* Every state of the router, the connections and the client satisfies the *)
(* inductive invariant: what pends is what is on its way.                  *)
THEOREM IInvInvariant == Spec => []IInv
  BY InitIInv, IInvNext, PTL DEF Spec

(* The router of broker-actions.ts and the client of client.ts agree on    *)
(* the one action under way: while both ends of the device's connection    *)
(* are open exactly the pending action is on its way there or back, and    *)
(* the broker hears no connection but the current one.                     *)
THEOREM InvInvariant == Spec => []Inv
  BY IInvInvariant, IInvImpliesInv, PTL

(* resolveAction of broker-actions.ts tells a caller that an action        *)
(* succeeded only if the app completed that very action.                   *)
THEOREM AnswersTrue == Spec => []AnswersAreTrue
  <1>1. IInv => AnswersAreTrue
    BY DEF IInv, Remembered
  <1> QED
    BY <1>1, IInvInvariant, PTL

(* The replay cache of client.ts: no client starts an action for which it  *)
(* has told a caller that it succeeded.                                    *)
THEOREM ClientRunsOnce == Spec => RunsOnce
  <1>1. ASSUME IInv, [Next]_vars, active' \notin {None, active}, NEW r \in answers, r[1] = active'
        PROVE  r[2] < firstConn
    <2>1. TypeOK /\ Remembered
      BY <1>1 DEF IInv
    <2>2. r[1].id \in Ids /\ r[2] \in Nat /\ firstConn \in Nat
      <3>1. r[1] \in Actions /\ r[2] \in Conns
        BY <2>1 DEF TypeOK
      <3> QED
        BY <2>1, <3>1, RecordsAre DEF Conns, TypeOK
    <2>3. HandleAction
      <3>1. CASE HostCompletes \/ HostRejects \/ HostTimesOut
        BY <1>1, <2>1, <3>1, HostIs DEF Outcome
      <3>2. CASE OnMessage \/ SendResult \/ SendSnapshot
        BY <1>1, <2>1, <3>2, OnMessageIs, SendResultIs, SendSnapshotIs
      <3>3. CASE OnClose \/ RestartClient
        BY <1>1, <3>3 DEF OnClose, RestartClient, Detach
      <3>4. ASSUME NEW c \in Conns, ReadHello(c) \/ ReadSnapshot(c) \/ ReadResult(c) \/ Connect(c)
                                    \/ CloseConnection(c) \/ ConnectionClosed(c)
            PROVE  FALSE
        BY <1>1, <3>4 DEF ReadHello, ReadSnapshot, ReadResult, Read, Connect, CloseConnection,
                          ConnectionClosed, clientVars
      <3>5. ASSUME NEW a \in Actions, AdriftCompletes(a) \/ Dispatch(a)
            PROVE  FALSE
        BY <1>1, <3>5 DEF AdriftCompletes, Dispatch, clientVars
      <3>6. ASSUME NEW p \in pending, ActionTimesOut(p) \/ SendFails(p)
            PROVE  FALSE
        BY <1>1, <3>6 DEF ActionTimesOut, SendFails, clientVars
      <3>7. CASE DeleteSession \/ OwnerChanges \/ UNCHANGED vars
        BY <1>1, <3>7 DEF DeleteSession, OwnerChanges, vars, clientVars
      <3> QED
        BY <1>1, <3>1, <3>2, <3>3, <3>4, <3>5, <3>6, <3>7 DEF Next, Client, Broker
    <2>4. processed[active'.id] = None
      BY <1>1, <2>1, <2>3, HandleActionIs
    <2>5. ~(r[2] >= firstConn)
      BY <1>1, <2>1, <2>4 DEF Remembered
    <2> QED
      BY <2>2, <2>5
  <1>2. IInv /\ [Next]_vars =>
           [active' \notin {None, active} => \A r \in answers : r[1] = active' => r[2] < firstConn]_vars
    BY <1>1
  <1> QED
    BY <1>2, IInvInvariant, PTL DEF Spec, RunsOnce

(* The sequence check of #handleSnapshot drops nothing of a connection     *)
(* that has just been registered: each snapshot read is the one shown.     *)
THEOREM CurrentIsShown == Spec => SnapshotsAreShown
  <1>1. ASSUME IInv, NEW c \in Conns, ReadSnapshot(c)
        PROVE  session'.shown = Message(c).sequence
    <2>1. TypeOK /\ Numbered
      BY <1>1 DEF IInv
    <2>2. /\ IsCurrent(c) /\ Read(c, "snapshot")
          /\ up[c][1].sequence > session.sequence => session'.shown = up[c][1].sequence
          /\ session.sequence \in Nat /\ up[c][1].sequence \in Nat
      BY <1>1, <2>1, ReadSnapshotIs, Constants DEF Sessions
    <2>3. /\ brokerEnd[c] = "open" /\ Message(c) = up[c][1] /\ IsSnapshot(up[c][1]) /\ 1 \in 1..Len(up[c])
      BY <2>1, <2>2, ReadIs DEF IsSnapshot
    <2>4. session.sequence < up[c][1].sequence
      BY <2>1, <2>2, <2>3 DEF Numbered, Above
    <2> QED
      BY <2>2, <2>3, <2>4
  <1>2. IInv /\ [Next]_vars =>
           [\A c \in Conns : ReadSnapshot(c) => session'.shown = Message(c).sequence]_vars
    BY <1>1
  <1> QED
    BY <1>2, IInvInvariant, PTL DEF Spec, SnapshotsAreShown
=============================================================================
