----------------------------- MODULE DeviceLink -----------------------------
(***************************************************************************)
(* A device and the desktop: the action router and the session table of    *)
(* apps/desktop/src/main/broker.ts and broker-actions.ts, the client of    *)
(* packages/react-native/src/desktop/client.ts, and the WebSockets between *)
(* them.  There is one device; the broker keeps what it knows of each      *)
(* device apart.  A connection has two ends that close on their own, and   *)
(* what is in flight on it when it breaks may be lost.                     *)
(***************************************************************************)
EXTENDS Naturals, Sequences, FiniteSets

CONSTANTS
    Ids,           \* action identifiers
    Bodies,        \* what an action asks the app to do
    Owners,        \* who may authorize the tools in the app
    None,
    MaxPending,    \* MAX_PENDING_DESKTOP_ACTIONS
    MaxConns,      \* bound: connections ever made
    MaxDispatches, \* bound: actions ever sent
    MaxSequence    \* bound: snapshots one client sends

ASSUME LinkAssumption ==
    /\ None \notin Owners \cup Bodies \cup Nat
    /\ MaxPending \in Nat \ {0}
    /\ {MaxConns, MaxDispatches, MaxSequence} \subseteq Nat

Conns == 1..MaxConns
Actions == [id : Ids, body : Bodies]
Sessions == [conn : Conns \cup {None}, sequence : 0..MaxSequence, shown : 0..MaxSequence]
Outcomes == [body : Bodies, ok : BOOLEAN]

ASSUME NoneAssumption == None \notin Sessions \cup Actions \cup Outcomes

VARIABLES
    \* the desktop
    session,    \* the device's entry in #sessions, None if it has none
    pending,    \* the router's #pending
    dispatched, \* how many actions were sent
    answers,    \* the actions callers were told succeeded, by connection
    \* the connections
    up,         \* what the device sent and the broker has not read
    down,       \* what the broker sent and the device has not read
    appEnd,     \* the device's end of each connection
    brokerEnd,  \* the broker's end of each connection
    \* the client on the device
    firstConn,  \* the first connection of the client that runs now
    socket,     \* its connection
    sequence,   \* the number of its last snapshot
    queue,      \* actions accepted and not yet started
    active,     \* the action the host runs
    results,    \* the outbox: results not yet sent
    processed,  \* the replay cache
    \* the app that hosts it
    owner,      \* who has authorized the tools, None while they are disabled
    adrift,     \* actions the client gave up and the app may still complete
    done        \* actions the app has completed

brokerVars == <<session, pending, dispatched, answers>>
linkVars == <<up, down, appEnd, brokerEnd>>
clientVars == <<firstConn, socket, sequence, queue, active, results, processed>>
appVars == <<owner, adrift, done>>
vars == <<brokerVars, linkVars, clientVars, appVars>>

-----------------------------------------------------------------------------
Hello == [type |-> "hello"]
Snapshot(n) == [type |-> "snapshot", sequence |-> n]
Result(id, ok) == [type |-> "action-result", id |-> id, ok |-> ok]

Pending(a, late) == [action |-> a, timedOut |-> late]
Session(c, n, t) == [conn |-> c, sequence |-> n, shown |-> t]
Queued(a, o) == [action |-> a, owner |-> o]

NoTools == 0          \* createEmptyDeviceTools()

(* The connection of the device's session, None while it is offline. *)
Online == IF session = None THEN None ELSE session.conn

Connected == socket # None /\ appEnd[socket] = "open"

Send(m) == up' = [up EXCEPT ![socket] = Append(@, m)]

-----------------------------------------------------------------------------
Init ==
    /\ session = None
    /\ pending = {}
    /\ dispatched = 0
    /\ answers = {}
    /\ up = [c \in Conns |-> <<>>]
    /\ down = [c \in Conns |-> <<>>]
    /\ appEnd = [c \in Conns |-> "unused"]
    /\ brokerEnd = [c \in Conns |-> "unused"]
    /\ firstConn = 1
    /\ socket = None
    /\ sequence = 0
    /\ queue = <<>>
    /\ active = None
    /\ results = <<>>
    /\ processed = [id \in Ids |-> None]
    /\ owner \in Owners
    /\ adrift = {}
    /\ done = {}

-----------------------------------------------------------------------------
(* The client opens its next connection and says hello on it first. *)
Connect(c) ==
    /\ socket = None
    /\ appEnd[c] = "unused"
    /\ \A b \in 1..(c - 1) : appEnd[b] # "unused"
    /\ socket' = c
    /\ appEnd' = [appEnd EXCEPT ![c] = "open"]
    /\ brokerEnd' = [brokerEnd EXCEPT ![c] = "open"]
    /\ up' = [up EXCEPT ![c] = <<Hello>>]
    /\ UNCHANGED <<brokerVars, down, firstConn, sequence, queue, active,
                   results, processed, appVars>>

(* An answer to an action the client will not run, after which it closes. *)
Refuse(a) ==
    /\ Send(Result(a.id, FALSE))
    /\ appEnd' = [appEnd EXCEPT ![socket] = "closing"]
    /\ UNCHANGED queue

Admit(a) ==
    /\ owner # None
    /\ Len(queue) + (IF active = None THEN 0 ELSE 1) < MaxPending
    /\ queue' = Append(queue, Queued(a, owner))
    /\ UNCHANGED <<up, appEnd>>

(* An action arrives.  It is refused while the tools are not authorized,   *)
(* when too many wait, or when they come too fast, which may be any time.  *)
OnMessage ==
    /\ Connected
    /\ down[socket] # <<>>
    /\ down' = [down EXCEPT ![socket] = Tail(@)]
    /\ LET a == Head(down[socket]) IN Refuse(a) \/ Admit(a)
    /\ UNCHANGED <<brokerVars, brokerEnd, firstConn, socket, sequence,
                   active, results, processed, appVars>>

Authorized(e) == owner # None /\ owner = e.owner

Replayed_AnyBody(a) == processed[a.id] # None /\ processed[a.id].ok

(* What processedActions has of an identifier answers this very action     *)
(* only; another one with that identifier is refused.                      *)
Replayed(a) ==
    /\ processed[a.id] # None
    /\ processed[a.id].body = a.body
    /\ processed[a.id].ok

(* handleAction, at the action's turn: run by the host if the owner who    *)
(* authorized it still does and its identifier is new, answered if not.    *)
HandleAction ==
    /\ Connected
    /\ queue # <<>>
    /\ active = None
    /\ queue' = Tail(queue)
    /\ LET e == Head(queue)
           a == e.action IN
         IF Authorized(e) /\ processed[a.id] = None
         THEN active' = a /\ UNCHANGED results
         ELSE /\ results' = Append(results,
                               Result(a.id, Authorized(e) /\ Replayed(a)))
              /\ UNCHANGED active
    /\ UNCHANGED <<brokerVars, linkVars, firstConn, socket, sequence,
                   processed, appVars>>

Settle_Forgotten(ok) ==
    /\ active # None
    /\ active' = None
    /\ results' = Append(results, Result(active.id, ok))
    /\ UNCHANGED <<brokerVars, linkVars, firstConn, socket, sequence,
                   queue, processed, owner>>

(* The end of runHostAction: its outcome is remembered and queued. *)
Settle(ok) ==
    /\ active # None
    /\ active' = None
    /\ processed' = [processed EXCEPT
                        ![active.id] = [body |-> active.body, ok |-> ok]]
    /\ results' = Append(results, Result(active.id, ok))
    /\ UNCHANGED <<brokerVars, linkVars, firstConn, socket, sequence,
                   queue, owner>>

HostCompletes ==
    /\ Settle(TRUE)
    /\ done' = done \cup {active}
    /\ UNCHANGED adrift

HostRejects == Settle(FALSE) /\ UNCHANGED <<adrift, done>>

HostTimesOut_IfOthersWait ==
    /\ queue # <<>>
    /\ Settle(FALSE)
    /\ adrift' = adrift \cup {active}
    /\ UNCHANGED done

(* actionTimeoutMs: the desktop is told, and the queue moves on. *)
HostTimesOut ==
    /\ Settle(FALSE)
    /\ adrift' = adrift \cup {active}
    /\ UNCHANGED done

(* A host that does not heed its signal completes what was given up. *)
AdriftCompletes(a) ==
    /\ a \in adrift
    /\ adrift' = adrift \ {a}
    /\ done' = done \cup {a}
    /\ UNCHANGED <<brokerVars, linkVars, clientVars, owner>>

(* flushOutbox: results before the snapshot, which carries the state at    *)
(* the moment it is sent.  Its frame budget only delays it, and one        *)
(* snapshot a second is always due soon.                                   *)
SendResult ==
    /\ Connected
    /\ results # <<>>
    /\ Send(Head(results))
    /\ results' = Tail(results)
    /\ UNCHANGED <<brokerVars, down, appEnd, brokerEnd, firstConn, socket,
                   sequence, queue, active, processed, appVars>>

SendSnapshot ==
    /\ Connected
    /\ results = <<>>
    /\ sequence < MaxSequence
    /\ sequence' = sequence + 1
    /\ Send(Snapshot(sequence + 1))
    /\ UNCHANGED <<brokerVars, down, appEnd, brokerEnd, firstConn, socket,
                   queue, active, results, processed, appVars>>

(* What the end of a connection leaves of the client: nothing that waits,  *)
(* and the running action cancelled, its outcome not remembered.           *)
Detach ==
    /\ socket' = None
    /\ queue' = <<>>
    /\ active' = None
    /\ results' = <<>>
    /\ appEnd' = IF socket = None THEN appEnd
                 ELSE [appEnd EXCEPT ![socket] = "closed"]
    /\ down' = IF socket = None THEN down
               ELSE [down EXCEPT ![socket] = <<>>]
    /\ UNCHANGED <<brokerVars, up, brokerEnd, owner, done>>

GivenUp == IF active = None THEN adrift ELSE adrift \cup {active}

(* onclose, which a broken network may bring about at any time *)
OnClose ==
    /\ socket # None
    /\ Detach
    /\ adrift' = GivenUp
    /\ UNCHANGED <<firstConn, sequence, processed>>

(* The client is stopped and another one started, in the same app process  *)
(* or in a new one.                                                        *)
RestartClient ==
    /\ Detach
    /\ adrift' \in {GivenUp, {}}
    /\ firstConn' = Cardinality({c \in Conns : appEnd[c] # "unused"}) + 1
    /\ firstConn' > firstConn
    /\ sequence' = 0
    /\ processed' = [id \in Ids |-> None]

-----------------------------------------------------------------------------
(* The broker reads the next message of a connection it has not closed. *)
Message(c) == Head(up[c])

Read(c, type) ==
    /\ brokerEnd[c] = "open"
    /\ up[c] # <<>>
    /\ Message(c).type = type
    /\ up' = [up EXCEPT ![c] = Tail(@)]
    /\ UNCHANGED <<down, appEnd, dispatched, clientVars, appVars>>

Register_KeepsSequence(c) ==
    LET old == Online
        kept == IF session = None THEN 0 ELSE session.sequence IN
    /\ session' = Session(c, kept, NoTools)
    /\ IF old \in {None, c}
       THEN UNCHANGED <<pending, brokerEnd>>
       ELSE /\ pending' = {}
            /\ brokerEnd' = [brokerEnd EXCEPT ![old] =
                                IF @ = "open" THEN "closing" ELSE @]

(* #registerDevice: a new session, whose pending actions fail and whose    *)
(* older connection is closed if it still had one.                         *)
Register(c) ==
    LET old == Online IN
    /\ session' = Session(c, 0, NoTools)
    /\ IF old \in {None, c}
       THEN UNCHANGED <<pending, brokerEnd>>
       ELSE /\ pending' = {}
            /\ brokerEnd' = [brokerEnd EXCEPT ![old] =
                                IF @ = "open" THEN "closing" ELSE @]

ReadHello(c) ==
    /\ Read(c, "hello")
    /\ Register(c)
    /\ UNCHANGED answers

(* The session still belongs to this connection.  A message of any other   *)
(* one would have it closed; Inv shows that none is ever read.             *)
IsCurrent(c) == session # None /\ session.conn = c

(* A snapshot no newer than the one shown is dropped. What it says of the  *)
(* tools is as good as its number.                                         *)
ReadSnapshot(c) ==
    /\ Read(c, "snapshot")
    /\ IsCurrent(c)
    /\ session' = IF Message(c).sequence > session.sequence
                  THEN Session(session.conn, Message(c).sequence,
                               Message(c).sequence)
                  ELSE session
    /\ UNCHANGED <<pending, answers, brokerEnd>>

(* handleResult: the caller is told, unless it was told of a timeout. *)
ReadResult(c) ==
    /\ Read(c, "action-result")
    /\ IsCurrent(c)
    /\ LET answered == {p \in pending : p.action.id = Message(c).id} IN
         /\ pending' = pending \ answered
         /\ answers' = answers \cup
                {<<p.action, c>> : p \in {q \in answered :
                                             Message(c).ok /\ ~q.timedOut}}
    /\ UNCHANGED <<session, brokerEnd>>

(* The broker closes a connection: too many frames, an invalid one, or a   *)
(* snapshot beyond the budget of all devices.                              *)
CloseConnection(c) ==
    /\ brokerEnd[c] = "open"
    /\ brokerEnd' = [brokerEnd EXCEPT ![c] = "closing"]
    /\ UNCHANGED <<brokerVars, up, down, appEnd, clientVars, appVars>>

(* The close event, which a broken network or the maintenance ticker's     *)
(* terminate() may bring about at any time.                                *)
ConnectionClosed(c) ==
    /\ brokerEnd[c] \in {"open", "closing"}
    /\ brokerEnd' = [brokerEnd EXCEPT ![c] = "closed"]
    /\ up' = [up EXCEPT ![c] = <<>>]
    /\ IF IsCurrent(c)
       THEN session' = [session EXCEPT !.conn = None] /\ pending' = {}
       ELSE UNCHANGED <<session, pending>>
    /\ UNCHANGED <<dispatched, answers, down, appEnd, clientVars, appVars>>

(* An offline session expires, or makes room for others. *)
DeleteSession ==
    /\ session # None
    /\ session.conn = None
    /\ session' = None
    /\ UNCHANGED <<pending, dispatched, answers, linkVars, clientVars,
                   appVars>>

(* dispatch, when it does not refuse the action at once. *)
Dispatch(a) ==
    /\ dispatched < MaxDispatches
    /\ Online # None
    /\ brokerEnd[Online] = "open"
    /\ pending = {}
    /\ dispatched' = dispatched + 1
    /\ pending' = {Pending(a, FALSE)}
    /\ down' = [down EXCEPT ![Online] = Append(@, a)]
    /\ UNCHANGED <<session, answers, up, appEnd, brokerEnd, clientVars,
                   appVars>>

Overdue_Dropped(p) == pending \ {p}

(* The caller is told the outcome is unknown; the action stays pending. *)
Overdue(p) == (pending \ {p}) \cup {Pending(p.action, TRUE)}

ActionTimesOut(p) ==
    /\ p \in pending
    /\ ~p.timedOut
    /\ pending' = Overdue(p)
    /\ UNCHANGED <<session, dispatched, answers, linkVars, clientVars,
                   appVars>>

(* The callback of send reports that the socket took nothing. *)
SendFails(p) ==
    /\ p \in pending
    /\ brokerEnd[Online] # "open"
    /\ pending' = pending \ {p}
    /\ UNCHANGED <<session, dispatched, answers, linkVars, clientVars,
                   appVars>>

-----------------------------------------------------------------------------
(* The owner of the app's tools comes and goes. *)
OwnerChanges ==
    /\ owner' \in (Owners \cup {None}) \ {owner}
    /\ UNCHANGED <<brokerVars, linkVars, clientVars, adrift, done>>

-----------------------------------------------------------------------------
Client ==
    \/ \E c \in Conns : Connect(c)
    \/ OnMessage \/ HandleAction
    \/ HostCompletes \/ HostRejects \/ HostTimesOut
    \/ \E a \in Actions : AdriftCompletes(a)
    \/ SendResult \/ SendSnapshot
    \/ OnClose \/ RestartClient

Broker ==
    \/ \E c \in Conns :
          \/ ReadHello(c) \/ ReadSnapshot(c) \/ ReadResult(c)
          \/ CloseConnection(c) \/ ConnectionClosed(c)
    \/ DeleteSession
    \/ \E a \in Actions : Dispatch(a)
    \/ \E p \in pending : ActionTimesOut(p) \/ SendFails(p)

Next == Client \/ Broker \/ OwnerChanges

Spec == Init /\ [][Next]_vars

(* What the timers and the scheduling of the two sides see to: every       *)
(* message that can be read is read, a host action that does not end is    *)
(* given up, results are sent once the frame budget has room, and each end *)
(* of a connection notices in the end that the other one is gone.          *)
AppNotices(c) ==
    /\ socket = c
    /\ brokerEnd[c] \in {"closing", "closed"}
    /\ down[c] = <<>> \/ appEnd[c] = "closing"
    /\ OnClose

BrokerNotices(c) ==
    /\ appEnd[c] \in {"closing", "closed"}
    /\ up[c] = <<>> \/ brokerEnd[c] = "closing"
    /\ ConnectionClosed(c)

Fairness ==
    /\ WF_vars(OnMessage)
    /\ WF_vars(HandleAction)
    /\ WF_vars(HostTimesOut)
    /\ WF_vars(SendResult)
    /\ \A c \in Conns :
          /\ WF_vars(ReadHello(c) \/ ReadSnapshot(c) \/ ReadResult(c))
          /\ WF_vars(AppNotices(c))
          /\ WF_vars(BrokerNotices(c))

FairSpec == Spec /\ Fairness

-----------------------------------------------------------------------------
Messages ==
    {Hello} \cup {Snapshot(n) : n \in 1..MaxSequence}
            \cup {Result(id, ok) : id \in Ids, ok \in BOOLEAN}
Ends == {"unused", "open", "closing", "closed"}

TypeOK ==
    /\ session \in Sessions \cup {None}
    /\ pending \subseteq [action : Actions, timedOut : BOOLEAN]
    /\ dispatched \in 0..MaxDispatches
    /\ answers \subseteq Actions \X Conns
    /\ up \in [Conns -> Seq(Messages)]
    /\ down \in [Conns -> Seq(Actions)]
    /\ appEnd \in [Conns -> Ends]
    /\ brokerEnd \in [Conns -> Ends]
    /\ firstConn \in 1..(MaxConns + 1)
    /\ socket \in Conns \cup {None}
    /\ sequence \in 0..MaxSequence
    /\ queue \in Seq([action : Actions, owner : Owners])
    /\ active \in Actions \cup {None}
    /\ results \in Seq([type : {"action-result"}, id : Ids, ok : BOOLEAN])
    /\ processed \in [Ids -> Outcomes \cup {None}]
    /\ owner \in Owners \cup {None}
    /\ adrift \subseteq Actions
    /\ done \subseteq Actions

(* Where on a connection actions are: on their way to the host, at it, and *)
(* on their way back.                                                      *)
OnTheWay(c) ==
    {<<"down", i, down[c][i].id>> : i \in DOMAIN down[c]}
    \cup (IF socket # c THEN {}
          ELSE {<<"queue", i, queue[i].action.id>> : i \in DOMAIN queue}
               \cup (IF active = None THEN {} ELSE {<<"active", 1, active.id>>})
               \cup {<<"results", i, results[i].id>> : i \in DOMAIN results})
    \cup {<<"up", i, up[c][i].id>> :
             i \in {j \in DOMAIN up[c] : up[c][j].type = "action-result"}}

(* Per-device serialization ("the device must acknowledge it or reconnect  *)
(* before more actions are accepted", broker-actions.ts): while both ends  *)
(* of the device's connection are open, exactly the pending action is on   *)
(* its way to the host or back, and nothing is when none is pending.  So   *)
(* no action is lost without a result, none gets two, and the client's     *)
(* queue never fills.                                                      *)
OneActionOnTheWay ==
    LET c == Online IN
    c # None /\ brokerEnd[c] = "open" /\ appEnd[c] = "open" =>
        /\ pending = {} => OnTheWay(c) = {}
        /\ pending # {} => \E p \in pending, x \in OnTheWay(c) :
                              pending = {p} /\ OnTheWay(c) = {x} /\ x[3] = p.action.id

(* An action pends on a connected device only (broker.ts fails the pending *)
(* ones when the device disconnects or reconnects).                        *)
PendingIsOnline == pending # {} => Online # None

(* A connection the broker still reads, and has read the hello of, is the  *)
(* session's: a replaced connection is never heard again.                  *)
OnlyCurrentIsRead ==
    \A c \in Conns : brokerEnd[c] = "open" =>
        IsCurrent(c) \/ (up[c] # <<>> /\ Message(c) = Hello)

Inv == TypeOK /\ PendingIsOnline /\ OneActionOnTheWay /\ OnlyCurrentIsRead

(* A caller is told that an action succeeded only if the app completed     *)
(* that very action, whatever identifiers are used again and whichever     *)
(* connections the action and its result took.                             *)
AnswersAreTrue == \A r \in answers : r[1] \in done

(* The replay protection of client.ts: a client does not run again an      *)
(* action for which it has told a caller that it succeeded.                *)
RunsOnce ==
    [][active' \notin {None, active} =>
          \A r \in answers : r[1] = active' => r[2] < firstConn]_vars

(* "accepts a fresh sequence when the same app session reconnects"         *)
(* (broker.test.ts): a snapshot of the current connection is always shown, *)
(* however far the client before it had counted.                           *)
SnapshotsAreShown ==
    [][\A c \in Conns : ReadSnapshot(c) =>
          session'.shown = Message(c).sequence]_vars

(* The router of broker-actions.ts holds a device's actions back until it  *)
(* acknowledges one or reconnects, so that has to happen: no action pends  *)
(* for ever, even if the host never ends it.                               *)
ActionsUnblock == pending # {} ~> pending = {}
=============================================================================
