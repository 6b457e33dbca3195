----------------------------- MODULE Dispatcher -----------------------------
(***************************************************************************)
(* The threads of a NetworkTables node and the life of its connections     *)
(* (Vision/src/Dispatcher.cpp, NetworkConnection.cpp,                      *)
(* include/support/ConcurrentQueue.h).                                     *)
(*                                                                         *)
(* "user" is the program that starts and stops the node; "main" is         *)
(* m_clientserver_thread, which makes connections and destroys dead ones   *)
(* while it holds m_user_mutex; the dispatch thread posts and watches; and *)
(* every connection has a read and a write thread.  A section under        *)
(* m_user_mutex that does not block is one step, taken while the mutex is  *)
(* free.  What messages say is left out.                                   *)
(***************************************************************************)
EXTENDS Integers, Sequences, SequencesExt, FiniteSets

CONSTANTS MaxConns,   \* bound: connections ever made
          MaxStarts,  \* bound: times the node is started
          MaxQueue,   \* bound: sets of messages in m_outgoing
          MaxBroken   \* bound: connections the other side or the network breaks

ASSUME DispatcherAssumption ==
  MaxConns \in Nat \ {0} /\ MaxStarts \in Nat \ {0} /\ MaxQueue \in Nat \ {0, 1}
  /\ MaxBroken \in Nat

Conns == 1 .. MaxConns
Old == 512   \* protocol revision 0x0200
New == 768   \* 0x0300

VARIABLES
  user,        \* where StartServer, StartClient or Stop has come to
  starts,
  active,      \* m_active
  server,      \* m_server
  connectors,  \* m_client_connectors is not empty
  accepting,   \* the acceptor has not been shut down
  mutex,       \* m_user_mutex: "free" or "main"; the other holders never block
  doReconnect, nextRev,   \* m_do_reconnect, m_reconnect_proto_rev
  main, dispatch,         \* where these threads are
  slots,       \* m_connections
  doomed, step,           \* the connections being destroyed; where Stop() is
  conn,        \* the connections
  made,        \* how many have been made
  unsup        \* history: times a server answered ProtoUnsup(0x0200)

threads == <<user, starts, active, server, connectors, accepting, mutex,
             doReconnect, nextRev, main, dispatch>>
table == <<slots, doomed, step, made>>
vars == <<threads, table, conn, unsup>>

\* q counts m_outgoing; told is what connection listeners were told, in order.
Blank == [state |-> "created", active |-> FALSE, open |-> TRUE, broken |-> FALSE,
          rev |-> New, serves |-> FALSE, q |-> 0, reader |-> "none", writer |-> "none",
          detached |-> {}, told |-> <<>>]

Init ==
  /\ user = "off" /\ starts = 0
  /\ active = FALSE /\ server = FALSE /\ connectors = FALSE /\ accepting = FALSE
  /\ mutex = "free" /\ doReconnect = FALSE /\ nextRev = New
  /\ main = "gone" /\ dispatch = "gone"
  /\ slots = <<>> /\ doomed = <<>> /\ step = "begin"
  /\ conn = [k \in Conns |-> Blank]
  /\ made = 0 /\ unsup = 0
-----------------------------------------------------------------------------
(* NetworkConnection.                                                      *)

\* Mutant: a connection that is dead can come up again.
SetStateRevives(c, s) ==
  [c EXCEPT !.state = s,
     !.told = @ \o (IF s = "active" /\ c.state # "active" THEN <<TRUE>> ELSE <<>>)
                \o (IF s = "dead" /\ c.state # "dead" THEN <<FALSE>> ELSE <<>>)]

\* One-shot notifications; nothing happens to a dead connection any more.
SetState(c, s) ==
  IF c.state = "dead" THEN c
  ELSE [c EXCEPT !.state = s,
          !.told = @ \o (IF s = "active" /\ c.state # "active" THEN <<TRUE>> ELSE <<>>)
                     \o (IF s = "dead" THEN <<FALSE>> ELSE <<>>)]

Pushed(c)  == [c EXCEPT !.q = IF @ < MaxQueue THEN @ + 1 ELSE @]
Closed(c)  == [c EXCEPT !.open = FALSE]
Killed(c)  == [SetState(c, "dead") EXCEPT !.active = FALSE]

\* Both threads start; what is left in m_outgoing is thrown away.  Which
\* handshake the read thread runs was bound when the connection was made.
Start(c, rev) ==
  IF c.active THEN c
  ELSE [SetState(c, "init") EXCEPT !.active = TRUE, !.q = 0, !.rev = rev,
                                   !.serves = server, !.reader = "start", !.writer = "start"]

Readable(c) == c.open /\ ~c.broken

Set(k, c) == conn' = [conn EXCEPT ![k] = c]
Only(k, c) == Set(k, c) /\ UNCHANGED <<threads, table, unsup>>

\* The write thread: the loop sees active when it starts and after each set.
WriterStarts(k) ==
  /\ conn[k].writer = "start"
  /\ Only(k, [conn[k] EXCEPT !.writer = IF conn[k].active THEN "pop" ELSE "exit"])

\* pop blocks while the queue is empty; send fails on a closed or broken stream.
WriterPops(k) ==
  /\ conn[k].writer = "pop" /\ conn[k].q > 0
  /\ \E sent \in (IF Readable(conn[k]) THEN {TRUE} ELSE BOOLEAN) :
       Only(k, [conn[k] EXCEPT !.q = @ - 1,
                               !.writer = IF sent /\ conn[k].active THEN "pop" ELSE "exit"])

WriterExits(k) ==
  /\ conn[k].writer = "exit"
  /\ Only(k, [Closed(Killed(conn[k])) EXCEPT !.writer = "gone"])

\* The read thread: a handshake that fails leaves the stream open and the
\* write thread waiting.
HandshakeFailed(c) == [Killed(c) EXCEPT !.reader = "gone"]

ReadDied(c) == [Pushed(Killed(Closed(c))) EXCEPT !.reader = "gone"]

\* ClientHandshake: the identity is read under the mutex, the hello sent.
ClientHello(k) ==
  /\ ~conn[k].serves /\ conn[k].reader = "start" /\ mutex = "free"
  /\ Only(k, [Pushed(SetState(conn[k], "handshake")) EXCEPT !.reader = "reply"])

\* ServerHandshake: the client's hello arrives; too high a revision is refused.
ServerGetsHello(k) ==
  /\ conn[k].serves /\ conn[k].reader = "start"
  /\ IF Readable(conn[k])
     THEN \/ Only(k, [SetState(conn[k], "handshake") EXCEPT !.reader = "initial"])
          \/ Only(k, HandshakeFailed(Pushed(conn[k])))
     ELSE Only(k, HandshakeFailed(conn[k]))

\* The server hello names the identity, read under the mutex; the initial
\* assignments make the connection synchronized.
ServerSendsInitial(k) ==
  /\ conn[k].serves /\ conn[k].reader = "initial" /\ mutex = "free"
  /\ Only(k, [Pushed(SetState(conn[k], "synchronized")) EXCEPT !.reader = "reply"])

\* The answer of the other side: assignments, or only for a client a refusal.
Answered(k) ==
  /\ conn[k].reader = "reply"
  /\ IF Readable(conn[k])
     THEN Only(k, [(IF conn[k].serves THEN conn[k] ELSE Pushed(SetState(conn[k], "synchronized")))
                     EXCEPT !.reader = "finish"])
     ELSE Only(k, HandshakeFailed(conn[k]))

Refused(k) ==
  /\ ~conn[k].serves /\ conn[k].reader = "reply" /\ Readable(conn[k]) /\ conn[k].rev = New
  /\ Set(k, [conn[k] EXCEPT !.reader = "unsup"])
  /\ unsup' = unsup + 1
  /\ UNCHANGED <<threads, table>>

\* ClientReconnect(0x0200), which needs the mutex, and does nothing if the node
\* has become a server meanwhile.
FallsBack(k) ==
  /\ conn[k].reader = "unsup" /\ (server \/ mutex = "free")
  /\ nextRev' = IF server THEN nextRev ELSE Old
  /\ doReconnect' = (doReconnect \/ ~server)
  /\ Set(k, HandshakeFailed(conn[k]))
  /\ UNCHANGED <<user, starts, active, server, connectors, accepting, mutex, main,
                 dispatch, table, unsup>>

HandshakeDone(k) ==
  /\ conn[k].reader = "finish"
  /\ Only(k, [SetState(conn[k], "active") EXCEPT !.reader = "loop"])

Reads(k) ==
  /\ conn[k].reader = "loop"
  /\ IF conn[k].active /\ Readable(conn[k])
     THEN Only(k, [conn[k] EXCEPT !.reader = "process"])
     ELSE Only(k, ReadDied(conn[k]))

\* ProcessIncoming passes the message on: QueueOutgoing takes the mutex.
Processes(k) ==
  /\ conn[k].reader = "process" /\ mutex = "free"
  /\ Only(k, [conn[k] EXCEPT !.reader = "loop"])

\* The other side, or the network, breaks the connection.
Breaks(k) ==
  /\ k <= made /\ conn[k].open /\ ~conn[k].broken
  /\ Cardinality({j \in Conns : conn[j].broken}) < MaxBroken
  /\ Only(k, [conn[k] EXCEPT !.broken = TRUE])
-----------------------------------------------------------------------------
(* ~NetworkConnection: Stop(), run by the thread that drops the connection.*)

StopBegins ==
  /\ doomed # <<>> /\ step = "begin"
  /\ Set(Head(doomed), Pushed(Closed(Killed(conn[Head(doomed)]))))
  /\ step' = "writer"
  /\ UNCHANGED <<threads, slots, doomed, made, unsup>>

\* Join the thread once it has signalled its end; detach it after 200 ms.
TimedOut == TRUE

Joins(t, c) ==
  \/ /\ c[t] \in {"gone", "none"}
     /\ Set(Head(doomed), c)
  \/ /\ c[t] \notin {"gone", "none"} /\ TimedOut
     /\ Set(Head(doomed), [c EXCEPT !.detached = @ \cup {t}])

StopWriter ==
  /\ doomed # <<>> /\ step = "writer"
  /\ Joins("writer", conn[Head(doomed)])
  /\ step' = "reader"
  /\ UNCHANGED <<threads, slots, doomed, made, unsup>>

StopReader ==
  /\ doomed # <<>> /\ step = "reader"
  /\ Joins("reader", [conn[Head(doomed)] EXCEPT !.q = 0])
  /\ step' = "begin" /\ doomed' = Tail(doomed)
  /\ UNCHANGED <<threads, slots, made, unsup>>
-----------------------------------------------------------------------------
(* DispatchThreadMain: woken by its period, or by Flush or Stop.           *)

\* Mutant: a dead connection is not looked for.
DispatchPassBlind ==
  /\ dispatch = "run" /\ active /\ mutex = "free"
  /\ \E posted \in SUBSET {k \in ToSet(slots) : conn[k].state = "active"} :
       conn' = [k \in Conns |-> IF k \in posted THEN Pushed(conn[k]) ELSE conn[k]]
  /\ UNCHANGED <<threads, table, unsup>>

\* Messages wait, or keep-alives are due on a client, for any set of them.
DispatchPass ==
  /\ dispatch = "run" /\ active /\ mutex = "free"
  /\ \E posted \in SUBSET {k \in ToSet(slots) : conn[k].state = "active"} :
       conn' = [k \in Conns |-> IF k \in posted THEN Pushed(conn[k]) ELSE conn[k]]
  /\ doReconnect' = (\/ doReconnect
                     \/ /\ ~server
                        /\ \E k \in ToSet(slots) : conn[k].state = "dead")
  /\ UNCHANGED <<user, starts, active, server, connectors, accepting, mutex, nextRev,
                 main, dispatch, table, unsup>>

DispatchEnds ==
  /\ dispatch = "run" /\ ~active
  /\ dispatch' = "gone"
  /\ UNCHANGED <<user, starts, active, server, connectors, accepting, mutex,
                 doReconnect, nextRev, main, table, conn, unsup>>
-----------------------------------------------------------------------------
(* ClientThreadMain.                                                       *)

MainGoes(pc) ==
  /\ main' = pc
  /\ UNCHANGED <<user, starts, server, connectors, accepting, doReconnect, nextRev, dispatch>>

ClientLoop ==
  /\ ~server /\ main = "loop"
  /\ MainGoes(IF active THEN "sleep" ELSE "gone")
  /\ UNCHANGED <<active, mutex, table, conn, unsup>>

ClientPicks ==
  /\ ~server /\ main = "sleep" /\ mutex = "free"
  /\ MainGoes(IF connectors THEN "connect" ELSE "loop")
  /\ UNCHANGED <<active, mutex, table, conn, unsup>>

\* The connector succeeds, and the new connection will replace the current
\* one; or it fails.
ClientConnects ==
  /\ ~server /\ main = "connect"
  /\ \/ MainGoes("loop") /\ UNCHANGED mutex
     \/ /\ made < MaxConns /\ mutex = "free"
        /\ MainGoes("replace") /\ mutex' = "main"
  /\ UNCHANGED <<active, table, conn, unsup>>

\* m_connections.resize(0), while the mutex is held.
ClientDrops ==
  /\ ~server /\ main = "replace" /\ slots # <<>>
  /\ doomed' = slots /\ slots' = <<>>
  /\ UNCHANGED <<threads, step, made, conn, unsup>>

ClientStarts ==
  /\ ~server /\ main = "replace" /\ slots = <<>> /\ doomed = <<>>
  /\ made' = made + 1 /\ slots' = <<made + 1>>
  /\ Set(made + 1, Start(Blank, nextRev))
  /\ nextRev' = New /\ doReconnect' = FALSE
  /\ mutex' = "free" /\ main' = "wait"
  /\ UNCHANGED <<user, starts, active, server, connectors, accepting, dispatch,
                 doomed, step, unsup>>

ClientWakes ==
  /\ main = "wait" /\ mutex = "free" /\ (~active \/ doReconnect)
  /\ MainGoes("loop")
  /\ UNCHANGED <<active, mutex, table, conn, unsup>>
-----------------------------------------------------------------------------
(* ServerThreadMain.                                                       *)

\* The acceptor may fail to start: the node is then inactive, but not stopped.
ServerListens ==
  /\ server /\ main = "loop" /\ active
  /\ \/ MainGoes("accept") /\ UNCHANGED active
     \/ MainGoes("gone") /\ active' = FALSE
  /\ UNCHANGED <<mutex, table, conn, unsup>>

ServerLoop ==
  /\ server /\ main \in {"loop", "again"}
  /\ \/ main = "again" /\ active /\ MainGoes("accept")
     \/ ~active /\ MainGoes("gone")
  /\ UNCHANGED <<active, mutex, table, conn, unsup>>

ServerAccepts ==
  /\ server /\ main = "accept"
  /\ \/ /\ ~accepting
        /\ MainGoes("gone") /\ active' = FALSE
        /\ UNCHANGED <<mutex, table>>
     \/ /\ accepting /\ ~active
        /\ MainGoes("gone") /\ UNCHANGED <<active, mutex, table>>
     \/ /\ accepting /\ active /\ made < MaxConns /\ mutex = "free"
        /\ MainGoes("place") /\ mutex' = "main"
        /\ made' = made + 1
        /\ UNCHANGED <<active, slots, doomed, step>>
  /\ UNCHANGED <<conn, unsup>>

DeadSlots == {i \in DOMAIN slots : conn[slots[i]].state = "dead"}

\* The new connection takes the first dead one's slot, which destroys that.
ServerPlaces ==
  /\ server /\ main = "place"
  /\ \/ DeadSlots = {} /\ slots' = Append(slots, made) /\ UNCHANGED doomed
     \/ \E i \in DeadSlots :
          /\ \A j \in DeadSlots : i <= j
          /\ slots' = [slots EXCEPT ![i] = made] /\ doomed' = <<slots[i]>>
  /\ main' = "start"
  /\ UNCHANGED <<user, starts, active, server, connectors, accepting, mutex,
                 doReconnect, nextRev, dispatch, step, made, conn, unsup>>

\* Mutant: the mutex is not released.
ServerStartsLocked ==
  /\ server /\ main = "start" /\ doomed = <<>>
  /\ Set(made, Start(conn[made], New))
  /\ MainGoes("again")
  /\ UNCHANGED <<active, mutex, table, unsup>>

ServerStarts ==
  /\ server /\ main = "start" /\ doomed = <<>>
  /\ Set(made, Start(conn[made], New))
  /\ mutex' = "free"
  /\ MainGoes("again")
  /\ UNCHANGED <<active, table, unsup>>
-----------------------------------------------------------------------------
(* The program.                                                            *)

UserGoes(pc) ==
  /\ user' = pc
  /\ UNCHANGED <<starts, server, mutex, nextRev, main, dispatch, made, conn, unsup>>

StartNode(isServer) ==
  /\ user = "off" /\ ~active /\ starts < MaxStarts
  /\ user' = "on" /\ starts' = starts + 1
  /\ active' = TRUE /\ server' = isServer
  /\ accepting' = isServer
  /\ connectors' = ~isServer    \* SetServer is called before StartClient
  /\ main' = "loop" /\ dispatch' = "run"
  /\ UNCHANGED <<mutex, doReconnect, nextRev, table, conn, unsup>>

Stop ==
  /\ user = "on"
  /\ active' = FALSE
  /\ UserGoes("connectors")
  /\ UNCHANGED <<connectors, accepting, doReconnect, slots, doomed, step>>

StopConnectors ==
  /\ user = "connectors" /\ mutex = "free"
  /\ connectors' = FALSE
  /\ UserGoes("reconnect")
  /\ UNCHANGED <<active, accepting, doReconnect, slots, doomed, step>>

\* ClientReconnect wakes the client thread; the acceptor is shut down.
StopReconnect ==
  /\ user = "reconnect" /\ (server \/ mutex = "free")
  /\ doReconnect' = (doReconnect \/ ~server)
  /\ nextRev' = IF server THEN nextRev ELSE New
  /\ accepting' = FALSE
  /\ user' = "join"
  /\ UNCHANGED <<starts, active, server, connectors, mutex, main, dispatch, table, conn, unsup>>

StopJoins ==
  /\ user = "join" /\ dispatch = "gone" /\ main = "gone" /\ mutex = "free"
  /\ doomed' = slots /\ slots' = <<>>
  /\ UserGoes("close")
  /\ UNCHANGED <<active, connectors, accepting, doReconnect, step>>

Stopped ==
  /\ user = "close" /\ doomed = <<>>
  /\ UserGoes("off")
  /\ UNCHANGED <<active, connectors, accepting, doReconnect, slots, doomed, step>>
-----------------------------------------------------------------------------
Writer(k) == WriterStarts(k) \/ WriterPops(k) \/ WriterExits(k)

Reader(k) ==
  \/ ClientHello(k) \/ ServerGetsHello(k) \/ ServerSendsInitial(k)
  \/ Answered(k) \/ Refused(k) \/ FallsBack(k) \/ HandshakeDone(k)
  \/ Reads(k) \/ Processes(k)

Dispatching == DispatchPass \/ DispatchEnds

MainThread ==
  \/ ClientLoop \/ ClientPicks \/ ClientConnects \/ ClientDrops \/ ClientStarts \/ ClientWakes
  \/ ServerListens \/ ServerLoop \/ ServerAccepts \/ ServerPlaces \/ ServerStarts

Destroying == StopBegins \/ StopWriter \/ StopReader

Stopping == StopConnectors \/ StopReconnect \/ StopJoins \/ Stopped

Next ==
  \/ \E k \in Conns : Writer(k) \/ Reader(k) \/ Breaks(k)
  \/ Dispatching \/ MainThread \/ Destroying
  \/ \E isServer \in BOOLEAN : StartNode(isServer)
  \/ Stop \/ Stopping

\* What a read thread waits for may never come.
AwaitsPeer(k) ==
  /\ Readable(conn[k])
  /\ \/ conn[k].reader \in {"reply", "loop"}
     \/ conn[k].serves /\ conn[k].reader = "start"

\* Every thread that can run does; programs and the network are not fair.
Fairness ==
  /\ \A k \in Conns : WF_vars(Writer(k)) /\ WF_vars(Reader(k) /\ ~AwaitsPeer(k))
  /\ WF_vars(DispatchPass /\ doReconnect' # doReconnect) /\ WF_vars(DispatchEnds)
  /\ WF_vars(MainThread) /\ WF_vars(Destroying) /\ WF_vars(Stopping)

Spec == Init /\ [][Next]_vars /\ Fairness
-----------------------------------------------------------------------------
(* Properties.                                                             *)

States == {"created", "init", "handshake", "synchronized", "active", "dead"}

\* The threads, connections and counters stay within their types, and the mutex
\* is held just where the code blocks with it.
TypeOK ==
  /\ user \in {"off", "on", "connectors", "reconnect", "join", "close"}
  /\ starts \in 0 .. MaxStarts /\ made \in 0 .. MaxConns /\ unsup \in 0 .. MaxConns
  /\ {active, server, connectors, accepting, doReconnect} \subseteq BOOLEAN
  /\ mutex = (IF main \in {"replace", "place", "start"} THEN "main" ELSE "free")
  /\ nextRev \in {Old, New}
  /\ main \in {"gone", "loop", "sleep", "connect", "replace", "wait",
               "accept", "place", "start", "again"}
  /\ dispatch \in {"run", "gone"} /\ step \in {"begin", "writer", "reader"}
  /\ slots \in Seq(1 .. made) /\ doomed \in Seq(1 .. made)
  /\ \A k \in Conns :
       /\ conn[k].state \in States /\ conn[k].q \in 0 .. MaxQueue
       /\ conn[k].rev \in {Old, New} /\ conn[k].detached \subseteq {"reader", "writer"}

\* Two threads and a destructor race to end a connection, and the read thread
\* may be about to declare it active: listeners are told of it at most once
\* that it is up, then once that it is down, and never the other way round.
ToldInOrder ==
  \A k \in Conns :
    /\ conn[k].told \in {<<>>, <<TRUE>>, <<FALSE>>, <<TRUE, FALSE>>}
    /\ conn[k].state = "active" => conn[k].told = <<TRUE>>

\* A connection out of the list is closed for good: a client never has two
\* connections on which it could send its changes.
OutOfListClosed ==
  \A k \in 1 .. made :
    k \notin ToSet(slots) \cup ToSet(doomed) /\ main \notin {"place", "start"} =>
      conn[k].state = "dead" /\ ~conn[k].open /\ ~conn[k].active

\* Each refusal of the protocol revision makes one connection at the old one;
\* the next starts with the latest again.
FallsBackOnce ==
  Cardinality({k \in Conns : conn[k].rev = Old}) <= unsup

\* After Stop() no thread runs but those it gave up waiting for, and the mutex
\* is free: the node can be started again.
StopLeavesNothing ==
  user = "off" /\ starts > 0 =>
    /\ main = "gone" /\ dispatch = "gone" /\ mutex = "free" /\ slots = <<>>
    /\ \A k \in 1 .. made, t \in {"reader", "writer"} :
         conn[k][t] \in {"gone", "none"} \/ t \in conn[k].detached

\* Stop() returns, although it waits for threads that may wait for the mutex
\* another thread holds while it waits for them.
StopReturns == user = "connectors" ~> user = "off"

\* A client whose connection died tries to connect again, unless it is stopped.
TriesAgain ==
  (/\ ~server /\ main = "wait" /\ \E k \in ToSet(slots) : conn[k].state = "dead")
    ~> (main = "connect" \/ ~active \/ ~connectors)

\* What the run checks of the connections in every state, besides their types.
ConnectionsSound == ToldInOrder /\ OutOfListClosed /\ FallsBackOnce /\ StopLeavesNothing

\* What the run checks of the threads' progress: Stop() returns, and a client
\* whose connection died tries again.
ThreadsProgress == StopReturns /\ TriesAgain
=============================================================================
