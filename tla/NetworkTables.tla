--------------------------- MODULE NetworkTables ---------------------------
(***************************************************************************)
(* A NetworkTables server and its clients: each has a Storage; a client's  *)
(* connection carries its changes to the server, which passes them on to   *)
(* the other clients (Storage.cpp, Dispatcher.cpp, NetworkConnection.cpp). *)
(*                                                                         *)
(* A thread changes its node's storage under the storage mutex, releases   *)
(* it, and only then queues the messages (m_queue_outgoing): between the   *)
(* two it holds them in its hand, and another thread may overtake it.      *)
(* The dispatch thread posts what is queued; the read thread at the other  *)
(* end takes one message at a time.  A connection may be lost at any time, *)
(* and the server may restart.                                             *)
(***************************************************************************)
EXTENDS Storage, FiniteSets

CONSTANTS Clients, Server,
          Writers,     \* the nodes that write an entry
          Writes,      \* the values each entry is set to
          Clearers,    \* the nodes that delete all entries
          Connected,   \* the clients connected, to an empty table, at the start
          MaxOps,      \* bound: changes by the programs
          MaxFaults    \* bound: connections lost and server restarts

Nodes == Clients \cup {Server}

ASSUME TablesAssumption ==
  /\ Server \notin Clients
  /\ Writers \in [Names -> SUBSET Nodes]
  /\ Writes \in [Names -> SUBSET Values]
  /\ Connected \subseteq Clients /\ Clearers \subseteq Nodes
  /\ MaxOps \in Nat /\ MaxFaults \in Nat

VARIABLES store,      \* the storage of each node
          view,       \* what a listener of each node was told of every entry
          hand,       \* per node: messages not queued yet, in the order of the lock
          pendC,      \* queued by a client for the server
          pendS,      \* queued by the server for a client
          toServer, toClient,   \* posted: the streams of each connection
          link,       \* how far the handshake of each client has come
          file,       \* the server's persistent file
          ops, faults,
          seen        \* history: of the events below, which have happened

net  == <<pendC, pendS, toServer, toClient, link>>
vars == <<store, view, hand, net, file, ops, faults, seen>>

Q == INSTANCE Outgoing WITH KnownIds <- Ids, NoEntryId <- NoId

\* A message or a snapshot overtook the message of an earlier change; flags
\* were changed; all entries deleted.
Events == {"overtaken", "flagged", "cleared"}
SeenIf(b, e) == IF b THEN seen \cup {e} ELSE seen
Overtaken == "overtaken" \in seen

NoFile == [n \in Names |-> NoValue]

Init ==
  /\ store = [x \in Nodes |-> EmptyStore(x = Server)]
  /\ view = [x \in Nodes |-> NoFile]
  /\ hand = [x \in Nodes |-> <<>>]
  /\ pendC = [c \in Clients |-> Q!NoPending]
  /\ pendS = [c \in Clients |-> Q!NoPending]
  /\ toServer = [c \in Clients |-> <<>>]
  /\ toClient = [c \in Clients |-> <<>>]
  /\ link = [c \in Clients |-> IF c \in Connected THEN "up" ELSE "down"]
  /\ file = NoFile
  /\ ops = 0 /\ faults = 0 /\ seen = {}
-----------------------------------------------------------------------------
(* A thread's pass through the storage.                                    *)

Told(v, notes) ==
  [n \in Names |->
     IF \E k \in DOMAIN notes : notes[k].name = n
     THEN LET k == CHOOSE k \in DOMAIN notes : notes[k].name = n
          IN IF "delete" \in notes[k].kinds THEN NoValue ELSE notes[k].value
     ELSE v[n]]

\* The thread must have queued what it held before it comes back.
Free(x, t) == \A k \in DOMAIN hand[x] : hand[x][k].thread # t

\* conn is the connection the change came over, or "none".
Pass(x, t, conn, r) ==
  /\ Free(x, t)
  /\ store' = [store EXCEPT ![x] = r.st]
  /\ view' = [view EXCEPT ![x] = Told(@, r.notes)]
  /\ hand' = IF r.out = <<>> THEN hand
             ELSE [hand EXCEPT ![x] =
                     Append(@, [thread |-> t, conn |-> conn, out |-> r.out])]

User == "user"

Change(x) ==
  /\ ops < MaxOps
  /\ HasRoom(store[Server])
  /\ \E n \in {m \in Names : x \in Writers[m]} :
       \/ \E v \in Writes[n] :
            \/ Pass(x, User, "none", SetDefaultEntryValue(store[x], n, v))
            \/ Pass(x, User, "none", SetEntryValue(store[x], n, v))
            \/ Pass(x, User, "none", SetEntryTypeValue(store[x], n, v))
       \/ Pass(x, User, "none", DeleteEntry(store[x], n))
  /\ ops' = ops + 1
  /\ UNCHANGED <<net, file, faults, seen>>

ChangeFlags(x) ==
  /\ ops < MaxOps
  /\ \E n \in {m \in Names : x \in Writers[m]}, f \in {0, 1} :
       Pass(x, User, "none", SetEntryFlags(store[x], n, f))
  /\ ops' = ops + 1
  /\ seen' = seen \cup {"flagged"}
  /\ UNCHANGED <<net, file, faults>>

Clear(x) ==
  /\ ops < MaxOps
  /\ Pass(x, User, "none", DeleteAllEntries(store[x]))
  /\ ops' = ops + 1
  /\ seen' = seen \cup {"cleared"}
  /\ UNCHANGED <<net, file, faults>>
-----------------------------------------------------------------------------
(* Dispatcher::QueueOutgoing: every synchronized connection but the one    *)
(* the change came over.                                                   *)

\* Mutant: a connection gets the changes only once it is active.
SynchronizedLate(c) == link[c] = "up"

\* Mutant: changes are queued whatever state a connection is in.
SynchronizedAlways(c) == TRUE

Synchronized(c) == link[c] \in {"sent", "applied", "up"}   \* the server's end
ClientActive(c) == link[c] \in {"applied", "up"}           \* the client's end

QueueAt(x, h) ==
  LET s == Head(h.out)
  IN IF x = Server
     THEN /\ pendS' = [c \in Clients |->
                         IF Synchronized(c) /\ ~(s.forward /\ h.conn = c)
                         THEN Q!QueueOutgoing(pendS[c], s.msg) ELSE pendS[c]]
          /\ UNCHANGED pendC
     ELSE /\ pendC' = [pendC EXCEPT ![x] =
                         IF ClientActive(x) THEN Q!QueueOutgoing(@, s.msg) ELSE @]
          /\ UNCHANGED pendS

\* What the threads hold once the kth has queued a message.
WithoutFirst(held, k) ==
  IF Len(held[k].out) > 1 THEN [held EXCEPT ![k].out = Tail(@)]
  ELSE SubSeq(held, 1, k - 1) \o SubSeq(held, k + 1, Len(held))

Queue(x, k) ==
  /\ k \in DOMAIN hand[x]
  /\ QueueAt(x, hand[x][k])
  /\ hand' = [hand EXCEPT ![x] = WithoutFirst(@, k)]
  /\ seen' = SeenIf(k > 1, "overtaken")
  /\ UNCHANGED <<store, view, toServer, toClient, link, file, ops, faults>>

\* PostOutgoing by the dispatch thread, then the write thread.
ServerPosts(c) ==
  /\ link[c] = "up" /\ pendS[c].msgs # <<>>
  /\ toClient' = [toClient EXCEPT ![c] = @ \o Q!Posted(pendS[c])]
  /\ pendS' = [pendS EXCEPT ![c] = Q!NoPending]
  /\ UNCHANGED <<store, view, hand, pendC, toServer, link, file, ops, faults, seen>>

ClientPosts(c) ==
  /\ ClientActive(c) /\ pendC[c].msgs # <<>>
  /\ toServer' = [toServer EXCEPT ![c] = @ \o Q!Posted(pendC[c])]
  /\ pendC' = [pendC EXCEPT ![c] = Q!NoPending]
  /\ UNCHANGED <<store, view, hand, pendS, toClient, link, file, ops, faults, seen>>
-----------------------------------------------------------------------------
(* The handshake.                                                          *)

Initial(msgs) == [type |-> "initial", msgs |-> msgs]
Reply(msgs)   == [type |-> "reply", msgs |-> msgs]

\* ClientThreadMain connects; ClientHandshake sends the hello.
Connect(c) ==
  /\ link[c] = "down"
  /\ link' = [link EXCEPT ![c] = "hello"]
  /\ UNCHANGED <<store, view, hand, pendC, pendS, toServer, toClient, file, ops, faults, seen>>

\* ServerHandshake: the snapshot is taken and the connection synchronized in
\* one hold of the storage mutex.
SendInitial(c) ==
  /\ link[c] = "hello"
  /\ link' = [link EXCEPT ![c] = "sent"]
  /\ toClient' = [toClient EXCEPT ![c] = <<Initial(GetInitialAssignments(store[Server]))>>]
  /\ seen' = SeenIf(hand[Server] # <<>>, "overtaken")
  /\ UNCHANGED <<store, view, hand, pendC, pendS, toServer, file, ops, faults>>

\* The server's hello always has flags 0: to every client it is a new server.
NewServer == TRUE

ApplyInitial(c) ==
  /\ link[c] = "sent" /\ toClient[c] # <<>>
  /\ Free(c, "reader")
  /\ LET r == ApplyInitialAssignments(store[c], Head(toClient[c]).msgs, NewServer)
     IN /\ Pass(c, "reader", "none", r)
        /\ toServer' = [toServer EXCEPT ![c] = <<Reply(r.requests)>>]
  /\ toClient' = [toClient EXCEPT ![c] = Tail(@)]
  /\ link' = [link EXCEPT ![c] = "applied"]
  /\ seen' = SeenIf(hand[c] # <<>>, "overtaken")
  /\ UNCHANGED <<pendC, pendS, file, ops, faults>>

\* The server processes the client's requests one by one, then is active.
FinishHandshake(c) ==
  /\ link[c] = "applied" /\ toServer[c] # <<>>
  /\ LET todo == Head(toServer[c]).msgs
     IN \/ /\ todo # <<>> /\ HasRoom(store[Server])
           /\ Pass(Server, c, c, ProcessIncoming(store[Server], Head(todo)))
           /\ toServer' = [toServer EXCEPT ![c][1] = Reply(Tail(todo))]
           /\ UNCHANGED link
        \/ /\ todo = <<>> /\ Free(Server, c)
           /\ toServer' = [toServer EXCEPT ![c] = Tail(@)]
           /\ link' = [link EXCEPT ![c] = "up"]
           /\ UNCHANGED <<store, view, hand>>
  /\ UNCHANGED <<pendC, pendS, toClient, file, ops, faults, seen>>

\* The read threads of an active connection.  They never meet a message that was
\* knocked out, since the write thread does not send it; here they pass over it.
ServerReads(c) ==
  /\ link[c] = "up" /\ toServer[c] # <<>> /\ HasRoom(store[Server])
  /\ IF Head(toServer[c]) = Q!None THEN UNCHANGED <<store, view, hand>>
     ELSE Pass(Server, c, c, ProcessIncoming(store[Server], Head(toServer[c])))
  /\ toServer' = [toServer EXCEPT ![c] = Tail(@)]
  /\ UNCHANGED <<pendC, pendS, toClient, link, file, ops, faults, seen>>

ClientReads(c) ==
  /\ ClientActive(c) /\ toClient[c] # <<>>
  /\ IF Head(toClient[c]) = Q!None THEN UNCHANGED <<store, view, hand>>
     ELSE Pass(c, "reader", "none", ProcessIncoming(store[c], Head(toClient[c])))
  /\ toClient' = [toClient EXCEPT ![c] = Tail(@)]
  /\ UNCHANGED <<pendC, pendS, toServer, link, file, ops, faults, seen>>
-----------------------------------------------------------------------------
(* Faults, and the persistent file.                                        *)

\* What was queued or under way is lost; a dead connection takes no messages.
Lost(C) ==
  /\ link' = [c \in Clients |-> IF c \in C THEN "down" ELSE link[c]]
  /\ pendC' = [c \in Clients |-> IF c \in C THEN Q!NoPending ELSE pendC[c]]
  /\ pendS' = [c \in Clients |-> IF c \in C THEN Q!NoPending ELSE pendS[c]]
  /\ toServer' = [c \in Clients |-> IF c \in C THEN <<>> ELSE toServer[c]]
  /\ toClient' = [c \in Clients |-> IF c \in C THEN <<>> ELSE toClient[c]]

Disconnect(c) ==
  /\ faults < MaxFaults /\ link[c] # "down"
  /\ Lost({c})
  /\ faults' = faults + 1
  /\ UNCHANGED <<store, view, hand, file, ops, seen>>

PersistentValues(st) ==
  [n \in Names |-> IF Has(st, n) /\ IsPersistent(st.entries[n])
                   THEN st.entries[n].value ELSE NoValue]

SavePersistent ==
  /\ store[Server].dirty
  /\ file' = PersistentValues(store[Server])
  /\ store' = [store EXCEPT ![Server].dirty = FALSE]
  /\ UNCHANGED <<view, hand, net, ops, faults, seen>>

\* LoadPersistent at the start: entries get ids, keep sequence number 0.
Loaded(f) ==
  LET names == SetToSeq({n \in Names : f[n] # NoValue})
      idOf(n) == CHOOSE k \in DOMAIN names : names[k] = n
  IN [EmptyStore(TRUE) EXCEPT
        !.entries = [n \in Names |->
                       IF f[n] = NoValue THEN Fresh
                       ELSE [value |-> f[n], flags |-> 1, id |-> idOf(n) - 1, seq |-> 0]],
        !.idmap = [i \in Ids |-> IF i < Len(names) THEN names[i + 1] ELSE NoName],
        !.size = Len(names)]

ServerRestarts ==
  /\ faults < MaxFaults
  /\ Lost(Clients)
  /\ store' = [store EXCEPT ![Server] = Loaded(file)]
  /\ view' = [view EXCEPT ![Server] = file]
  /\ hand' = [hand EXCEPT ![Server] = <<>>]
  /\ faults' = faults + 1
  /\ UNCHANGED <<file, ops, seen>>
-----------------------------------------------------------------------------
ClientStep(c) ==
  \/ Connect(c) \/ SendInitial(c) \/ ApplyInitial(c) \/ FinishHandshake(c)
  \/ ServerPosts(c) \/ ClientPosts(c) \/ ServerReads(c) \/ ClientReads(c)

Queueing(x) == \E k \in DOMAIN hand[x] : Queue(x, k)

Next ==
  \/ \E x \in Nodes : Change(x) \/ ChangeFlags(x) \/ Queueing(x)
  \/ \E x \in Clearers : Clear(x)
  \/ \E c \in Clients : ClientStep(c) \/ Disconnect(c)
  \/ SavePersistent
  \/ ServerRestarts

\* Threads keep running: a hand is queued, a message posted and read, and a
\* lost client connects again.  Programs and faults are not fair.
Fairness ==
  /\ \A x \in Nodes : WF_vars(Queueing(x))
  /\ \A c \in Clients : WF_vars(ClientStep(c))

Spec == Init /\ [][Next]_vars /\ Fairness
-----------------------------------------------------------------------------
(* Properties.                                                             *)

\* Every variable has its type: at any time the storages, hands and streams of
\* the nodes hold entries and messages the code can make, and a connection that
\* is down has nothing queued or under way.
TypeOK ==
  /\ store \in [Nodes -> Store]
  /\ view \in [Nodes -> [Names -> Values \cup {NoValue}]]
  /\ file \in [Names -> Values \cup {NoValue}]
  /\ link \in [Clients -> {"down", "hello", "sent", "applied", "up"}]
  /\ ops \in 0 .. MaxOps /\ faults \in 0 .. MaxFaults /\ seen \subseteq Events
  /\ DOMAIN hand = Nodes
  /\ \A x \in Nodes : \A k \in DOMAIN hand[x] : hand[x][k].out # <<>>
  /\ \A c \in Clients : link[c] = "down" =>
       /\ pendC[c] = Q!NoPending /\ pendS[c] = Q!NoPending
       /\ toServer[c] = <<>> /\ toClient[c] = <<>>

\* An entry that has an id is the one its id leads to.
Linked(st) ==
  /\ \A i \in Ids : st.idmap[i] # NoName => i < st.size
  /\ \A n \in Names : st.entries[n].id # NoId =>
       Has(st, n) /\ st.idmap[st.entries[n].id] = n

LeadsBack(st, i) == Has(st, st.idmap[i]) /\ st.entries[st.idmap[i]].id = i

\* The table and its id map point at each other.
MapSound(st) ==
  Linked(st) /\ \A i \in Ids : st.idmap[i] # NoName => LeadsBack(st, i)

\* On the server every entry has an id and the id map is exact, whatever the
\* threads do.
ServerMapSound ==
  /\ MapSound(store[Server])
  /\ \A n \in Present(store[Server]) : store[Server].entries[n].id # NoId

\* A client finds the entry of an id by it, whatever the threads do; but it may
\* keep an old id that leads to the same entry.
ClientsLinked == \A c \in Clients : Linked(store[c])

\* While connected, client and server mean the same entry by an id, however the
\* messages overtake each other: a server never uses an id again.
IdsAgree ==
  \A c \in Clients, i \in Ids :
    /\ ClientActive(c)
    /\ store[c].idmap[i] # NoName
    /\ store[Server].idmap[i] # NoName
    => store[c].idmap[i] = store[Server].idmap[i]

\* The entries that one node alone writes: what is said of the order of messages is
\* said of them.
OneWriter(n) == \E x \in Nodes : Writers[n] = {x}

\* No two ids of a client lead to one entry: the deletion of one would free what
\* the other leads to.
OneIdEach(c) ==
  \A i \in Ids :
    store[c].idmap[i] # NoName /\ OneWriter(store[c].idmap[i]) => LeadsBack(store[c], i)

\* No message or snapshot has overtaken another; no ClearEntries can have knocked
\* out the flags message that made an entry persistent, so that one side deletes
\* what the other keeps; and clients, for whose ClearEntries the server does not
\* wait, clear nothing.
Calm ==
  /\ ~Overtaken
  /\ ~({"flagged", "cleared"} \subseteq seen)
  /\ Clearers \subseteq {Server}

\* A value written to one entry lands in no other, on any node: the id an update
\* comes with means the entry that was set.  (What a client's thread held when the
\* server restarted it may queue once the client is connected again, with an id that
\* now means another entry.  But then the client's table has been merged with the
\* new server's before that message was queued, and so it was overtaken.)
ValuesOwn ==
  ~Overtaken \/ faults = 0 =>
    \A x \in Nodes, n \in Names : store[x].entries[n].value \in Writes[n] \cup {NoValue}

\* What the run checks of the ids and of what they lead to.  While all is calm, the
\* id map of a client is exact, too, for the entries that one node writes.  (When
\* several write an entry, one may delete what another assigns anew.)
IdsSound ==
  /\ ServerMapSound /\ ClientsLinked /\ IdsAgree /\ ValuesOwn
  /\ Calm => \A c \in Clients : OneIdEach(c)

Quiet(c) ==
  /\ link[c] = "up"
  /\ hand[c] = <<>> /\ hand[Server] = <<>>
  /\ pendC[c].msgs = <<>> /\ pendS[c].msgs = <<>>
  /\ toServer[c] = <<>> /\ toClient[c] = <<>>

\* A client has every entry of the server, with its value.
SameValues(c) ==
  \A n \in Present(store[Server]) :
    OneWriter(n) \/ Cardinality(Writes[n]) = 1 =>
      store[c].entries[n].value = store[Server].entries[n].value

\* When nothing is under way any more a client has the server's values of the
\* entries that one node writes, and of those that are only ever set to one value,
\* as long as no sequence number can have come round.  (Several writers: a client
\* counts the changes of an entry it was told of from 0, so that the server may
\* take its first one for old and ignore it.  Flags carry no sequence number and
\* may differ.  A fault: a server that takes an entry from a client that connects
\* again counts its updates from 0, which that client takes for old ones.)
Converged ==
  Calm /\ ops < Half /\ faults = 0 => \A c \in Clients : Quiet(c) => SameValues(c)

\* Listeners were told exactly what is in the table.
ListenersSeeTable ==
  \A x \in Nodes : \A n \in Names : view[x][n] = store[x].entries[n].value
=============================================================================
