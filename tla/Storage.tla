------------------------------ MODULE Storage ------------------------------
(***************************************************************************)
(* The table of entries that every NetworkTables node keeps                *)
(* (Vision/src/Storage.cpp): one node's state is a record, and every       *)
(* operation, which the code performs under the storage mutex, is an       *)
(* operator from the old state to a result: the new state, the             *)
(* notifications queued for the listeners and the messages to be sent      *)
(* once the mutex is released.                                             *)
(*                                                                         *)
(* An entry that is not in the table is a Fresh one, whose value is        *)
(* NoValue: that is what the constructor of Entry makes.                   *)
(***************************************************************************)
EXTENDS SequenceNumber, Sequences, SequencesExt

CONSTANTS Names,   \* the names of entries
          Values,  \* their values, pairs of a type and some data
          MaxIds   \* bound: ids a server gives out in its life

NoId == 65535
Ids  == 0 .. (MaxIds - 1)

NoName  == ""
NoValue == <<"unassigned", 0>>

ASSUME StorageAssumption == /\ MaxIds \in Nat /\ MaxIds <= NoId
                            /\ IsFiniteSet(Names) /\ NoName \notin Names
                            /\ NoValue \notin Values

TypeOf(v) == v[1]

Fresh == [value |-> NoValue, flags |-> 0, id |-> NoId, seq |-> 0]

Entry == [value : Values \cup {NoValue}, flags : {0, 1},
          id : Ids \cup {NoId}, seq : SeqNums]

IsPersistent(e) == e.flags = 1

\* idmap is m_idmap, padded with null; size is its size().
Store == [server : BOOLEAN, entries : [Names -> Entry],
          idmap : [Ids -> Names \cup {NoName}], size : 0 .. MaxIds,
          dirty : BOOLEAN]

EmptyStore(isServer) ==
  [server |-> isServer, entries |-> [n \in Names |-> Fresh],
   idmap |-> [i \in Ids |-> NoName], size |-> 0, dirty |-> FALSE]

Has(st, n)     == st.entries[n].value # NoValue
Present(st)    == {n \in Names : Has(st, n)}
KnownId(st, i) == i < st.size /\ st.idmap[i] # NoName
HasRoom(st)    == st.size < MaxIds
-----------------------------------------------------------------------------
(* The messages that carry entries (Message.cpp).                          *)

EntryAssign(n, i, s, v, f) ==
  [type |-> "assign", name |-> n, id |-> i, seq |-> s, value |-> v, flags |-> f]
EntryUpdate(i, s, v) == [type |-> "update", id |-> i, seq |-> s, value |-> v]
FlagsUpdate(i, f)    == [type |-> "flags", id |-> i, flags |-> f]
EntryDelete(i)       == [type |-> "delete", id |-> i]
ClearEntries         == [type |-> "clear"]

AssignOf(n, e) == EntryAssign(n, e.id, e.seq, e.value, e.flags)

\* A message to queue: to every connection, or to all but its sender's.
ToAll(m)  == [msg |-> m, forward |-> FALSE]
Onward(m) == [msg |-> m, forward |-> TRUE]

\* A notification: the entry, its value and what happened to it.
Note(n, v, kinds) == [name |-> n, value |-> v, kinds |-> kinds]

Result(st, notes, out) == [st |-> st, notes |-> notes, out |-> out]
Ignored(st) == Result(st, <<>>, <<>>)

If(b, s) == IF b THEN s ELSE <<>>
-----------------------------------------------------------------------------
(* Changes of the table.                                                   *)

PutEntry(st, n, e) == [st EXCEPT !.entries[n] = e]

\* The server gives a new entry the next id; ids are never used again.
GiveId(st, n) ==
  [st EXCEPT !.entries[n].id = st.size,
             !.idmap = [@ EXCEPT ![st.size] = n],
             !.size = @ + 1]

IfServerGiveId(st, n) ==
  IF st.server /\ st.entries[n].id = NoId THEN GiveId(st, n) ELSE st

MarkDirty(st, b) == [st EXCEPT !.dirty = @ \/ b]

\* A client's idmap grows to hold the id it is told.
BindId(st, n, i) ==
  [st EXCEPT !.entries[n].id = i, !.idmap[i] = n,
             !.size = IF i >= @ THEN i + 1 ELSE @]

\* Mutant: the id map keeps pointing at the entry.
EraseKeepsId(st, n) == [st EXCEPT !.entries[n] = Fresh]

Erase(st, n) ==
  LET i == st.entries[n].id
  IN [st EXCEPT !.entries[n] = Fresh,
                !.idmap = IF i < st.size THEN [@ EXCEPT ![i] = NoName] ELSE @]
-----------------------------------------------------------------------------
(* The operations of the program that owns the node.                       *)

SetDefaultEntryValue(st, n, v) ==
  IF Has(st, n) THEN Ignored(st)
  ELSE LET s == IfServerGiveId(PutEntry(st, n, [Fresh EXCEPT !.value = v]), n)
       IN Result(s, <<Note(n, v, {"new", "local"})>>,
                 <<ToAll(AssignOf(n, s.entries[n]))>>)

SetEntryValue(st, n, v) ==
  LET e == st.entries[n]
      isNew == ~Has(st, n)
      changed == ~isNew /\ e.value # v
      put == IfServerGiveId(
               PutEntry(st, n, [e EXCEPT !.value = v,
                                         !.seq = IF changed THEN Inc(@) ELSE @]), n)
      now == put.entries[n]
  IN IF ~isNew /\ TypeOf(e.value) # TypeOf(v) THEN Ignored(st)
     ELSE Result(MarkDirty(put, IsPersistent(e) /\ changed),
                 If(isNew, <<Note(n, v, {"new", "local"})>>)
                   \o If(changed, <<Note(n, v, {"update", "local"})>>),
                 If(isNew, <<ToAll(AssignOf(n, now))>>)
                   \o If(changed /\ now.id # NoId,
                         <<ToAll(EntryUpdate(now.id, now.seq, v))>>))

\* May change the type of the entry, and then assigns it anew.
SetEntryTypeValue(st, n, v) ==
  LET e == st.entries[n]
      isNew == ~Has(st, n)
      retyped == TypeOf(e.value) # TypeOf(v)
      put == IfServerGiveId(
               PutEntry(st, n, [e EXCEPT !.value = v, !.seq = Inc(@)]), n)
      now == put.entries[n]
  IN IF e.value = v THEN Ignored(st)
     ELSE Result(MarkDirty(put, IsPersistent(e)),
                 <<Note(n, v, {IF isNew THEN "new" ELSE "update", "local"})>>,
                 If(retyped, <<ToAll(AssignOf(n, now))>>)
                   \o If(~retyped /\ now.id # NoId,
                         <<ToAll(EntryUpdate(now.id, now.seq, v))>>))

SetEntryFlags(st, n, f) ==
  LET e == st.entries[n]
  IN IF ~Has(st, n) \/ e.flags = f THEN Ignored(st)
     ELSE Result(MarkDirty(PutEntry(st, n, [e EXCEPT !.flags = f]), TRUE),
                 <<Note(n, e.value, {"flags", "local"})>>,
                 If(e.id # NoId, <<ToAll(FlagsUpdate(e.id, f))>>))

DeleteEntry(st, n) ==
  LET e == st.entries[n]
  IN IF ~Has(st, n) THEN Ignored(st)
     ELSE Result(MarkDirty(Erase(st, n), IsPersistent(e)),
                 <<Note(n, e.value, {"delete", "local"})>>,
                 If(e.id # NoId, <<ToAll(EntryDelete(e.id))>>))

\* Everything but the persistent entries goes.
DeleteAllEntriesImpl(st) ==
  LET gone == {n \in Present(st) : ~IsPersistent(st.entries[n])}
  IN [st EXCEPT !.entries = [n \in Names |-> IF n \in gone THEN Fresh ELSE @[n]],
                !.idmap = [i \in Ids |->
                             IF \E n \in gone : st.entries[n].id = i
                             THEN NoName ELSE @[i]]]

\* Mutant: the listeners are not told.
ClearNotesNone(st) == <<>>

ClearNotes(st) ==
  SetToSeq({Note(n, st.entries[n].value, {"delete", "local"}) :
              n \in {m \in Present(st) : ~IsPersistent(st.entries[m])}})

DeleteAllEntries(st) ==
  IF Present(st) = {} THEN Ignored(st)
  ELSE Result(DeleteAllEntriesImpl(st), ClearNotes(st), <<ToAll(ClearEntries)>>)
-----------------------------------------------------------------------------
(* ProcessIncoming: the messages another node sends.                       *)

\* A client's request for an id: only the first one for a name counts.
AssignRequest(st, m) ==
  IF Has(st, m.name) THEN Ignored(st)
  ELSE LET s == GiveId(PutEntry(st, m.name, [Fresh EXCEPT !.value = m.value,
                                                          !.flags = m.flags]), m.name)
       IN Result(MarkDirty(s, m.flags = 1), <<Note(m.name, m.value, {"new"})>>,
                 <<ToAll(AssignOf(m.name, s.entries[m.name]))>>)

\* The part common to server and client: the entry exists here.  mayNeed says
\* that this is the server's answer to a request for an id.
TakeAssign(st, n, m, mayNeed) ==
  LET e == st.entries[n]
      flags == IF mayNeed THEN e.flags ELSE m.flags
      new == [e EXCEPT !.value = m.value, !.seq = m.seq, !.flags = flags]
      kinds == {"update"} \cup (IF flags # e.flags THEN {"flags"} ELSE {})
      interim == If(mayNeed /\ m.flags # e.flags, <<ToAll(FlagsUpdate(m.id, e.flags))>>)
  IN IF Lt(m.seq, e.seq)
     THEN Result(st, <<>>,
                 interim \o If(mayNeed, <<ToAll(EntryUpdate(e.id, e.seq, e.value))>>))
     ELSE IF m.name # n THEN Result(st, <<>>, interim)
     ELSE Result(MarkDirty(PutEntry(st, n, new),
                           flags # e.flags \/ (flags = 1 /\ e.value # m.value)),
                 <<Note(n, m.value, kinds)>>,
                 interim \o If(st.server,
                               <<Onward(EntryAssign(n, m.id, m.seq, m.value, flags))>>))

ServerAssign(st, m) ==
  IF m.id = NoId THEN AssignRequest(st, m)
  ELSE IF ~KnownId(st, m.id) THEN Ignored(st)
  ELSE TakeAssign(st, st.idmap[m.id], m, FALSE)

ClientAssign(st, m) ==
  IF m.id = NoId THEN Ignored(st)
  ELSE IF KnownId(st, m.id) THEN TakeAssign(st, st.idmap[m.id], m, FALSE)
  ELSE IF Has(st, m.name) THEN TakeAssign(BindId(st, m.name, m.id), m.name, m, TRUE)
  ELSE Result(BindId(PutEntry(st, m.name, [Fresh EXCEPT !.value = m.value,
                                                        !.flags = m.flags]),
                     m.name, m.id),
              <<Note(m.name, m.value, {"new"})>>, <<>>)

TakeUpdate(st, m) ==
  LET n == st.idmap[m.id]
      e == st.entries[n]
  IN IF ~KnownId(st, m.id) \/ Leq(m.seq, e.seq) THEN Ignored(st)
     ELSE Result(MarkDirty(PutEntry(st, n, [e EXCEPT !.value = m.value, !.seq = m.seq]),
                           IsPersistent(e)),
                 <<Note(n, m.value, {"update"})>>, If(st.server, <<Onward(m)>>))

TakeFlags(st, m) ==
  LET n == st.idmap[m.id]
      e == st.entries[n]
  IN IF ~KnownId(st, m.id) \/ e.flags = m.flags THEN Ignored(st)
     ELSE Result(MarkDirty(PutEntry(st, n, [e EXCEPT !.flags = m.flags]), TRUE),
                 <<Note(n, e.value, {"flags"})>>, If(st.server, <<Onward(m)>>))

TakeDelete(st, m) ==
  LET n == st.idmap[m.id]
      e == st.entries[n]
  IN IF ~KnownId(st, m.id) THEN Ignored(st)
     ELSE Result([MarkDirty(PutEntry(st, n, Fresh), IsPersistent(e))
                    EXCEPT !.idmap[m.id] = NoName],
                 <<Note(n, e.value, {"delete"})>>, If(st.server, <<Onward(m)>>))

TakeClear(st, m) ==
  Result(DeleteAllEntriesImpl(st), ClearNotes(st), If(st.server, <<Onward(m)>>))

ProcessIncoming(st, m) ==
  CASE m.type = "assign" -> IF st.server THEN ServerAssign(st, m) ELSE ClientAssign(st, m)
    [] m.type = "update" -> TakeUpdate(st, m)
    [] m.type = "flags"  -> TakeFlags(st, m)
    [] m.type = "delete" -> TakeDelete(st, m)
    [] m.type = "clear"  -> TakeClear(st, m)
-----------------------------------------------------------------------------
(* The tables of two nodes that connect.                                   *)

GetInitialAssignments(st) ==
  SetToSeq({AssignOf(n, st.entries[n]) : n \in Present(st)})

\* The client's table after the server's initial assignments: its ids are
\* dropped and taken from the server.  The server's value wins when it is a
\* new server, or when its sequence number is higher.
InitialFor(msgs, n) == {m \in ToSet(msgs) : m.name = n}

TheirsWins(e, m, newServer) ==
  e.value = NoValue \/ newServer \/ ~Leq(m.seq, e.seq)

Merged(e, m, newServer) ==
  IF TheirsWins(e, m, newServer)
  THEN [value |-> m.value, flags |-> m.flags, id |-> m.id, seq |-> m.seq]
  ELSE [e EXCEPT !.id = m.id]

ApplyInitialAssignments(st, msgs, newServer) ==
  LET theirs(n) == CHOOSE m \in InitialFor(msgs, n) : TRUE
      known == {n \in Names : InitialFor(msgs, n) # {}}
      unassigned == Present(st) \ known
      entries == [n \in Names |->
                    IF n \in known THEN Merged(st.entries[n], theirs(n), newServer)
                    ELSE [st.entries[n] EXCEPT !.id = NoId]]
      top == {m.id + 1 : m \in ToSet(msgs)} \cup {0}
  IN [st |-> [st EXCEPT
                !.entries = entries,
                !.idmap = [i \in Ids |->
                             IF \E n \in known : theirs(n).id = i
                             THEN CHOOSE n \in known : theirs(n).id = i ELSE NoName],
                !.size = CHOOSE t \in top : \A u \in top : u <= t],
      notes |-> SetToSeq({Note(n, theirs(n).value,
                               {IF Has(st, n) THEN "update" ELSE "new"}) :
                            n \in {k \in known : TheirsWins(st.entries[k], theirs(k), newServer)}}),
      out |-> SetToSeq({ToAll(EntryUpdate(NoId, st.entries[n].seq, st.entries[n].value)) :
                          n \in {k \in known : ~TheirsWins(st.entries[k], theirs(k), newServer)}}),
      requests |-> SetToSeq({AssignOf(n, entries[n]) : n \in unassigned})]
=============================================================================
