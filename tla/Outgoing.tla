------------------------------ MODULE Outgoing ------------------------------
(***************************************************************************)
(* The messages a connection has not posted yet, and how a new one is      *)
(* merged with them (NetworkConnection::QueueOutgoing and PostOutgoing).   *)
(* msgs is m_pending_outgoing; for every id, value and flags are the two   *)
(* positions of m_pending_update, 0 when there is none.                    *)
(***************************************************************************)
EXTENDS Naturals, Sequences, SequencesExt

CONSTANTS KnownIds,  \* the ids of entries
          NoEntryId  \* the id of an entry that has none yet

None == [type |-> "none"]   \* a message that was knocked out

NoPending == [msgs  |-> <<>>,
              value |-> [i \in KnownIds |-> 0],
              flags |-> [i \in KnownIds |-> 0]]

Push(p, m) == [p EXCEPT !.msgs = Append(@, m)]

\* An update that meets an unposted assignment becomes part of it.
MergeInto(old, m) ==
  IF old.type = "assign" /\ m.type = "update"
  THEN [old EXCEPT !.seq = m.seq, !.value = m.value]
  ELSE m

QueueValue(p, m) ==
  IF p.value[m.id] # 0
  THEN [p EXCEPT !.msgs[p.value[m.id]] = MergeInto(@, m)]
  ELSE [Push(p, m) EXCEPT !.value[m.id] = Len(p.msgs) + 1]

QueueFlags(p, m) ==
  IF p.flags[m.id] # 0
  THEN [p EXCEPT !.msgs[p.flags[m.id]] = m]
  ELSE [Push(p, m) EXCEPT !.flags[m.id] = Len(p.msgs) + 1]

QueueDelete(p, m) ==
  LET gone == {p.value[m.id], p.flags[m.id]}
      kept == [k \in DOMAIN p.msgs |-> IF k \in gone THEN None ELSE p.msgs[k]]
  IN [msgs  |-> Append(kept, m),
      value |-> [p.value EXCEPT ![m.id] = 0],
      flags |-> [p.flags EXCEPT ![m.id] = 0]]

EntryMessages == {"assign", "update", "flags", "delete", "clear"}

QueueClear(p, m) ==
  [NoPending EXCEPT !.msgs =
     Append([k \in DOMAIN p.msgs |->
               IF p.msgs[k].type \in EntryMessages THEN None ELSE p.msgs[k]], m)]

QueueOutgoing(p, m) ==
  CASE m.type = "clear" -> QueueClear(p, m)
    [] m.type \notin EntryMessages -> Push(p, m)
    [] m.type # "clear" /\ m.type \in EntryMessages /\ m.id = NoEntryId -> Push(p, m)
    [] m.type \in {"assign", "update"} /\ m.id # NoEntryId -> QueueValue(p, m)
    [] m.type = "flags" /\ m.id # NoEntryId -> QueueFlags(p, m)
    [] m.type = "delete" /\ m.id # NoEntryId -> QueueDelete(p, m)

\* What the dispatch thread hands to the write thread, which passes over the
\* messages knocked out.
Posted(p) == p.msgs
=============================================================================
