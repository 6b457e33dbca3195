------------------------------ MODULE Notifier ------------------------------
(***************************************************************************)
(* How listeners are told of entries and connections                       *)
(* (Vision/src/Notifier.cpp, include/support/SafeThread.h,                 *)
(* ntcore_cpp.cpp, networktables/NetworkTable.cpp).                        *)
(*                                                                         *)
(* One thread calls the listeners, without any mutex.  The program adds    *)
(* and removes listeners, and stops the thread; a listener that is added   *)
(* later starts another thread, which has none of the old listeners.       *)
(* The sections under the thread's mutex are one step each; only Stop      *)
(* does not take that mutex.                                               *)
(***************************************************************************)
EXTENDS Naturals, Sequences, SequencesExt, FiniteSets

CONSTANTS Keys,        \* names of entries, sequences of tokens
          Specs,       \* what a listener asks for, for AddEntryListener
          MaxChanges,  \* bound: changes of entries and connections
          MaxRegs,     \* bound: listeners ever added
          MaxThreads   \* bound: threads ever started

ASSUME NotifierAssumption ==
  MaxChanges \in Nat /\ MaxRegs \in Nat \ {0} /\ MaxThreads \in Nat \ {0}

Kinds   == {"entry", "conn"}   \* the two queues, and the two lists of listeners
Regs    == 1 .. MaxRegs
Threads == 1 .. MaxThreads
Nobody  == 0
Link    == <<"the connection">>  \* what a connection listener hears of

ASSUME LinkAssumption == Link \notin Keys

VARIABLES owner,     \* m_owner: the thread, or Nobody
          thread,    \* the threads
          started,   \* how many have been started
          local,     \* m_local_notifiers
          adding,    \* AddEntryListener or AddConnectionListener at work
          specOf, regs,      \* what each listener asked for; listeners added
          table, changes,    \* the change that made each entry; 0: not there
          deleted,           \* the entries whose last change is a deletion
          stopping,  \* the thread Stop has yet to wake
          heard      \* history: the last change each listener was told of

program == <<specOf, regs, adding, local>>
notifierVars == <<owner, thread, started, program, table, changes, deleted, stopping, heard>>

NoThread == [active |-> FALSE, pc |-> "none", woken |-> FALSE,
             queue |-> [k \in Kinds |-> <<>>], slots |-> [k \in Kinds |-> <<>>],
             free  |-> [k \in Kinds |-> <<>>],
             kind |-> "entry", at |-> 0, calls |-> Nobody, item |-> <<>>]

NotAdding == [pc |-> "idle"]

NotifierInit ==
  /\ owner = Nobody /\ thread = [t \in Threads |-> NoThread] /\ started = 0
  /\ local = FALSE /\ adding = NotAdding
  /\ specOf = [r \in Regs |-> <<>>] /\ regs = 0
  /\ table = [n \in Keys \cup {Link} |-> 0] /\ changes = 0 /\ deleted = {}
  /\ stopping = Nobody
  /\ heard = [r \in Regs |-> [n \in Keys \cup {Link} |-> 0]]
-----------------------------------------------------------------------------
(* The listeners: UidVector, a vector with a list of free places.          *)

EmplaceBack(t, k, r) ==
  IF t.free[k] = <<>>
  THEN [t EXCEPT !.slots[k] = Append(@, r)]
  ELSE [t EXCEPT !.slots[k][Last(t.free[k])] = r, !.free[k] = Front(@)]

EraseUid(t, k, uid) ==
  IF uid > Len(t.slots[k]) \/ t.slots[k][uid] = Nobody THEN t
  ELSE [t EXCEPT !.slots[k][uid] = Nobody, !.free[k] = Append(@, uid)]

\* A message that assigns both a value and flags is for whoever asked for
\* either; any other must be of kinds the listener asked for.
AssignBoth == {"update", "flags"}

Wanted(s, what) ==
  IF AssignBoth \subseteq what
  THEN s.flags \cap AssignBoth # {} /\ what \ AssignBoth \subseteq s.flags
  ELSE what \subseteq s.flags

Matches(k, s, item) ==
  k = "conn" \/ (Wanted(s, item.what) /\ IsPrefix(s.prefix, item.name))
-----------------------------------------------------------------------------
(* The program changes entries; a proxy finds no thread that was stopped.  *)

\* NotifyEntry and NotifyConnection: queue an item and wake the thread.
\* Mutant: the newest item is put in front.
NotifiedFirst(t, k, items) ==
  [t EXCEPT !.queue[k] = items \o @, !.woken = @ \/ (t.pc = "wait" /\ items # <<>>)]

Notified(t, k, items) ==
  [t EXCEPT !.queue[k] = @ \o items, !.woken = @ \/ (t.pc = "wait" /\ items # <<>>)]

Unlocked(t) == t.pc \in {"none", "start", "wait", "calling", "gone"}

ToThread(k, items) ==
  IF owner = Nobody THEN UNCHANGED thread
  ELSE /\ Unlocked(thread[owner])
       /\ thread' = [thread EXCEPT ![owner] = Notified(@, k, items)]

Item(n, what, only, v) == [name |-> n, what |-> what, only |-> only, version |-> v]

\* Under the storage mutex: the entry changes and the notification is queued.
ChangeEntry ==
  /\ changes < MaxChanges
  /\ \E n \in Keys, from \in {{}, {"local"}} :
       \E what \in IF table[n] = 0 \/ n \in deleted THEN {{"new"}}
                   ELSE {{"update"}, {"delete"}} \cup
                        (IF from = {} THEN {AssignBoth} ELSE {}) :
         /\ IF from = {"local"} /\ ~local THEN UNCHANGED thread
            ELSE ToThread("entry", <<Item(n, what \cup from, Nobody, changes + 1)>>)
         /\ table' = [table EXCEPT ![n] = changes + 1]
         /\ deleted' = IF what = {"delete"} THEN deleted \cup {n} ELSE deleted \ {n}
  /\ changes' = changes + 1
  /\ UNCHANGED <<owner, started, program, stopping, heard>>

ChangeConnection ==
  /\ changes < MaxChanges
  /\ ToThread("conn", <<Item(Link, {}, Nobody, changes + 1)>>)
  /\ table' = [table EXCEPT ![Link] = changes + 1]
  /\ changes' = changes + 1
  /\ UNCHANGED <<owner, started, program, deleted, stopping, heard>>
-----------------------------------------------------------------------------
(* AddEntryListener, AddConnectionListener, RemoveEntryListener, Stop.     *)

StartThread ==
  IF owner # Nobody THEN UNCHANGED <<owner, thread, started>>
  ELSE /\ started < MaxThreads
       /\ started' = started + 1 /\ owner' = started + 1
       /\ thread' = [thread EXCEPT ![started + 1] =
                       [NoThread EXCEPT !.active = TRUE, !.pc = "start"]]

AddBegins(k, s) ==
  /\ adding = NotAdding /\ regs < MaxRegs
  /\ StartThread
  /\ adding' = [pc |-> "place", kind |-> k, spec |-> s]
  /\ UNCHANGED <<specOf, regs, local, table, changes, deleted, stopping, heard>>

\* If the thread was stopped meanwhile, this follows a null pointer: the
\* program is taken not to stop it then.
AddPlaces ==
  /\ adding.pc = "place" /\ Unlocked(thread[owner])
  /\ regs' = regs + 1
  /\ specOf' = [specOf EXCEPT ![regs + 1] = adding.spec]
  /\ thread' = [thread EXCEPT ![owner] = EmplaceBack(@, adding.kind, regs + 1)]
  /\ local' = (local \/ (adding.kind = "entry" /\ "local" \in adding.spec.flags))
  /\ adding' = IF adding.kind = "entry" /\ "immediate" \in adding.spec.flags
               THEN [adding EXCEPT !.pc = "immediate"] ELSE NotAdding
  /\ UNCHANGED <<owner, started, table, changes, deleted, stopping, heard>>

\* Mutant: entries already there are not notified.
AddNotifiesNothing ==
  /\ adding.pc = "immediate"
  /\ adding' = NotAdding
  /\ UNCHANGED <<owner, thread, started, specOf, regs, local, table, changes, deleted,
                 stopping, heard>>

\* Storage::NotifyEntries: every entry there is, for the new listener only.
AddNotifies ==
  /\ adding.pc = "immediate"
  /\ LET there == {n \in Keys : table[n] # 0 /\ n \notin deleted
                                /\ IsPrefix(adding.spec.prefix, n)}
     IN ToThread("entry", SetToSeq({Item(n, {"immediate"}, regs, table[n]) : n \in there}))
  /\ adding' = NotAdding
  /\ UNCHANGED <<owner, started, specOf, regs, local, table, changes, deleted, stopping, heard>>

RemoveListener(k, uid) ==
  /\ owner # Nobody /\ Unlocked(thread[owner])
  /\ thread' = [thread EXCEPT ![owner] = EraseUid(@, k, uid)]
  /\ UNCHANGED <<owner, started, program, table, changes, deleted, stopping, heard>>

StopNotifier ==
  /\ owner # Nobody /\ adding.pc # "place" /\ stopping = Nobody
  /\ owner' = Nobody /\ stopping' = owner
  /\ thread' = [thread EXCEPT ![owner].active = FALSE]
  /\ UNCHANGED <<started, program, table, changes, deleted, heard>>

StopWakes ==
  /\ stopping # Nobody
  /\ thread' = [thread EXCEPT ![stopping].woken = @ \/ thread[stopping].pc = "wait"]
  /\ stopping' = Nobody
  /\ UNCHANGED <<owner, started, program, table, changes, deleted, heard>>
-----------------------------------------------------------------------------
(* The thread.                                                             *)

Becomes(t, new) ==
  /\ thread' = [thread EXCEPT ![t] = new]
  /\ UNCHANGED <<owner, started, program, table, changes, deleted, stopping>>

Idle(t) == \A k \in Kinds : t.queue[k] = <<>>

\* Between the test of active and the wait, Stop may pass unnoticed.
Looks(t) ==
  /\ thread[t].pc \in {"start", "top"}
  /\ Becomes(t, [thread[t] EXCEPT
       !.pc = IF ~thread[t].active THEN "gone"
              ELSE IF Idle(thread[t]) THEN "sleep" ELSE "take",
       !.kind = "entry"])
  /\ UNCHANGED heard

FallsAsleep(t) ==
  /\ thread[t].pc = "sleep"
  /\ Becomes(t, [thread[t] EXCEPT !.pc = "wait", !.woken = FALSE])
  /\ UNCHANGED heard

Wakes(t) ==
  /\ thread[t].pc = "wait" /\ thread[t].woken
  /\ Becomes(t, [thread[t] EXCEPT
       !.pc = IF ~thread[t].active THEN "gone"
              ELSE IF Idle(thread[t]) THEN "sleep" ELSE "take",
       !.kind = "entry"])
  /\ UNCHANGED heard

\* The first listener after place i that is to hear of the item.
NextListener(t, item, i) ==
  {j \in DOMAIN t.slots[t.kind] :
     j > i /\ t.slots[t.kind][j] # Nobody /\ Matches(t.kind, specOf[t.slots[t.kind][j]], item)}

Scan(t, i) ==
  LET todo == NextListener(t, t.item, i)
      j == CHOOSE j \in todo : \A l \in todo : j <= l
  IN IF todo = {} THEN [t EXCEPT !.pc = "take", !.calls = Nobody, !.item = <<>>]
     ELSE [t EXCEPT !.pc = "calling", !.at = j, !.calls = t.slots[t.kind][j]]

\* All entry notifications, then all connection notifications.
Takes(t) ==
  LET me == thread[t]
      item == Head(me.queue[me.kind])
      rest == [me EXCEPT !.queue[me.kind] = Tail(@), !.item = item]
  IN /\ me.pc = "take"
     /\ Becomes(t,
          IF me.queue[me.kind] = <<>>
          THEN IF me.kind = "entry" THEN [me EXCEPT !.kind = "conn"] ELSE [me EXCEPT !.pc = "top"]
          ELSE IF ~me.active THEN [me EXCEPT !.pc = "gone"]
          ELSE IF item.only # Nobody
          THEN [rest EXCEPT !.pc = "calling", !.calls = item.only]
          ELSE Scan(rest, 0))
     /\ UNCHANGED heard

\* The callback runs and returns.
CallsListener(t) ==
  LET me == thread[t]
  IN /\ me.pc = "calling"
     /\ heard' = [heard EXCEPT ![me.calls][me.item.name] = me.item.version]
     /\ Becomes(t, IF me.item.only # Nobody
                   THEN [me EXCEPT !.pc = "take", !.calls = Nobody, !.item = <<>>]
                   ELSE Scan(me, me.at))
-----------------------------------------------------------------------------
ThreadStep(t) == Looks(t) \/ FallsAsleep(t) \/ Wakes(t) \/ Takes(t) \/ CallsListener(t)

NotifierNext ==
  \/ ChangeEntry \/ ChangeConnection
  \/ \E s \in Specs : AddBegins("entry", s)
  \/ AddBegins("conn", <<>>)
  \/ AddPlaces \/ AddNotifies
  \/ \E k \in Kinds, uid \in Regs : RemoveListener(k, uid)
  \/ StopNotifier \/ StopWakes
  \/ \E t \in Threads : ThreadStep(t)

NotifierSpec == NotifierInit /\ [][NotifierNext]_notifierVars
-----------------------------------------------------------------------------
(* Properties.                                                             *)

\* The threads, their queues and their lists have their types, and a thread in
\* a callback calls a listener that was added.
NotifierTypeOK ==
  /\ owner \in 0 .. started /\ started \in 0 .. MaxThreads /\ regs \in 0 .. MaxRegs
  /\ \A t \in Threads :
       /\ thread[t].pc \in {"none", "start", "top", "sleep", "wait", "take", "calling", "gone"}
       /\ thread[t].pc = "calling" => thread[t].calls \in 1 .. regs
       /\ \A k \in Kinds : thread[t].slots[k] \in Seq(0 .. regs)

\* The list of free places names every empty place once, so that two listeners
\* never get one uid, whatever is removed twice or was never added.
FreeListExact ==
  \A t \in Threads, k \in Kinds :
    /\ IsInjective(thread[t].free[k])
    /\ ToSet(thread[t].free[k]) =
         {i \in DOMAIN thread[t].slots[k] : thread[t].slots[k][i] = Nobody}

\* No listener is told of an entry or a connection what is older than what it
\* was told before.
HeardInOrder ==
  [][\A r \in Regs : \A n \in DOMAIN heard[r] : heard'[r][n] >= heard[r][n]]_notifierVars

AsksForAll(s) == {"new", "update", "delete", "flags", "local", "immediate"} \subseteq s.flags

Quiescent(t) == t.pc = "wait" /\ ~t.woken /\ t.active

\* When its thread sleeps, a listener that asked for everything, and is still
\* there, knows the current value of every entry it asked for: none is lost
\* between the listener's start and the immediate notifications, nor to the
\* shortcut for local changes.  (Deletions before it came it does not know.)
HeardAll ==
  owner # Nobody /\ Quiescent(thread[owner]) /\ adding = NotAdding =>
    \A r \in ToSet(thread[owner].slots["entry"]) \ {Nobody} :
      AsksForAll(specOf[r]) =>
        \A n \in Keys :
          IsPrefix(specOf[r].prefix, n) /\ table[n] # 0 /\ n \notin deleted =>
            heard[r][n] = table[n]

\* A thread sleeps with work in its queues only until it is woken: no
\* notification waits for the next one to be seen.
NeverSleepsOnWork ==
  \A t \in Threads :
    thread[t].pc = "wait" /\ ~Idle(thread[t]) => thread[t].woken

\* What the run checks of the listeners in every state.
NoticesArrive == NotifierTypeOK /\ FreeListExact /\ HeardAll /\ NeverSleepsOnWork
=============================================================================
