------------------------- MODULE NetworkTablesProofs -------------------------
(***************************************************************************)
(* What holds of the tables of a server and its clients for any entries,   *)
(* values, clients and number of changes and faults, whatever the threads  *)
(* of the nodes do: listeners were told what is in the table, a server's   *)
(* id map is exact, and its clients mean by an id what it means.  And what *)
(* the comparisons of sequence numbers are good for, whatever the width of *)
(* the numbers.                                                            *)
(***************************************************************************)
EXTENDS NetworkTables, FunctionTheorems, FiniteSetTheorems, SequenceTheorems,
        WellFoundedInduction, TLAPS

(***************************************************************************)
(* What is said of one node.                                               *)
(***************************************************************************)

NewIds == Ids \cup {NoId}

Assigns == [type : {"assign"}, name : Names, id : NewIds, seq : SeqNums,
            value : Values, flags : {0, 1}]
Updates  == [type : {"update"}, id : NewIds, seq : SeqNums, value : Values]
FlagMsgs == [type : {"flags"}, id : Ids, flags : {0, 1}]
Deletes  == [type : {"delete"}, id : Ids]
Clears   == [type : {"clear"}]

Msgs == Assigns \cup Updates \cup FlagMsgs \cup Deletes \cup Clears

Sends == [msg : Msgs, forward : BOOLEAN]

\* The id map of a server is exact, and there is no entry without an id.
Exact(st) == MapSound(st) /\ \A n \in Present(st) : st.entries[n].id # NoId

IsServer(st)    == st.server
OnlyAt(n, s, st) == s.entries = [st.entries EXCEPT ![n] = s.entries[n]]
SameRole(s, st) == s.server = st.server

Good(st) == st \in Store /\ (IsServer(st) => Exact(st))

ValuesOf(st) == [n \in Names |-> st.entries[n].value]

\* A listener that knew the table knows it again once it has heard the notes.
Tells(st, notes, new) == Told(ValuesOf(st), notes) = ValuesOf(new)

\* What every operation makes of a good storage.
Outcome(st, r) ==
  /\ Good(r.st) /\ SameRole(r.st, st)
  /\ r.out \in Seq(Sends)
  /\ Tells(st, r.notes, r.st)
-----------------------------------------------------------------------------
\* Without a notification listeners know what they knew.
LEMMA ToldNothing ==
  ASSUME NEW st, st \in Store
  PROVE  Tells(st, <<>>, st)
BY DEF Tells, Told, ValuesOf

\* One notification tells of one entry.
LEMMA ToldOne ==
  ASSUME NEW st, st \in Store, NEW n \in Names, NEW v, NEW kinds,
         NEW new, new.entries = [st.entries EXCEPT ![n] = new.entries[n]],
         new.entries[n].value = IF "delete" \in kinds THEN NoValue ELSE v
  PROVE  Tells(st, <<Note(n, v, kinds)>>, new)
<1> DEFINE notes == <<Note(n, v, kinds)>>
<1>1. notes = [k \in {1} |-> Note(n, v, kinds)] /\ DOMAIN notes = {1} /\ notes[1] = Note(n, v, kinds)
  OBVIOUS
<1>2. notes[1].name = n /\ notes[1].value = v /\ notes[1].kinds = kinds
  BY <1>1 DEF Note
<1>3. st.entries \in [Names -> Entry]
  BY DEF Store
<1>4. ASSUME NEW m \in Names
      PROVE  (IF \E k \in DOMAIN notes : notes[k].name = m
              THEN LET k == CHOOSE k \in DOMAIN notes : notes[k].name = m
                   IN IF "delete" \in notes[k].kinds THEN NoValue ELSE notes[k].value
              ELSE ValuesOf(st)[m]) = new.entries[m].value
  <2>1. CASE m = n
    <3>1. (CHOOSE k \in DOMAIN notes : notes[k].name = m) = 1
      BY <1>1, <1>2, <2>1
    <3> QED BY <3>1, <1>1, <1>2, <2>1
  <2>2. CASE m # n
    <3>1. ~ \E k \in DOMAIN notes : notes[k].name = m
      BY <1>1, <1>2, <2>2
    <3>2. new.entries[m] = st.entries[m]
      BY <1>3, <2>2
    <3> QED BY <3>1, <3>2 DEF ValuesOf
  <2> QED BY <2>1, <2>2
<1> HIDE DEF notes
<1> QED BY <1>4 DEF Tells, Told, ValuesOf, notes
-----------------------------------------------------------------------------
(***************************************************************************)
(* The steps an operation is made of.                                      *)
(***************************************************************************)

LEMMA IdsAre == Ids \subseteq Nat /\ NoId \notin Ids /\ \A i \in Ids : i < MaxIds
BY StorageAssumption DEF Ids, NoId

LEMMA NoValueIsNone == \A v \in Values : v # NoValue
BY StorageAssumption

\* A step that touches one entry only.
LEMMA PutFacts ==
  ASSUME NEW st, st \in Store, NEW n \in Names, NEW e \in Entry
  PROVE  /\ PutEntry(st, n, e) \in Store
         /\ SameRole(PutEntry(st, n, e), st)
         /\ PutEntry(st, n, e).dirty = st.dirty
         /\ PutEntry(st, n, e).size = st.size
         /\ PutEntry(st, n, e).idmap = st.idmap
         /\ PutEntry(st, n, e).entries = [st.entries EXCEPT ![n] = e]
BY DEF PutEntry, Store, SameRole

\* What kind of node a storage belongs to never changes.
LEMMA RoleFacts ==
  ASSUME NEW st, NEW s, SameRole(s, st)
  PROVE  IsServer(s) <=> IsServer(st)
BY DEF SameRole, IsServer

LEMMA RoleTwice ==
  ASSUME NEW st, NEW s, SameRole(s, st), NEW t, SameRole(t, s)
  PROVE  SameRole(t, st)
BY DEF SameRole

\* The mark that the table has to be saved says nothing of what is in it.
LEMMA DirtyFacts ==
  ASSUME NEW st, Good(st), NEW b \in BOOLEAN
  PROVE  /\ Good(MarkDirty(st, b)) /\ SameRole(MarkDirty(st, b), st)
         /\ MarkDirty(st, b).entries = st.entries
         /\ ValuesOf(MarkDirty(st, b)) = ValuesOf(st)
<1>1. /\ MarkDirty(st, b) \in Store
      /\ SameRole(MarkDirty(st, b), st)
      /\ MarkDirty(st, b).entries = st.entries
      /\ MarkDirty(st, b).idmap = st.idmap
      /\ MarkDirty(st, b).size = st.size
  BY DEF MarkDirty, Good, Store, SameRole
<1> QED BY <1>1, RoleFacts DEF Good, Exact, MapSound, Linked, LeadsBack, Present, Has, ValuesOf

\* A new value, sequence number or flags for an entry that has its id.
LEMMA PutKeepsExact ==
  ASSUME NEW st, Good(st), NEW n \in Names, NEW e \in Entry,
         IsServer(st) => Has(st, n) /\ e.id = st.entries[n].id /\ e.value \in Values
  PROVE  Good(PutEntry(st, n, e)) /\ SameRole(PutEntry(st, n, e), st)
<1>1. /\ PutEntry(st, n, e) \in Store
      /\ SameRole(PutEntry(st, n, e), st)
      /\ PutEntry(st, n, e).size = st.size
      /\ PutEntry(st, n, e).idmap = st.idmap
      /\ PutEntry(st, n, e).entries = [st.entries EXCEPT ![n] = e]
  BY PutFacts DEF Good
<1>2. st.entries \in [Names -> Entry]
  BY DEF Good, Store
<1>4. ASSUME IsServer(st) PROVE Exact(PutEntry(st, n, e))
  <2>0. Has(st, n) /\ e.id = st.entries[n].id /\ e.value \in Values
    BY <1>4
  <2>3. \A m \in Names : /\ PutEntry(st, n, e).entries[m].id = st.entries[m].id
                         /\ Has(PutEntry(st, n, e), m) <=> Has(st, m)
    BY <2>0, <1>1, <1>2, NoValueIsNone DEF Has
  <2>1. Exact(st) /\ st.idmap \in [Ids -> Names \cup {NoName}]
    BY <1>4 DEF Good, Store
  <2>2. \A i \in Ids : st.idmap[i] # NoName => st.idmap[i] \in Names
    BY <2>1
  <2> QED BY <2>1, <2>2, <2>3, <1>1 DEF Exact, MapSound, Linked, LeadsBack, Present
<1> QED BY <1>1, <1>4, RoleFacts DEF Good

\* A new entry of a server gets the next id.
LEMMA GiveKeepsExact ==
  ASSUME NEW st, Good(st), IsServer(st), HasRoom(st), NEW n \in Names, ~Has(st, n),
         NEW e \in Entry, e.value \in Values, e.id = NoId,
         NEW s, s = GiveId(PutEntry(st, n, e), n)
  PROVE  /\ Good(s) /\ SameRole(s, st)
         /\ OnlyAt(n, s, st)
         /\ s.entries[n] \in Entry /\ s.entries[n].id \in Ids
         /\ s.entries[n].value = e.value /\ s.entries[n].seq = e.seq
         /\ s.entries[n].flags = e.flags
<1>0. PICK p : p = PutEntry(st, n, e)
  OBVIOUS
<1>a. st \in Store
  BY DEF Good
<1>b. SameRole(p, st)
  BY <1>0, <1>a, PutFacts
<1>c. p \in Store /\ p.size = st.size /\ p.idmap = st.idmap
  BY ZenonT(40), <1>0, <1>a, PutFacts
<1>d. p.entries = [st.entries EXCEPT ![n] = e]
  BY <1>0, <1>a, PutFacts
<1>1. /\ p \in Store /\ SameRole(p, st) /\ p.size = st.size /\ p.idmap = st.idmap
      /\ p.entries = [st.entries EXCEPT ![n] = e]
  BY <1>b, <1>c, <1>d
<1>2. /\ st.entries \in [Names -> Entry] /\ st.idmap \in [Ids -> Names \cup {NoName}]
      /\ st.size \in 0 .. MaxIds /\ Exact(st)
  BY DEF Good, Store
<1>3. st.size \in Ids
  BY <1>2, StorageAssumption DEF Ids, HasRoom
<1>4. p.entries[n] = e
  BY <1>1, <1>2
<1>5. /\ s \in Store /\ SameRole(s, st) /\ s.size = st.size + 1
      /\ s.idmap = [st.idmap EXCEPT ![st.size] = n]
      /\ s.entries = [st.entries EXCEPT ![n] = [e EXCEPT !.id = st.size]]
  <2>1. s = GiveId(p, n)
    BY <1>0
  <2>2. [e EXCEPT !.id = st.size] \in Entry
    BY <1>3 DEF Entry
  <2>s. SameRole(s, p)
    BY <2>1, <1>c DEF GiveId, Store, SameRole
  <2>3. /\ s.size = p.size + 1 /\ s.dirty = p.dirty
        /\ s.idmap = [p.idmap EXCEPT ![p.size] = n]
        /\ s.entries = [p.entries EXCEPT ![n] = [@ EXCEPT !.id = p.size]]
    BY <2>1, <1>1 DEF GiveId, Store
  <2>4. s.entries = [st.entries EXCEPT ![n] = [e EXCEPT !.id = st.size]]
    BY <2>3, <1>1, <1>2, <1>4
  <2>5. s.entries \in [Names -> Entry] /\ s.idmap \in [Ids -> Names \cup {NoName}]
    <3>1. s.entries \in [Names -> Entry]
      BY <2>2, <2>4, <1>2
    <3>2. s.idmap = [st.idmap EXCEPT ![st.size] = n]
      BY <2>3, <1>c
    <3>3. s.idmap \in [Ids -> Names \cup {NoName}]
      BY <3>2, <1>2
    <3> QED BY <3>1, <3>3
  <2>6. s = [server |-> s.server, entries |-> s.entries, idmap |-> s.idmap,
             size |-> s.size, dirty |-> s.dirty]
    BY <2>1, <1>1 DEF GiveId, Store
  <2>7. s.size \in 0 .. MaxIds
    BY <2>3, <1>c, <1>2, StorageAssumption DEF HasRoom
  <2>8. s.server \in BOOLEAN /\ s.dirty \in BOOLEAN
    BY <2>s, <2>3, <1>c DEF Store, SameRole
  <2>9. s \in Store
    BY <2>5, <2>6, <2>7, <2>8 DEF Store
  <2> QED BY <2>s, <2>3, <2>4, <2>9, <1>b, <1>c, RoleTwice
<1>6. /\ s.entries[n] = [e EXCEPT !.id = st.size]
      /\ s.entries[n].id = st.size /\ s.entries[n].value = e.value
      /\ \A m \in Names \ {n} : s.entries[m] = st.entries[m]
  BY <1>2, <1>5 DEF Entry
<1>7. \A m \in Names : Has(s, m) <=> (m = n \/ Has(st, m))
  BY <1>6, NoValueIsNone DEF Has
<1>8. ASSUME NEW i \in Ids, s.idmap[i] # NoName
      PROVE  i < s.size /\ Has(s, s.idmap[i]) /\ s.entries[s.idmap[i]].id = i
  <2>1. CASE i = st.size
    BY <2>1, <1>2, <1>5, <1>6, <1>7
  <2>2. CASE i # st.size
    <3>1. s.idmap[i] = st.idmap[i] /\ st.idmap[i] \in Names
      BY <2>2, <1>8, <1>2, <1>5
    <3>2. i < st.size /\ Has(st, st.idmap[i]) /\ st.entries[st.idmap[i]].id = i
      BY <3>1, <1>8, <1>2 DEF Exact, MapSound, Linked, LeadsBack
    <3>3. st.idmap[i] # n
      BY <3>2, ~Has(st, n)
    <3>4. s.entries[s.idmap[i]] = st.entries[st.idmap[i]] /\ Has(s, s.idmap[i])
      BY <3>1, <3>2, <3>3, <1>6, <1>7
    <3>5. s.size = st.size + 1
      BY <1>5
    <3>6. i < s.size
      BY <3>2, <3>5, <1>2, IdsAre
    <3> QED BY <3>1, <3>2, <3>4, <3>6
  <2> QED BY <2>1, <2>2
<1>9. ASSUME NEW m \in Names, s.entries[m].id # NoId
      PROVE  Has(s, m) /\ s.idmap[s.entries[m].id] = m
  <2>1. CASE m = n
    BY <2>1, <1>2, <1>3, <1>5, <1>6, <1>7
  <2>2. CASE m # n
    <3>1. Has(st, m) /\ st.idmap[st.entries[m].id] = m /\ st.entries[m].id \in Ids
      BY <2>2, <1>9, <1>2, <1>6 DEF Exact, MapSound, Linked, LeadsBack, Entry
    <3>2. st.entries[m].id < st.size
      BY <3>1, <1>2, StorageAssumption DEF Exact, MapSound, Linked, LeadsBack
    <3> QED BY <2>2, <3>1, <3>2, <1>2, <1>5, <1>6, <1>7, IdsAre
  <2> QED BY <2>1, <2>2
<1>10. \A m \in Present(s) : s.entries[m].id # NoId
  BY <1>2, <1>3, <1>6, <1>7, IdsAre DEF Present, Exact
<1>11. Exact(s)
  BY <1>8, <1>9, <1>10 DEF Exact, MapSound, Linked, LeadsBack
<1>12. OnlyAt(n, s, st)
  BY <1>5, <1>6 DEF OnlyAt
<1>13. /\ s.entries[n] \in Entry
       /\ s.entries[n].value = e.value /\ s.entries[n].seq = e.seq
       /\ s.entries[n].flags = e.flags
  BY <1>3, <1>6 DEF Entry
<1> QED BY <1>13, <1>3, <1>5, <1>6, <1>11, <1>12 DEF Good

\* Deleting an entry frees its id.
LEMMA FreedIsGood ==
  ASSUME NEW st, Good(st), NEW n \in Names, NEW i \in NewIds,
         IsServer(st) => st.entries[n].id = i,
         NEW s \in Store, SameRole(s, st), s.size = st.size,
         s.entries = [st.entries EXCEPT ![n] = Fresh],
         s.idmap = IF i \in Ids /\ i < st.size THEN [st.idmap EXCEPT ![i] = NoName] ELSE st.idmap
  PROVE  Good(s)
<1>1. /\ st.entries \in [Names -> Entry] /\ st.idmap \in [Ids -> Names \cup {NoName}]
      /\ st.size \in 0 .. MaxIds
  BY DEF Good, Store
<1>2. SUFFICES ASSUME IsServer(st) PROVE Exact(s)
  BY RoleFacts DEF Good
<1>3. Exact(st) /\ st.entries[n].id = i
  BY <1>2 DEF Good
<1>4. s.entries[n] = Fresh /\ Fresh.id = NoId /\ Fresh.value = NoValue
      /\ \A m \in Names \ {n} : s.entries[m] = st.entries[m]
  BY <1>1 DEF Fresh
<1>5. ~Has(s, n) /\ \A m \in Names \ {n} : Has(s, m) <=> Has(st, m)
  BY <1>4 DEF Has
<1>6. ASSUME NEW j \in Ids, s.idmap[j] # NoName
      PROVE  j < s.size /\ Has(s, s.idmap[j]) /\ s.entries[s.idmap[j]].id = j
  <2>1. st.idmap[j] = s.idmap[j] /\ (i \in Ids /\ i < st.size => j # i)
    BY <1>1, <1>6
  <2>2. st.idmap[j] \in Names
    BY <2>1, <1>1, <1>6
  <2>3. j < st.size /\ Has(st, st.idmap[j]) /\ st.entries[st.idmap[j]].id = j
    BY <2>1, <1>3, <1>6 DEF Exact, MapSound, Linked, LeadsBack
  <2>4. st.idmap[j] # n
    BY <2>1, <2>3, <1>3
  <2> QED BY <2>1, <2>2, <2>3, <2>4, <1>4, <1>5
<1>7. ASSUME NEW m \in Names, s.entries[m].id # NoId
      PROVE  Has(s, m) /\ s.idmap[s.entries[m].id] = m
  <2>1. m # n /\ s.entries[m] = st.entries[m]
    BY <1>4, <1>7
  <2>2. Has(st, m) /\ st.idmap[st.entries[m].id] = m /\ st.entries[m].id \in Ids
    BY <2>1, <1>7, <1>1, <1>3 DEF Exact, MapSound, Linked, LeadsBack, Entry
  <2>3. i \in Ids => st.entries[m].id # i
    <3>1. ASSUME i \in Ids, st.entries[m].id = i PROVE FALSE
      <4>1. st.idmap[i] = m /\ st.entries[n].id = i /\ st.entries[n].id # NoId
        BY <3>1, <2>2, <1>3, IdsAre
      <4>2. st.idmap[i] = n
        BY <4>1, <1>3 DEF Exact, MapSound, Linked, LeadsBack
      <4> QED BY <4>1, <4>2, <2>1
    <3> QED BY <3>1
  <2> QED BY <2>1, <2>2, <2>3, <1>1, <1>5
<1> QED BY <1>3, <1>4, <1>5, <1>6, <1>7 DEF Exact, MapSound, Linked, LeadsBack, Present
-----------------------------------------------------------------------------
(***************************************************************************)
(* Sets made into sequences.                                               *)
(***************************************************************************)

\* A finite set as a sequence has each member once.
LEMMA SetSeq ==
  ASSUME NEW S, IsFiniteSet(S), NEW q, q = SetToSeq(S)
  PROVE  /\ q \in Seq(S) /\ DOMAIN q = 1 .. Cardinality(S) /\ Cardinality(S) \in Nat
         /\ \A k \in DOMAIN q : q[k] \in S
         /\ \A x \in S : \E k \in DOMAIN q : q[k] = x
         /\ \A j, k \in DOMAIN q : q[j] = q[k] => j = k
<1> DEFINE D == 1 .. Cardinality(S)
<1>1. Cardinality(S) \in Nat /\ ExistsBijection(D, S)
  BY FS_CardinalityType
<1>2. \E f \in [D -> S] : IsInjective(f)
  BY <1>1, Fun_ExistsBij, Fun_BijectionProperties DEF IsInjective
<1>3. q \in [D -> S] /\ IsInjective(q)
  BY <1>2 DEF SetToSeq
<1>4. q \in Injection(D, S)
  BY <1>3 DEF Injection
<1>5. IsFiniteSet(D) /\ Cardinality(D) = Cardinality(S)
  BY <1>1, FS_Interval
<1>6. q \in Surjection(D, S)
  BY <1>4, <1>5, FS_Injection
<1>7. \A x \in S : \E k \in D : q[k] = x
  BY <1>6 DEF Surjection
<1>8. q \in Seq(S)
  BY <1>1, <1>3
<1> QED BY <1>1, <1>3, <1>7, <1>8 DEF IsInjective

\* A set with one element for each of some entries is finite.
LEMMA FiniteOver ==
  ASSUME NEW T, T \subseteq Names, NEW S, NEW f \in [T -> S], \A s \in S : \E n \in T : f[n] = s
  PROVE  IsFiniteSet(S)
<1>1. IsFiniteSet(T)
  BY FS_Subset, StorageAssumption
<1>2. f \in Surjection(T, S)
  BY Fun_IsSurj
<1> QED BY <1>1, <1>2, FS_Surjection

\* Many notifications, of which each tells the truth and no changed entry is left out.
LEMMA ToldMany ==
  ASSUME NEW st, st \in Store, NEW new, NEW notes,
         \A k \in DOMAIN notes :
           notes[k].name \in Names
           /\ new.entries[notes[k].name].value
                = IF "delete" \in notes[k].kinds THEN NoValue ELSE notes[k].value,
         \A n \in Names : new.entries[n].value # st.entries[n].value =>
                            \E k \in DOMAIN notes : notes[k].name = n
  PROVE  Tells(st, notes, new)
<1>1. ASSUME NEW n \in Names
      PROVE  (IF \E k \in DOMAIN notes : notes[k].name = n
              THEN LET k == CHOOSE k \in DOMAIN notes : notes[k].name = n
                   IN IF "delete" \in notes[k].kinds THEN NoValue ELSE notes[k].value
              ELSE ValuesOf(st)[n]) = new.entries[n].value
  <2>1. CASE \E k \in DOMAIN notes : notes[k].name = n
    <3>1. PICK k \in DOMAIN notes : k = CHOOSE j \in DOMAIN notes : notes[j].name = n
      BY <2>1
    <3>2. notes[k].name = n
      BY <2>1, <3>1
    <3> QED BY <2>1, <3>1, <3>2
  <2>2. CASE ~ \E k \in DOMAIN notes : notes[k].name = n
    BY <2>2 DEF ValuesOf
  <2> QED BY <2>1, <2>2
<1> QED BY <1>1 DEF Tells, Told, ValuesOf

\* The ids and tables of some messages.
LEMMA SendIsSends ==
  ASSUME NEW m \in Msgs
  PROVE  ToAll(m) \in Sends /\ Onward(m) \in Sends
BY DEF ToAll, Onward, Sends

LEMMA MsgTypes ==
  ASSUME NEW n \in Names, NEW i \in NewIds, NEW s \in SeqNums, NEW v \in Values, NEW f \in {0, 1}
  PROVE  /\ EntryAssign(n, i, s, v, f) \in Msgs
         /\ EntryAssign(n, i, s, v, f) \in Assigns
         /\ EntryUpdate(i, s, v) \in Msgs
         /\ i \in Ids => FlagsUpdate(i, f) \in Msgs /\ EntryDelete(i) \in Msgs
         /\ ClearEntries \in Msgs
BY DEF EntryAssign, EntryUpdate, FlagsUpdate, EntryDelete, ClearEntries, Msgs, Assigns, Updates, FlagMsgs, Deletes, Clears

LEMMA EntryTypes ==
  ASSUME NEW st, st \in Store, NEW n \in Names
  PROVE  /\ st.entries[n] \in Entry
         /\ st.entries[n].id \in NewIds /\ st.entries[n].seq \in SeqNums
         /\ st.entries[n].flags \in {0, 1}
         /\ Has(st, n) => st.entries[n].value \in Values
         /\ ~Has(st, n) => st.entries[n].value = NoValue
BY DEF Store, Entry, NewIds, Has

LEMMA Concat ==
  ASSUME NEW S, NEW s \in Seq(S), NEW t \in Seq(S)
  PROVE  s \o t \in Seq(S)
OBVIOUS

LEMMA FreshTypes ==
  ASSUME NEW v \in Values
  PROVE  Fresh \in Entry /\ [Fresh EXCEPT !.value = v] \in Entry
<1>1. 0 \in SeqNums
  BY HalfAssumption DEF SeqNums
<1> QED BY <1>1 DEF Fresh, Entry

LEMMA AssignIsMsg ==
  ASSUME NEW n \in Names, NEW e \in Entry, e.value \in Values
  PROVE  AssignOf(n, e) \in Msgs /\ AssignOf(n, e) \in Assigns
BY DEF AssignOf, EntryAssign, Msgs, Assigns, Entry, NewIds
-----------------------------------------------------------------------------
(***************************************************************************)
(* The operations of the program.                                          *)
(***************************************************************************)

\* An entry is set, and a server gives it an id if it is new.
LEMMA LocalPut ==
  ASSUME NEW st, Good(st), NEW n \in Names, NEW e \in Entry, e.value \in Values,
         IsServer(st) /\ Has(st, n) => e.id = st.entries[n].id,
         IsServer(st) /\ ~Has(st, n) => e.id = NoId /\ HasRoom(st),
         NEW s, s = IfServerGiveId(PutEntry(st, n, e), n)
  PROVE  /\ Good(s) /\ SameRole(s, st)
         /\ OnlyAt(n, s, st)
         /\ s.entries[n] \in Entry /\ s.entries[n].value = e.value
         /\ s.entries[n].seq = e.seq /\ s.entries[n].flags = e.flags
<1> DEFINE p == PutEntry(st, n, e)
<1>1. SameRole(p, st)
  BY PutFacts DEF Good
<1>2. p.entries = [st.entries EXCEPT ![n] = e] /\ st.entries \in [Names -> Entry]
  BY PutFacts DEF Good, Store
<1>3. p.entries[n] = e
  BY <1>2
<1>4. CASE IsServer(st) /\ ~Has(st, n)
  <2>1. e.id = NoId /\ s = GiveId(p, n)
    BY <1>1, <1>3, <1>4, RoleFacts DEF IfServerGiveId, IsServer
  <2>a. s = GiveId(PutEntry(st, n, e), n) /\ HasRoom(st)
    BY <1>4, <2>1
  <2> HIDE DEF p
  <2> QED BY <1>4, <2>1, <2>a, GiveKeepsExact
<1>5. CASE ~(IsServer(st) /\ ~Has(st, n))
  <2>1. s = p
    <3>1. IsServer(st) => e.id # NoId
      BY <1>5 DEF Good, Exact, Present
    <3> QED BY <3>1, <1>1, <1>3, RoleFacts DEF IfServerGiveId, IsServer
  <2>2. Good(p) /\ SameRole(p, st)
    BY <1>5, PutKeepsExact
  <2>3. OnlyAt(n, p, st)
    BY <1>2, <1>3 DEF OnlyAt
  <2> QED BY <2>1, <2>2, <2>3, <1>3
<1> QED BY <1>4, <1>5

\* The outcome of a step that sets an entry and tells of it.
LEMMA PutOutcome ==
  ASSUME NEW st, Good(st), NEW n \in Names, NEW s, Good(s), SameRole(s, st),
         OnlyAt(n, s, st),
         NEW b \in BOOLEAN, NEW kinds, NEW v,
         s.entries[n].value = IF "delete" \in kinds THEN NoValue ELSE v,
         NEW out \in Seq(Sends)
  PROVE  Outcome(st, Result(MarkDirty(s, b), <<Note(n, v, kinds)>>, out))
<1> DEFINE d == MarkDirty(s, b)
<1>1. Good(d) /\ SameRole(d, s) /\ d.entries = s.entries
  BY DirtyFacts
<1>2. st \in Store
  BY DEF Good
<1> HIDE DEF d
<1>3. Tells(st, <<Note(n, v, kinds)>>, d)
  BY <1>1, <1>2, ToldOne DEF OnlyAt
<1>4. SameRole(d, st)
  BY <1>1, RoleTwice
<1> QED BY <1>1, <1>3, <1>4 DEF Outcome, Result, d

\* An operation that does nothing.
LEMMA IgnoredOutcome ==
  ASSUME NEW st, Good(st), NEW out \in Seq(Sends)
  PROVE  Outcome(st, Ignored(st)) /\ Outcome(st, Result(st, <<>>, out))
BY ToldNothing DEF Ignored, Outcome, Result, Good, SameRole

\* Setting the dirty flag by nothing is no step.
LEMMA NotDirty ==
  ASSUME NEW st, Good(st)
  PROVE  MarkDirty(st, FALSE) = st
BY DEF MarkDirty, Good, Store

\* The operations of a program, one by one.
LEMMA DefaultOutcome ==
  ASSUME NEW st, Good(st), HasRoom(st) \/ ~IsServer(st), NEW n \in Names, NEW v \in Values
  PROVE  Outcome(st, SetDefaultEntryValue(st, n, v))
<1>1. CASE Has(st, n)
  BY <1>1, IgnoredOutcome, EmptySeq DEF SetDefaultEntryValue
<1>2. CASE ~Has(st, n)
  <2> DEFINE e == [Fresh EXCEPT !.value = v]
             s == IfServerGiveId(PutEntry(st, n, e), n)
             out == <<ToAll(AssignOf(n, s.entries[n]))>>
  <2>1. e \in Entry /\ e.value \in Values /\ e.id = NoId
    <3>1. e \in Entry
      BY FreshTypes
    <3> QED BY <3>1 DEF Fresh
  <2>2. /\ Good(s) /\ SameRole(s, st)
        /\ OnlyAt(n, s, st)
        /\ s.entries[n] \in Entry /\ s.entries[n].value = e.value
    <3> HIDE DEF e
    <3>1. IsServer(st) => HasRoom(st)
      OBVIOUS
    <3>2. s = IfServerGiveId(PutEntry(st, n, e), n)
      OBVIOUS
    <3> HIDE DEF s
    <3>3. Good(s) /\ SameRole(s, st)
      BY <1>2, <2>1, <3>1, <3>2, LocalPut
    <3>4. /\ OnlyAt(n, s, st)
          /\ s.entries[n] \in Entry /\ s.entries[n].value = e.value
      BY <1>2, <2>1, <3>1, <3>2, LocalPut
    <3> QED BY <3>3, <3>4
  <2>3. e.value = v
    BY DEF Fresh
  <2>4. AssignOf(n, s.entries[n]) \in Msgs
    BY <2>2, <2>3, AssignIsMsg
  <2>5. out \in Seq(Sends)
    BY <2>4, SendIsSends
  <2>6. Outcome(st, Result(MarkDirty(s, FALSE), <<Note(n, v, {"new", "local"})>>, out))
    <3> HIDE DEF s, e, out
    <3> QED BY <2>2, <2>3, <2>5, PutOutcome
  <2>7. SetDefaultEntryValue(st, n, v) = Result(s, <<Note(n, v, {"new", "local"})>>, out)
    BY <1>2 DEF SetDefaultEntryValue
  <2> QED BY <2>2, <2>6, <2>7, NotDirty
<1> QED BY <1>1, <1>2

\* The same when nobody need be told.
LEMMA SilentOutcome ==
  ASSUME NEW st, Good(st), NEW n \in Names, NEW s, Good(s), SameRole(s, st), OnlyAt(n, s, st),
         s.entries[n].value = st.entries[n].value, NEW b \in BOOLEAN, NEW out \in Seq(Sends)
  PROVE  Outcome(st, Result(MarkDirty(s, b), <<>>, out))
<1>1. Good(MarkDirty(s, b)) /\ SameRole(MarkDirty(s, b), s) /\ ValuesOf(MarkDirty(s, b)) = ValuesOf(s)
  BY DirtyFacts
<1>2. st.entries \in [Names -> Entry]
  BY DEF Good, Store
<1>3. \A m \in Names : s.entries[m].value = st.entries[m].value
  BY <1>2 DEF OnlyAt
<1>4. ValuesOf(MarkDirty(s, b)) = ValuesOf(st)
  BY <1>1, <1>3 DEF ValuesOf
<1>5. Tells(st, <<>>, st)
  BY ToldNothing DEF Good
<1>6. SameRole(MarkDirty(s, b), st)
  BY <1>1, RoleTwice
<1> QED BY <1>1, <1>4, <1>5, <1>6 DEF Outcome, Result, Tells

LEMMA IncType ==
  ASSUME NEW s \in SeqNums
  PROVE  Inc(s) \in SeqNums
BY HalfAssumption DEF Inc, SeqNums

\* An entry given a value, as SetEntryValue and SetEntryTypeValue do it.
LEMMA ValuePut ==
  ASSUME NEW st, Good(st), HasRoom(st) \/ ~IsServer(st), NEW n \in Names, NEW v \in Values,
         NEW q \in SeqNums,
         NEW s, s = IfServerGiveId(PutEntry(st, n, [st.entries[n] EXCEPT !.value = v, !.seq = q]), n)
  PROVE  /\ Good(s) /\ SameRole(s, st) /\ OnlyAt(n, s, st)
         /\ s.entries[n] \in Entry /\ s.entries[n].value = v
         /\ AssignOf(n, s.entries[n]) \in Msgs
         /\ EntryUpdate(s.entries[n].id, s.entries[n].seq, v) \in Msgs
<1> DEFINE e == [st.entries[n] EXCEPT !.value = v, !.seq = q]
<1>1. st.entries[n] \in Entry
  BY EntryTypes DEF Good
<1>2. e \in Entry /\ e.value = v /\ e.id = st.entries[n].id
  BY <1>1 DEF Entry
<1>3. IsServer(st) /\ ~Has(st, n) => e.id = NoId
  BY <1>2 DEF Good, Exact, MapSound, Linked, LeadsBack
<1> HIDE DEF e
<1>4. Good(s) /\ SameRole(s, st) /\ OnlyAt(n, s, st)
      /\ s.entries[n] \in Entry /\ s.entries[n].value = v
  <2>1. s = IfServerGiveId(PutEntry(st, n, e), n)
    BY DEF e
  <2> QED BY <1>2, <1>3, <2>1, LocalPut
<1>5. AssignOf(n, s.entries[n]) \in Msgs
  BY <1>4, AssignIsMsg
<1>6. s.entries[n].id \in NewIds /\ s.entries[n].seq \in SeqNums
  BY <1>4 DEF Entry, NewIds
<1>7. EntryUpdate(s.entries[n].id, s.entries[n].seq, v) \in Msgs
  BY <1>6 DEF EntryUpdate, Msgs, Updates
<1> QED BY <1>4, <1>5, <1>7

LEMMA ValueOutcome ==
  ASSUME NEW st, Good(st), HasRoom(st) \/ ~IsServer(st), NEW n \in Names, NEW v \in Values
  PROVE  Outcome(st, SetEntryValue(st, n, v))
<1> DEFINE e == st.entries[n]
           isNew == ~Has(st, n)
           changed == ~isNew /\ e.value # v
           q == IF changed THEN Inc(e.seq) ELSE e.seq
           s == IfServerGiveId(PutEntry(st, n, [e EXCEPT !.value = v, !.seq = q]), n)
           now == s.entries[n]
           notes == If(isNew, <<Note(n, v, {"new", "local"})>>)
                      \o If(changed, <<Note(n, v, {"update", "local"})>>)
           out == If(isNew, <<ToAll(AssignOf(n, now))>>)
                    \o If(changed /\ now.id # NoId, <<ToAll(EntryUpdate(now.id, now.seq, v))>>)
           b == IsPersistent(e) /\ changed
<1>1. e \in Entry
  BY EntryTypes DEF Good
<1>2. q \in SeqNums
  BY <1>1, IncType DEF Entry
<1>3. /\ Good(s) /\ SameRole(s, st) /\ OnlyAt(n, s, st)
      /\ now \in Entry /\ now.value = v
      /\ AssignOf(n, now) \in Msgs /\ EntryUpdate(now.id, now.seq, v) \in Msgs
  <2> HIDE DEF q
  <2> QED BY <1>2, ValuePut
<1>4. out \in Seq(Sends)
  <2> HIDE DEF isNew, changed, now
  <2>1. ToAll(AssignOf(n, now)) \in Sends /\ ToAll(EntryUpdate(now.id, now.seq, v)) \in Sends
    BY <1>3, SendIsSends
  <2>2. If(isNew, <<ToAll(AssignOf(n, now))>>) \in Seq(Sends)
    BY <2>1 DEF If
  <2>3. If(changed /\ now.id # NoId, <<ToAll(EntryUpdate(now.id, now.seq, v))>>) \in Seq(Sends)
    BY <2>1 DEF If
  <2> QED BY <2>2, <2>3
<1>5. b \in BOOLEAN
  OBVIOUS
<1>6. Outcome(st, Result(MarkDirty(s, b), notes, out))
  <2>1. CASE isNew
    <3>1. notes = <<Note(n, v, {"new", "local"})>>
      BY <2>1 DEF If
    <3> HIDE DEF s, out, b, notes
    <3> QED BY <1>3, <1>4, <1>5, <3>1, PutOutcome
  <2>2. CASE changed
    <3>1. notes = <<Note(n, v, {"update", "local"})>>
      BY <2>2 DEF If
    <3> HIDE DEF s, out, b, notes
    <3> QED BY <1>3, <1>4, <1>5, <3>1, PutOutcome
  <2>3. CASE ~isNew /\ ~changed
    <3>1. notes = <<>> /\ e.value = v
      BY <2>3 DEF If
    <3> HIDE DEF s, out, b, notes
    <3> QED BY <1>3, <1>4, <1>5, <3>1, SilentOutcome
  <2> QED BY <2>1, <2>2, <2>3
<1>7. CASE ~isNew /\ TypeOf(e.value) # TypeOf(v)
  <2>1. SetEntryValue(st, n, v) = Ignored(st)
    BY <1>7 DEF SetEntryValue
  <2> QED BY <2>1, IgnoredOutcome, EmptySeq
<1>8. CASE ~(~isNew /\ TypeOf(e.value) # TypeOf(v))
  <2>1. SetEntryValue(st, n, v) = Result(MarkDirty(s, b), notes, out)
    BY <1>8 DEF SetEntryValue
  <2> QED BY <1>6, <2>1
<1> QED BY <1>7, <1>8

LEMMA TypeValueOutcome ==
  ASSUME NEW st, Good(st), HasRoom(st) \/ ~IsServer(st), NEW n \in Names, NEW v \in Values
  PROVE  Outcome(st, SetEntryTypeValue(st, n, v))
<1> DEFINE e == st.entries[n]
           isNew == ~Has(st, n)
           retyped == TypeOf(e.value) # TypeOf(v)
           q == Inc(e.seq)
           s == IfServerGiveId(PutEntry(st, n, [e EXCEPT !.value = v, !.seq = q]), n)
           now == s.entries[n]
           kinds == {IF isNew THEN "new" ELSE "update", "local"}
           out == If(retyped, <<ToAll(AssignOf(n, now))>>)
                    \o If(~retyped /\ now.id # NoId, <<ToAll(EntryUpdate(now.id, now.seq, v))>>)
           b == IsPersistent(e)
<1>1. e \in Entry
  BY EntryTypes DEF Good
<1>2. q \in SeqNums
  BY <1>1, IncType DEF Entry
<1>3. /\ Good(s) /\ SameRole(s, st) /\ OnlyAt(n, s, st)
      /\ now \in Entry /\ now.value = v
      /\ AssignOf(n, now) \in Msgs /\ EntryUpdate(now.id, now.seq, v) \in Msgs
  <2> HIDE DEF q
  <2> QED BY <1>2, ValuePut
<1>4. out \in Seq(Sends)
  <2> HIDE DEF retyped, now
  <2>1. ToAll(AssignOf(n, now)) \in Sends /\ ToAll(EntryUpdate(now.id, now.seq, v)) \in Sends
    BY <1>3, SendIsSends
  <2>2. If(retyped, <<ToAll(AssignOf(n, now))>>) \in Seq(Sends)
    BY <2>1 DEF If
  <2>3. If(~retyped /\ now.id # NoId, <<ToAll(EntryUpdate(now.id, now.seq, v))>>) \in Seq(Sends)
    BY <2>1 DEF If
  <2> QED BY <2>2, <2>3
<1>5. b \in BOOLEAN /\ "delete" \notin kinds
  BY DEF IsPersistent
<1>6. Outcome(st, Result(MarkDirty(s, b), <<Note(n, v, kinds)>>, out))
  <2> HIDE DEF s, out, b, kinds
  <2> QED BY <1>3, <1>4, <1>5, PutOutcome
<1>7. CASE e.value = v
  <2>1. SetEntryTypeValue(st, n, v) = Ignored(st)
    BY <1>7 DEF SetEntryTypeValue
  <2> QED BY <2>1, IgnoredOutcome, EmptySeq
<1>8. CASE e.value # v
  <2>1. SetEntryTypeValue(st, n, v) = Result(MarkDirty(s, b), <<Note(n, v, kinds)>>, out)
    BY <1>8 DEF SetEntryTypeValue
  <2> QED BY <1>6, <2>1
<1> QED BY <1>7, <1>8

\* An entry that is there is given other flags.
LEMMA FlagsPut ==
  ASSUME NEW st, Good(st), NEW n \in Names, Has(st, n), NEW f \in {0, 1},
         NEW s, s = PutEntry(st, n, [st.entries[n] EXCEPT !.flags = f])
  PROVE  /\ Good(s) /\ SameRole(s, st) /\ OnlyAt(n, s, st)
         /\ s.entries[n].value = st.entries[n].value
<1> DEFINE e == [st.entries[n] EXCEPT !.flags = f]
<1>1. st.entries \in [Names -> Entry] /\ st \in Store
  BY DEF Good, Store
<1>2. e \in Entry /\ e.value \in Values /\ e.value = st.entries[n].value /\ e.id = st.entries[n].id
  BY <1>1 DEF Entry, Has
<1>3. s.entries = [st.entries EXCEPT ![n] = e]
  BY <1>1, <1>2, PutFacts
<1>4. OnlyAt(n, s, st) /\ s.entries[n] = e
  BY <1>1, <1>3 DEF OnlyAt
<1>5. s = PutEntry(st, n, e)
  OBVIOUS
<1> HIDE DEF e
<1>6. Good(s) /\ SameRole(s, st)
  BY <1>2, <1>5, PutKeepsExact
<1> QED BY <1>2, <1>4, <1>6

LEMMA FlagsOutcome ==
  ASSUME NEW st, Good(st), NEW n \in Names, NEW f \in {0, 1}
  PROVE  Outcome(st, SetEntryFlags(st, n, f))
<1> DEFINE e == st.entries[n]
           s == PutEntry(st, n, [e EXCEPT !.flags = f])
           out == If(e.id # NoId, <<ToAll(FlagsUpdate(e.id, f))>>)
<1>1. CASE ~Has(st, n) \/ e.flags = f
  <2>1. SetEntryFlags(st, n, f) = Ignored(st)
    BY <1>1 DEF SetEntryFlags
  <2> QED BY <2>1, IgnoredOutcome, EmptySeq
<1>2. CASE Has(st, n) /\ e.flags # f
  <2>1. Good(s) /\ SameRole(s, st) /\ OnlyAt(n, s, st) /\ s.entries[n].value = e.value
    BY <1>2, FlagsPut
  <2>2. out \in Seq(Sends)
    <3>1. e.id # NoId => FlagsUpdate(e.id, f) \in Msgs
      BY EntryTypes, MsgTypes DEF Good, FlagsUpdate, Msgs, NewIds, FlagMsgs
    <3> QED BY <3>1, SendIsSends DEF If
  <2>3. SetEntryFlags(st, n, f)
          = Result(MarkDirty(s, TRUE), <<Note(n, e.value, {"flags", "local"})>>, out)
    BY <1>2 DEF SetEntryFlags
  <2>4. "delete" \notin {"flags", "local"}
    OBVIOUS
  <2> HIDE DEF s, out, e
  <2>5. Outcome(st, Result(MarkDirty(s, TRUE), <<Note(n, e.value, {"flags", "local"})>>, out))
    BY <2>1, <2>2, <2>4, PutOutcome
  <2> QED BY <2>3, <2>5
<1> QED BY <1>1, <1>2

LEMMA DeleteOutcome ==
  ASSUME NEW st, Good(st), NEW n \in Names
  PROVE  Outcome(st, DeleteEntry(st, n))
<1> DEFINE e == st.entries[n]
           s == Erase(st, n)
           b == IsPersistent(e)
           out == If(e.id # NoId, <<ToAll(EntryDelete(e.id))>>)
<1>1. CASE ~Has(st, n)
  <2>1. DeleteEntry(st, n) = Ignored(st)
    BY <1>1 DEF DeleteEntry
  <2> QED BY <2>1, IgnoredOutcome, EmptySeq
<1>2. CASE Has(st, n)
  <2>1. st.entries \in [Names -> Entry] /\ st \in Store /\ e.id \in NewIds
        /\ st.idmap \in [Ids -> Names \cup {NoName}] /\ st.size \in 0 .. MaxIds
    BY EntryTypes DEF Good, Store
  <2>2. SameRole(s, st)
    BY <2>1 DEF Erase, SameRole, Store
  <2>3. s.entries = [st.entries EXCEPT ![n] = Fresh] /\ s.size = st.size /\ s.dirty = st.dirty
    BY <2>1 DEF Erase, Store
  <2>4. s.idmap = IF e.id \in Ids /\ e.id < st.size THEN [st.idmap EXCEPT ![e.id] = NoName] ELSE st.idmap
    <3>1. s.idmap = IF e.id < st.size THEN [st.idmap EXCEPT ![e.id] = NoName] ELSE st.idmap
      BY <2>1 DEF Erase, Store
    <3>2. e.id < st.size => e.id \in Ids
      BY <2>1, StorageAssumption DEF NewIds, NoId, Ids
    <3> QED BY <3>1, <3>2
  <2>5. s \in Store
    <3>1. Fresh \in Entry
      BY HalfAssumption DEF Fresh, Entry, SeqNums
    <3>2. s.entries \in [Names -> Entry]
      BY <3>1, <2>1, <2>3
    <3>3. s.idmap \in [Ids -> Names \cup {NoName}]
      BY <2>1, <2>4
    <3>4. PICK es, im : s = [st EXCEPT !.entries = es, !.idmap = im]
      BY DEF Erase
    <3>5. s.entries = es /\ s.idmap = im
      BY <3>4, <2>1 DEF Store
    <3> QED BY <3>2, <3>3, <3>4, <3>5, <2>1 DEF Store
  <2>6. (e.id \in Ids /\ e.id < st.size) \/ e.id = NoId \/ ~IsServer(st)
    <3>1. SUFFICES ASSUME IsServer(st), e.id # NoId PROVE e.id \in Ids /\ e.id < st.size
      OBVIOUS
    <3>2. e.id \in Ids /\ st.idmap[e.id] = n /\ n # NoName
      BY <3>1, <2>1, StorageAssumption DEF Good, Exact, MapSound, Linked, LeadsBack, NewIds
    <3> QED BY <3>1, <3>2 DEF Good, Exact, MapSound, Linked, LeadsBack
  <2>7. Good(s)
    <3>1. CASE IsServer(st)
      BY <3>1, <2>1, <2>2, <2>3, <2>4, <2>5, <2>6, FreedIsGood
    <3>2. CASE ~IsServer(st)
      BY <3>2, <2>2, <2>5, RoleFacts DEF Good
    <3> QED BY <3>1, <3>2
  <2>8. OnlyAt(n, s, st) /\ s.entries[n].value = NoValue
    BY <2>1, <2>3 DEF OnlyAt, Fresh
  <2>9. out \in Seq(Sends)
    <3>1. e.id # NoId => EntryDelete(e.id) \in Msgs
      BY <2>1 DEF EntryDelete, Msgs, NewIds, Deletes
    <3> QED BY <3>1, SendIsSends DEF If
  <2>10. b \in BOOLEAN
    BY DEF IsPersistent
  <2>11. DeleteEntry(st, n) = Result(MarkDirty(s, b), <<Note(n, e.value, {"delete", "local"})>>, out)
    BY <1>2 DEF DeleteEntry
  <2> HIDE DEF s, out, b
  <2> QED BY <2>2, <2>7, <2>8, <2>9, <2>10, <2>11, PutOutcome
<1> QED BY <1>1, <1>2

\* Deleting everything but the persistent entries.
LEMMA ClearFacts ==
  ASSUME NEW st, Good(st), NEW s, s = DeleteAllEntriesImpl(st)
  PROVE  Good(s) /\ SameRole(s, st) /\ Tells(st, ClearNotes(st), s)
<1> DEFINE gone == {n \in Present(st) : ~IsPersistent(st.entries[n])}
           es == [n \in Names |-> IF n \in gone THEN Fresh ELSE st.entries[n]]
           im == [i \in Ids |-> IF \E n \in gone : st.entries[n].id = i
                                THEN NoName ELSE st.idmap[i]]
<1>1. /\ st \in Store /\ st.entries \in [Names -> Entry]
      /\ st.idmap \in [Ids -> Names \cup {NoName}] /\ st.size \in 0 .. MaxIds
      /\ gone \subseteq Names
  BY DEF Good, Store, Present
<1>2. s = [st EXCEPT !.entries = es, !.idmap = im]
  BY <1>1 DEF DeleteAllEntriesImpl, Store
<1>3. Fresh \in Entry /\ Fresh.id = NoId /\ Fresh.value = NoValue
  BY HalfAssumption DEF Fresh, Entry, SeqNums
<1>4. es \in [Names -> Entry] /\ im \in [Ids -> Names \cup {NoName}]
  BY <1>1, <1>3
<1>g. \A n \in gone : Has(st, n)
  BY DEF Present
<1>e. \A n \in Names : es[n] = IF n \in gone THEN Fresh ELSE st.entries[n]
  OBVIOUS
<1>i. \A i \in Ids : im[i] = IF \E n \in gone : st.entries[n].id = i THEN NoName ELSE st.idmap[i]
  OBVIOUS
<1>n. ClearNotes(st) = SetToSeq({Note(n, st.entries[n].value, {"delete", "local"}) : n \in gone})
  BY DEF ClearNotes
<1>p. \A n \in Present(st) : n \in Names /\ Has(st, n)
  BY DEF Present
<1> HIDE DEF gone, es, im
<1>5. s \in Store /\ s.entries = es /\ s.idmap = im /\ s.size = st.size
  BY <1>1, <1>2, <1>4 DEF Store
<1>6. SameRole(s, st)
  BY <1>1, <1>2 DEF SameRole, Store
<1>7. \A n \in Names : Has(s, n) <=> n \notin gone /\ Has(st, n)
  BY <1>3, <1>5, <1>e DEF Has
<1>8. ASSUME IsServer(st) PROVE Exact(s)
  <2>1. Exact(st)
    BY <1>8 DEF Good
  <2>2. ASSUME NEW i \in Ids, s.idmap[i] # NoName
        PROVE  i < s.size /\ Has(s, s.idmap[i]) /\ s.entries[s.idmap[i]].id = i
    <3>1. s.idmap[i] = st.idmap[i] /\ st.idmap[i] \in Names /\ ~ \E n \in gone : st.entries[n].id = i
      BY <2>2, <1>1, <1>5, <1>i
    <3>2. i < st.size /\ Has(st, st.idmap[i]) /\ st.entries[st.idmap[i]].id = i
      BY <3>1, <2>1, <2>2 DEF Exact, MapSound, Linked, LeadsBack
    <3>3. st.idmap[i] \notin gone
      BY <3>1, <3>2
    <3> QED BY <3>1, <3>2, <3>3, <1>5, <1>7, <1>e
  <2>3. ASSUME NEW n \in Names, s.entries[n].id # NoId
        PROVE  Has(s, n) /\ s.idmap[s.entries[n].id] = n
    <3>1. n \notin gone /\ s.entries[n] = st.entries[n]
      BY <2>3, <1>3, <1>5, <1>e
    <3>2. Has(st, n) /\ st.idmap[st.entries[n].id] = n /\ st.entries[n].id \in Ids
      BY <3>1, <2>1, <2>3, <1>1 DEF Exact, MapSound, Linked, LeadsBack, Entry
    <3>3. ASSUME NEW m \in gone, st.entries[m].id = st.entries[n].id PROVE FALSE
      <4>1. m \in Names /\ st.entries[m].id # NoId
        BY <3>2, <3>3, <1>1, IdsAre
      <4>2. st.idmap[st.entries[m].id] = m
        BY <4>1, <2>1 DEF Exact, MapSound, Linked, LeadsBack
      <4> QED BY <4>2, <3>1, <3>2, <3>3
    <3>4. im[st.entries[n].id] = n
      BY <3>2, <3>3, <1>i
    <3> QED BY <3>1, <3>2, <3>4, <1>5, <1>7
  <2>4. ASSUME NEW n \in Names, Has(s, n) PROVE s.entries[n].id # NoId
    BY <2>1, <2>4, <1>5, <1>7, <1>e DEF Exact, Present
  <2> QED BY <2>2, <2>3, <2>4 DEF Exact, MapSound, Linked, LeadsBack, Present
<1>9. Good(s)
  BY <1>5, <1>6, <1>8, RoleFacts DEF Good
<1>10. Tells(st, ClearNotes(st), s)
  <2> DEFINE f == [n \in gone |-> Note(n, st.entries[n].value, {"delete", "local"})]
             S == {Note(n, st.entries[n].value, {"delete", "local"}) : n \in gone}
             notes == ClearNotes(st)
  <2>1. IsFiniteSet(S)
    <3>1. f \in [gone -> S] /\ \A x \in S : \E n \in gone : f[n] = x
      OBVIOUS
    <3> HIDE DEF f, S
    <3> QED BY <3>1, <1>1, FiniteOver
  <2>2. /\ \A k \in DOMAIN notes : notes[k] \in S
        /\ \A x \in S : \E k \in DOMAIN notes : notes[k] = x
    <3>1. notes = SetToSeq(S)
      BY <1>n
    <3> HIDE DEF S, notes
    <3> QED BY <2>1, <3>1, SetSeq
  <2>3. \A x \in S : x.name \in gone /\ "delete" \in x.kinds
    BY DEF Note
  <2>4. ASSUME NEW n \in gone PROVE \E x \in S : x.name = n
    <3>1. Note(n, st.entries[n].value, {"delete", "local"}) \in S
      OBVIOUS
    <3>2. Note(n, st.entries[n].value, {"delete", "local"}).name = n
      BY DEF Note
    <3> HIDE DEF S
    <3> QED BY <3>1, <3>2
  <2> HIDE DEF S, notes
  <2>5. \A k \in DOMAIN notes :
          /\ notes[k].name \in Names
          /\ s.entries[notes[k].name].value
               = IF "delete" \in notes[k].kinds THEN NoValue ELSE notes[k].value
    BY <2>2, <2>3, <1>1, <1>3, <1>5, <1>e
  <2>6. \A n \in Names : s.entries[n].value # st.entries[n].value =>
                           \E k \in DOMAIN notes : notes[k].name = n
    BY <2>2, <2>4, <1>5, <1>e
  <2>7. Tells(st, notes, s)
    BY <2>5, <2>6, <1>1, ToldMany
  <2> QED BY <2>7 DEF notes
<1> QED BY <1>6, <1>9, <1>10

LEMMA AllOutcome ==
  ASSUME NEW st, Good(st)
  PROVE  Outcome(st, DeleteAllEntries(st))
<1> DEFINE s == DeleteAllEntriesImpl(st)
           out == <<ToAll(ClearEntries)>>
<1>1. Good(s) /\ SameRole(s, st) /\ Tells(st, ClearNotes(st), s)
  BY ClearFacts
<1>2. out \in Seq(Sends)
  <2>1. ClearEntries \in Msgs
    BY DEF ClearEntries, Msgs, Clears
  <2> QED BY <2>1, SendIsSends
<1>3. Outcome(st, Result(s, ClearNotes(st), out))
  <2> HIDE DEF s, out
  <2> QED BY <1>1, <1>2 DEF Outcome, Result
<1>4. DeleteAllEntries(st) = Ignored(st) \/ DeleteAllEntries(st) = Result(s, ClearNotes(st), out)
  BY DEF DeleteAllEntries
<1> QED BY <1>3, <1>4, IgnoredOutcome, EmptySeq
-----------------------------------------------------------------------------
(***************************************************************************)
(* The messages of another node.                                           *)
(***************************************************************************)

\* An id that is known stands, on a server, for an entry that is there.
LEMMA KnownFacts ==
  ASSUME NEW st, Good(st), NEW i \in NewIds, KnownId(st, i)
  PROVE  /\ i \in Ids /\ st.idmap[i] \in Names
         /\ IsServer(st) => Has(st, st.idmap[i]) /\ st.entries[st.idmap[i]].id = i
<1>1. st.idmap \in [Ids -> Names \cup {NoName}] /\ st.size \in 0 .. MaxIds
  BY DEF Good, Store
<1>2. i \in Ids
  BY <1>1, StorageAssumption DEF KnownId, NewIds, NoId, Ids
<1> QED BY <1>1, <1>2 DEF KnownId, Good, Exact, MapSound, Linked, LeadsBack

\* A client asks the server for an id.
LEMMA RequestOutcome ==
  ASSUME NEW st, Good(st), IsServer(st), HasRoom(st), NEW m \in Assigns
  PROVE  Outcome(st, AssignRequest(st, m))
<1>1. CASE Has(st, m.name)
  <2>1. AssignRequest(st, m) = Ignored(st)
    BY <1>1 DEF AssignRequest
  <2> QED BY <2>1, IgnoredOutcome, EmptySeq
<1>2. CASE ~Has(st, m.name)
  <2> DEFINE e == [Fresh EXCEPT !.value = m.value, !.flags = m.flags]
             s == GiveId(PutEntry(st, m.name, e), m.name)
             out == <<ToAll(AssignOf(m.name, s.entries[m.name]))>>
             b == m.flags = 1
             kinds == {"new"}
  <2>1. m.name \in Names /\ m.value \in Values /\ m.flags \in {0, 1}
    BY DEF Assigns
  <2>2. e \in Entry /\ e.value = m.value /\ e.id = NoId
    <3>1. Fresh \in Entry
      BY HalfAssumption DEF Fresh, Entry, SeqNums
    <3>2. e.value = m.value /\ e.id = NoId
      BY DEF Fresh
    <3> QED BY <2>1, <3>1, <3>2 DEF Entry
  <2>3. /\ Good(s) /\ SameRole(s, st) /\ OnlyAt(m.name, s, st)
        /\ s.entries[m.name] \in Entry /\ s.entries[m.name].value = m.value
    <3> HIDE DEF e
    <3> QED BY <1>2, <2>1, <2>2, GiveKeepsExact
  <2>4. out \in Seq(Sends)
    <3> HIDE DEF s
    <3>1. AssignOf(m.name, s.entries[m.name]) \in Msgs
      BY <2>1, <2>3, AssignIsMsg
    <3> QED BY <3>1, SendIsSends
  <2>5. AssignRequest(st, m) = Result(MarkDirty(s, b), <<Note(m.name, m.value, kinds)>>, out)
    BY <1>2 DEF AssignRequest
  <2>6. b \in BOOLEAN /\ "delete" \notin kinds
    OBVIOUS
  <2> HIDE DEF s, out, b, kinds
  <2> QED BY <2>1, <2>3, <2>4, <2>5, <2>6, PutOutcome
<1> QED BY <1>1, <1>2

\* The server is told of an entry it has, or has not.
LEMMA TakeAssignOutcome ==
  ASSUME NEW st, Good(st), NEW n \in Names, NEW m \in Assigns, m.id \in Ids,
         NEW mayNeed \in BOOLEAN, mayNeed \/ IsServer(st) => Has(st, n)
  PROVE  Outcome(st, TakeAssign(st, n, m, mayNeed))
<1> DEFINE e == st.entries[n]
           flags == IF mayNeed THEN e.flags ELSE m.flags
           new == [e EXCEPT !.value = m.value, !.seq = m.seq, !.flags = flags]
           kinds == {"update"} \cup (IF flags # e.flags THEN {"flags"} ELSE {})
           interim == If(mayNeed /\ m.flags # e.flags, <<ToAll(FlagsUpdate(m.id, e.flags))>>)
           again == If(mayNeed, <<ToAll(EntryUpdate(e.id, e.seq, e.value))>>)
           onward == If(st.server, <<Onward(EntryAssign(n, m.id, m.seq, m.value, flags))>>)
           s == PutEntry(st, n, new)
           b == flags # e.flags \/ (flags = 1 /\ e.value # m.value)
<1>1. /\ e \in Entry /\ e.id \in NewIds /\ e.seq \in SeqNums /\ e.flags \in {0, 1}
      /\ mayNeed => e.value \in Values
      /\ m.name \in Names /\ m.value \in Values /\ m.flags \in {0, 1} /\ m.seq \in SeqNums
      /\ flags \in {0, 1} /\ m.id \in NewIds
  BY EntryTypes DEF Good, Assigns, NewIds
<1>2. interim \in Seq(Sends)
  <2>1. FlagsUpdate(m.id, e.flags) \in Msgs
    BY <1>1 DEF FlagsUpdate, Msgs, FlagMsgs
  <2> QED BY <2>1, SendIsSends DEF If
<1>3. again \in Seq(Sends)
  <2>1. mayNeed => EntryUpdate(e.id, e.seq, e.value) \in Msgs
    BY <1>1 DEF EntryUpdate, Msgs, Updates
  <2> QED BY <2>1, SendIsSends DEF If
<1>4. onward \in Seq(Sends)
  <2> HIDE DEF flags
  <2>1. EntryAssign(n, m.id, m.seq, m.value, flags) \in Msgs
    BY <1>1, MsgTypes
  <2> QED BY <2>1, SendIsSends DEF If
<1>5. new \in Entry /\ new.value = m.value /\ new.id = e.id
  <2> HIDE DEF flags
  <2> QED BY <1>1 DEF Entry
<1>6. /\ Good(s) /\ SameRole(s, st) /\ OnlyAt(n, s, st) /\ s.entries[n].value = m.value
  <2>1. st.entries \in [Names -> Entry] /\ st \in Store
    BY DEF Good, Store
  <2> HIDE DEF new
  <2>2. s.entries = [st.entries EXCEPT ![n] = new]
    BY <1>5, <2>1, PutFacts
  <2>3. Good(s) /\ SameRole(s, st)
    BY <1>1, <1>5, PutKeepsExact
  <2> QED BY <1>5, <2>1, <2>2, <2>3 DEF OnlyAt
<1>7. b \in BOOLEAN /\ "delete" \notin kinds
  OBVIOUS
<1>8. interim \o again \in Seq(Sends) /\ interim \o onward \in Seq(Sends)
  <2> HIDE DEF interim, again, onward
  <2> QED BY <1>2, <1>3, <1>4, Concat
<1>9. CASE Lt(m.seq, e.seq)
  <2>1. TakeAssign(st, n, m, mayNeed) = Result(st, <<>>, interim \o again)
    BY <1>9 DEF TakeAssign
  <2> HIDE DEF interim, again
  <2> QED BY <1>8, <2>1, IgnoredOutcome
<1>10. CASE ~Lt(m.seq, e.seq) /\ m.name # n
  <2>1. TakeAssign(st, n, m, mayNeed) = Result(st, <<>>, interim)
    BY <1>10 DEF TakeAssign
  <2> HIDE DEF interim, again
  <2> QED BY <1>2, <2>1, IgnoredOutcome
<1>11. CASE ~Lt(m.seq, e.seq) /\ m.name = n
  <2>1. TakeAssign(st, n, m, mayNeed) = Result(MarkDirty(s, b), <<Note(n, m.value, kinds)>>, interim \o onward)
    BY <1>11 DEF TakeAssign
  <2> HIDE DEF interim, onward, s, b, kinds
  <2> QED BY <1>1, <1>6, <1>7, <1>8, <2>1, PutOutcome
<1> QED BY <1>9, <1>10, <1>11

LEMMA ServerAssignOutcome ==
  ASSUME NEW st, Good(st), IsServer(st), HasRoom(st), NEW m \in Assigns
  PROVE  Outcome(st, ServerAssign(st, m))
<1>1. CASE m.id = NoId
  BY <1>1, RequestOutcome DEF ServerAssign
<1>2. CASE m.id # NoId /\ ~KnownId(st, m.id)
  BY <1>2, IgnoredOutcome, EmptySeq DEF ServerAssign
<1>3. CASE m.id # NoId /\ KnownId(st, m.id)
  <2>1. m.id \in NewIds
    BY DEF Assigns
  <2>2. m.id \in Ids /\ st.idmap[m.id] \in Names /\ Has(st, st.idmap[m.id])
    BY <1>3, <2>1, KnownFacts
  <2>3. Outcome(st, TakeAssign(st, st.idmap[m.id], m, FALSE))
    BY <2>2, TakeAssignOutcome
  <2> QED BY <1>3, <2>3 DEF ServerAssign
<1> QED BY <1>1, <1>2, <1>3

\* A client's id map takes the id it is told; its table stays as it was.
LEMMA BindFacts ==
  ASSUME NEW st, Good(st), ~IsServer(st), NEW n \in Names, NEW i \in Ids,
         NEW s, s = BindId(st, n, i)
  PROVE  /\ Good(s) /\ SameRole(s, st) /\ OnlyAt(n, s, st)
         /\ s.entries[n].value = st.entries[n].value
         /\ ValuesOf(s) = ValuesOf(st) /\ \A k \in Names : Has(s, k) <=> Has(st, k)
<1>1. /\ st \in Store /\ st.entries \in [Names -> Entry]
      /\ st.idmap \in [Ids -> Names \cup {NoName}] /\ st.size \in 0 .. MaxIds
      /\ st.entries[n] \in Entry
  BY DEF Good, Store
<1> DEFINE es == [st.entries EXCEPT ![n] = [@ EXCEPT !.id = i]]
           im == [st.idmap EXCEPT ![i] = n]
           z == IF i >= st.size THEN i + 1 ELSE st.size
<1>2. s = [st EXCEPT !.entries = es, !.idmap = im, !.size = z]
  BY <1>1 DEF BindId, Store
<1>3. es \in [Names -> Entry] /\ im \in [Ids -> Names \cup {NoName}]
      /\ \A k \in Names : es[k].value = st.entries[k].value
  <2>1. [st.entries[n] EXCEPT !.id = i] \in Entry
        /\ [st.entries[n] EXCEPT !.id = i].value = st.entries[n].value
    BY <1>1 DEF Entry
  <2>2. es = [st.entries EXCEPT ![n] = [st.entries[n] EXCEPT !.id = i]]
    BY <1>1
  <2> QED BY <1>1, <2>1, <2>2
<1>4. z \in 0 .. MaxIds
  BY <1>1, IdsAre, StorageAssumption
<1>5. s.entries = [st.entries EXCEPT ![n] = es[n]]
  BY <1>1, <1>2 DEF Store
<1> HIDE DEF es, im, z
<1>6. s \in Store /\ s.entries = es
  BY <1>1, <1>2, <1>3, <1>4 DEF Store
<1>7. SameRole(s, st)
  BY <1>1, <1>2 DEF Store, SameRole
<1>8. OnlyAt(n, s, st)
  BY <1>5, <1>6 DEF OnlyAt
<1> QED BY <1>3, <1>6, <1>7, <1>8, RoleFacts DEF Good, ValuesOf, Has

\* What becomes of a storage that differs from this one in its ids only.
LEMMA OutcomeSameValues ==
  ASSUME NEW st, NEW s, SameRole(s, st), ValuesOf(s) = ValuesOf(st), NEW r, Outcome(s, r)
  PROVE  Outcome(st, r)
BY RoleTwice DEF Outcome, Tells

LEMMA ClientAssignOutcome ==
  ASSUME NEW st, Good(st), ~IsServer(st), NEW m \in Assigns
  PROVE  Outcome(st, ClientAssign(st, m))
<1>0. /\ m.name \in Names /\ m.value \in Values /\ m.flags \in {0, 1} /\ m.id \in NewIds
      /\ m.id # NoId => m.id \in Ids
  BY DEF Assigns, NewIds
<1>1. CASE m.id = NoId
  BY <1>1, IgnoredOutcome, EmptySeq DEF ClientAssign
<1>2. CASE m.id # NoId /\ KnownId(st, m.id)
  <2>1. m.id \in Ids /\ st.idmap[m.id] \in Names
    BY <1>0, <1>2, KnownFacts
  <2>2. Outcome(st, TakeAssign(st, st.idmap[m.id], m, FALSE))
    BY <2>1, TakeAssignOutcome
  <2> QED BY <1>2, <2>2 DEF ClientAssign
<1>3. CASE m.id # NoId /\ ~KnownId(st, m.id) /\ Has(st, m.name)
  <2>1. PICK s : s = BindId(st, m.name, m.id)
    OBVIOUS
  <2>2. Good(s) /\ SameRole(s, st) /\ ValuesOf(s) = ValuesOf(st) /\ Has(s, m.name)
    BY <1>0, <1>3, <2>1, BindFacts
  <2>3. Outcome(s, TakeAssign(s, m.name, m, TRUE))
    BY <1>0, <1>3, <2>2, TakeAssignOutcome
  <2>4. Outcome(st, TakeAssign(s, m.name, m, TRUE))
    BY <2>2, <2>3, OutcomeSameValues
  <2> QED BY <1>3, <2>1, <2>4 DEF ClientAssign
<1>4. CASE m.id # NoId /\ ~KnownId(st, m.id) /\ ~Has(st, m.name)
  <2> DEFINE e == [Fresh EXCEPT !.value = m.value, !.flags = m.flags]
             p == PutEntry(st, m.name, e)
             s == BindId(p, m.name, m.id)
             kinds == {"new"}
  <2>1. e \in Entry /\ e.value = m.value
    <3>1. Fresh \in Entry
      BY HalfAssumption DEF Fresh, Entry, SeqNums
    <3>2. e.value = m.value
      BY DEF Fresh
    <3> QED BY <1>0, <3>1, <3>2 DEF Entry
  <2>2. Good(p) /\ SameRole(p, st) /\ p.entries = [st.entries EXCEPT ![m.name] = e]
        /\ p.entries[m.name].value = m.value
    <3>1. st.entries \in [Names -> Entry] /\ st \in Store
      BY DEF Good, Store
    <3> HIDE DEF e
    <3>2. p.entries = [st.entries EXCEPT ![m.name] = e]
      BY <1>0, <2>1, <3>1, PutFacts
    <3>3. Good(p) /\ SameRole(p, st)
      BY <1>0, <2>1, PutKeepsExact
    <3> QED BY <1>0, <2>1, <3>1, <3>2, <3>3
  <2>3. ~IsServer(p)
    BY <2>2, RoleFacts
  <2>4. ClientAssign(st, m) = Result(s, <<Note(m.name, m.value, kinds)>>, <<>>)
    BY <1>4 DEF ClientAssign
  <2>5. s = BindId(p, m.name, m.id)
    OBVIOUS
  <2> HIDE DEF e, p, s
  <2>6. Good(s) /\ SameRole(s, p) /\ OnlyAt(m.name, s, p) /\ s.entries[m.name].value = m.value
    <3>1. m.id \in Ids /\ m.name \in Names /\ Good(p) /\ ~IsServer(p)
      BY <1>0, <1>4, <2>2, <2>3
    <3>2. Good(s) /\ SameRole(s, p) /\ OnlyAt(m.name, s, p)
      BY <3>1, <2>5, BindFacts
    <3>3. s.entries[m.name].value = p.entries[m.name].value
      BY <3>1, <2>5, BindFacts
    <3> QED BY <2>2, <3>2, <3>3
  <2>7. SameRole(s, st)
    BY <2>2, <2>6, RoleTwice
  <2>8. OnlyAt(m.name, s, st)
    <3>1. st.entries \in [Names -> Entry]
      BY DEF Good, Store
    <3>2. s.entries = [[st.entries EXCEPT ![m.name] = e] EXCEPT ![m.name] = s.entries[m.name]]
      BY <2>2, <2>6 DEF OnlyAt
    <3>3. [[st.entries EXCEPT ![m.name] = e] EXCEPT ![m.name] = s.entries[m.name]]
            = [st.entries EXCEPT ![m.name] = s.entries[m.name]]
      BY <3>1
    <3> QED BY <3>2, <3>3 DEF OnlyAt
  <2>9. "delete" \notin kinds /\ <<>> \in Seq(Sends)
    OBVIOUS
  <2> HIDE DEF kinds
  <2>10. Outcome(st, Result(MarkDirty(s, FALSE), <<Note(m.name, m.value, kinds)>>, <<>>))
    BY <1>0, <2>6, <2>7, <2>8, <2>9, PutOutcome
  <2> QED BY <2>4, <2>6, <2>10, NotDirty
<1> QED BY <1>1, <1>2, <1>3, <1>4

LEMMA PutWithId ==
  ASSUME NEW st, Good(st), NEW n \in Names, NEW e \in Entry,
         IsServer(st) => Has(st, n) /\ e.id = st.entries[n].id /\ e.value \in Values,
         NEW s, s = PutEntry(st, n, e)
  PROVE  Good(s) /\ SameRole(s, st) /\ OnlyAt(n, s, st) /\ s.entries[n] = e
<1>1. st.entries \in [Names -> Entry] /\ st \in Store
  BY DEF Good, Store
<1>2. s.entries = [st.entries EXCEPT ![n] = e]
  BY <1>1, PutFacts
<1>3. Good(s) /\ SameRole(s, st)
  BY PutKeepsExact
<1> QED BY <1>1, <1>2, <1>3 DEF OnlyAt

\* A value, flags, a deletion or a ClearEntries of another node.
LEMMA UpdateOutcome ==
  ASSUME NEW st, Good(st), NEW m \in Updates
  PROVE  Outcome(st, TakeUpdate(st, m))
<1> DEFINE n == st.idmap[m.id]
           e == st.entries[n]
           new == [e EXCEPT !.value = m.value, !.seq = m.seq]
           s == PutEntry(st, n, new)
           b == IsPersistent(e)
           kinds == {"update"}
           out == If(st.server, <<Onward(m)>>)
<1>0. m.id \in NewIds /\ m.seq \in SeqNums /\ m.value \in Values /\ m \in Msgs
  BY DEF Updates, Msgs
<1>1. CASE ~KnownId(st, m.id) \/ Leq(m.seq, e.seq)
  <2>1. TakeUpdate(st, m) = Ignored(st)
    BY <1>1 DEF TakeUpdate
  <2> QED BY <2>1, IgnoredOutcome, EmptySeq
<1>2. CASE KnownId(st, m.id) /\ ~Leq(m.seq, e.seq)
  <2>1. n \in Names /\ (IsServer(st) => Has(st, n))
    BY <1>0, <1>2, KnownFacts
  <2>2. e \in Entry
    <3> HIDE DEF n
    <3> QED BY <2>1, EntryTypes DEF Good
  <2>3. new \in Entry /\ new.value = m.value /\ new.id = e.id
    BY <1>0, <2>2 DEF Entry
  <2>4. Good(s) /\ SameRole(s, st) /\ OnlyAt(n, s, st) /\ s.entries[n] = new
    <3> HIDE DEF n, new
    <3> QED BY <1>0, <2>1, <2>3, PutWithId
  <2>5. out \in Seq(Sends)
    BY <1>0, SendIsSends DEF If
  <2>6. b \in BOOLEAN /\ "delete" \notin kinds
    BY DEF IsPersistent
  <2>7. TakeUpdate(st, m) = Result(MarkDirty(s, b), <<Note(n, m.value, kinds)>>, out)
    BY <1>2 DEF TakeUpdate
  <2> HIDE DEF s, b, kinds, out, n, new
  <2> QED BY <2>1, <2>3, <2>4, <2>5, <2>6, <2>7, PutOutcome
<1> QED BY <1>1, <1>2

LEMMA TakeFlagsOutcome ==
  ASSUME NEW st, Good(st), NEW m \in FlagMsgs
  PROVE  Outcome(st, TakeFlags(st, m))
<1> DEFINE n == st.idmap[m.id]
           e == st.entries[n]
           new == [e EXCEPT !.flags = m.flags]
           s == PutEntry(st, n, new)
           kinds == {"flags"}
           out == If(st.server, <<Onward(m)>>)
<1>0. m.id \in NewIds /\ m.flags \in {0, 1} /\ m \in Msgs
  BY DEF FlagMsgs, Msgs, NewIds
<1>1. CASE ~KnownId(st, m.id) \/ e.flags = m.flags
  <2>1. TakeFlags(st, m) = Ignored(st)
    BY <1>1 DEF TakeFlags
  <2> QED BY <2>1, IgnoredOutcome, EmptySeq
<1>2. CASE KnownId(st, m.id) /\ e.flags # m.flags
  <2>1. n \in Names /\ (IsServer(st) => Has(st, n))
    BY <1>0, <1>2, KnownFacts
  <2>2. e \in Entry /\ (IsServer(st) => e.value \in Values)
    <3> HIDE DEF n
    <3> QED BY <2>1, EntryTypes DEF Good
  <2>3. new \in Entry /\ new.value = e.value /\ new.id = e.id
    BY <1>0, <2>2 DEF Entry
  <2>4. Good(s) /\ SameRole(s, st) /\ OnlyAt(n, s, st) /\ s.entries[n] = new
    <3> HIDE DEF n, new
    <3> QED BY <1>0, <2>1, <2>2, <2>3, PutWithId
  <2>5. out \in Seq(Sends)
    BY <1>0, SendIsSends DEF If
  <2>6. "delete" \notin kinds
    OBVIOUS
  <2>7. TakeFlags(st, m) = Result(MarkDirty(s, TRUE), <<Note(n, e.value, kinds)>>, out)
    BY <1>2 DEF TakeFlags
  <2> HIDE DEF s, kinds, out, n, new
  <2> QED BY <2>1, <2>3, <2>4, <2>5, <2>6, <2>7, PutOutcome
<1> QED BY <1>1, <1>2

LEMMA TakeDeleteOutcome ==
  ASSUME NEW st, Good(st), NEW m \in Deletes
  PROVE  Outcome(st, TakeDelete(st, m))
<1> DEFINE n == st.idmap[m.id]
           e == st.entries[n]
           b == IsPersistent(e)
           s == [MarkDirty(PutEntry(st, n, Fresh), b) EXCEPT !.idmap[m.id] = NoName]
           kinds == {"delete"}
           out == If(st.server, <<Onward(m)>>)
<1>0. m.id \in NewIds /\ m.id \in Ids /\ m \in Msgs
  BY DEF Deletes, Msgs, NewIds
<1>1. CASE ~KnownId(st, m.id)
  <2>1. TakeDelete(st, m) = Ignored(st)
    BY <1>1 DEF TakeDelete
  <2> QED BY <2>1, IgnoredOutcome, EmptySeq
<1>2. CASE KnownId(st, m.id)
  <2>1. n \in Names /\ (IsServer(st) => Has(st, n) /\ e.id = m.id)
    BY <1>0, <1>2, KnownFacts
  <2>2. st \in Store /\ st.entries \in [Names -> Entry]
        /\ st.idmap \in [Ids -> Names \cup {NoName}] /\ st.size \in 0 .. MaxIds
        /\ b \in BOOLEAN /\ m.id < st.size
    BY <1>2 DEF Good, Store, IsPersistent, KnownId
  <2>3. Fresh \in Entry
    BY HalfAssumption DEF Fresh, Entry, SeqNums
  <2> HIDE DEF n, b
  <2>4. PICK p : p = PutEntry(st, n, Fresh)
    OBVIOUS
  <2>5. p \in Store /\ p.size = st.size /\ p.idmap = st.idmap
    BY <2>1, <2>2, <2>3, <2>4, PutFacts
  <2>6. SameRole(p, st) /\ p.entries = [st.entries EXCEPT ![n] = Fresh]
    BY <2>1, <2>2, <2>3, <2>4, PutFacts
  <2>7. s \in Store /\ s.size = p.size /\ s.entries = p.entries
        /\ s.idmap = [p.idmap EXCEPT ![m.id] = NoName]
    BY <2>2, <2>4, <2>5, <1>0 DEF MarkDirty, Store
  <2>8. SameRole(s, p)
    BY <2>4, <2>5 DEF MarkDirty, Store, SameRole
  <2>9. TakeDelete(st, m) = Result(s, <<Note(n, e.value, kinds)>>, out)
    BY <1>2 DEF TakeDelete, n, b
  <2>10. OnlyAt(n, s, st) /\ s.entries[n].value = NoValue
    BY <2>1, <2>2, <2>6, <2>7 DEF OnlyAt, Fresh
  <2>11. out \in Seq(Sends)
    BY <1>0, SendIsSends DEF If
  <2>12. "delete" \in kinds
    OBVIOUS
  <2> HIDE DEF s, kinds, out
  <2>13. SameRole(s, st)
    BY <2>6, <2>8, RoleTwice
  <2>14. Good(s)
    <3>1. CASE IsServer(st)
      <4>1. /\ s.entries = [st.entries EXCEPT ![n] = Fresh] /\ s.size = st.size
            /\ s.idmap = IF m.id \in Ids /\ m.id < st.size
                         THEN [st.idmap EXCEPT ![m.id] = NoName] ELSE st.idmap
        BY <1>0, <2>2, <2>5, <2>6, <2>7
      <4> QED BY <3>1, <4>1, <1>0, <2>1, <2>2, <2>7, <2>13, FreedIsGood
    <3>2. CASE ~IsServer(st)
      BY <3>2, <2>7, <2>13, RoleFacts DEF Good
    <3> QED BY <3>1, <3>2
  <2>15. Outcome(st, Result(MarkDirty(s, FALSE), <<Note(n, e.value, kinds)>>, out))
    BY <2>1, <2>10, <2>11, <2>12, <2>13, <2>14, PutOutcome
  <2> QED BY <2>9, <2>14, <2>15, NotDirty
<1> QED BY <1>1, <1>2

LEMMA TakeClearOutcome ==
  ASSUME NEW st, Good(st), NEW m \in Clears
  PROVE  Outcome(st, TakeClear(st, m))
<1> DEFINE s == DeleteAllEntriesImpl(st)
           out == If(st.server, <<Onward(m)>>)
<1>1. Good(s) /\ SameRole(s, st) /\ Tells(st, ClearNotes(st), s)
  BY ClearFacts
<1>2. out \in Seq(Sends)
  <2>1. m \in Msgs
    BY DEF Clears, Msgs
  <2> QED BY <2>1, SendIsSends DEF If
<1> HIDE DEF s, out
<1>3. Outcome(st, Result(s, ClearNotes(st), out))
  BY <1>1, <1>2 DEF Outcome, Result
<1> QED BY <1>3 DEF TakeClear, s, out

\* Any message of another node.
LEMMA IncomingOutcome ==
  ASSUME NEW st, Good(st), HasRoom(st) \/ ~IsServer(st), NEW m \in Msgs
  PROVE  Outcome(st, ProcessIncoming(st, m))
<1>1. CASE m \in Assigns
  <2>1. ProcessIncoming(st, m) = IF IsServer(st) THEN ServerAssign(st, m) ELSE ClientAssign(st, m)
    BY <1>1 DEF Assigns, ProcessIncoming, IsServer
  <2>2. CASE IsServer(st)
    BY <1>1, <2>1, <2>2, ServerAssignOutcome
  <2>3. CASE ~IsServer(st)
    BY <1>1, <2>1, <2>3, ClientAssignOutcome
  <2> QED BY <2>2, <2>3
<1>2. CASE m \in Updates
  <2>1. ProcessIncoming(st, m) = TakeUpdate(st, m)
    BY <1>2 DEF Updates, ProcessIncoming
  <2> QED BY <1>2, <2>1, UpdateOutcome
<1>3. CASE m \in FlagMsgs
  <2>1. ProcessIncoming(st, m) = TakeFlags(st, m)
    BY <1>3 DEF FlagMsgs, ProcessIncoming
  <2> QED BY <1>3, <2>1, TakeFlagsOutcome
<1>4. CASE m \in Deletes
  <2>1. ProcessIncoming(st, m) = TakeDelete(st, m)
    BY <1>4 DEF Deletes, ProcessIncoming
  <2> QED BY <1>4, <2>1, TakeDeleteOutcome
<1>5. CASE m \in Clears
  <2>1. ProcessIncoming(st, m) = TakeClear(st, m)
    BY <1>5 DEF Clears, ProcessIncoming
  <2> QED BY <1>5, <2>1, TakeClearOutcome
<1> QED BY <1>1, <1>2, <1>3, <1>4, <1>5 DEF Msgs, Updates, FlagMsgs, Deletes, Clears
-----------------------------------------------------------------------------
(***************************************************************************)
(* The tables of two nodes that connect.                                   *)
(***************************************************************************)

\* The server's assignments of its entries, which all have an id.
Answers == {m \in Assigns : m.id \in Ids}

\* A server's snapshot names every entry with its id.
LEMMA InitialFacts ==
  ASSUME NEW st, Good(st), IsServer(st)
  PROVE  GetInitialAssignments(st) \in Seq(Answers)
<1> DEFINE S == {AssignOf(n, st.entries[n]) : n \in Present(st)}
           f == [n \in Present(st) |-> AssignOf(n, st.entries[n])]
<1>1. IsFiniteSet(S)
  <2>1. f \in [Present(st) -> S] /\ \A x \in S : \E n \in Present(st) : f[n] = x
    OBVIOUS
  <2>2. Present(st) \subseteq Names
    BY DEF Present
  <2> HIDE DEF f, S
  <2> QED BY <2>1, <2>2, FiniteOver
<1>2. S \subseteq Answers
  <2>1. SUFFICES ASSUME NEW n \in Present(st) PROVE AssignOf(n, st.entries[n]) \in Answers
    OBVIOUS
  <2>2. n \in Names /\ st.entries[n] \in Entry /\ st.entries[n].value \in Values
    BY EntryTypes DEF Present, Good
  <2>3. AssignOf(n, st.entries[n]) \in Assigns
    BY <2>2, AssignIsMsg
  <2>4. st.entries[n].id \in Ids
    BY <2>2 DEF Good, Exact, Entry
  <2> QED BY <2>3, <2>4 DEF Answers, AssignOf, EntryAssign
<1> HIDE DEF S
<1>3. SetToSeq(S) \in Seq(S)
  BY <1>1, SetSeq
<1>4. SetToSeq(S) \in Seq(Answers)
  BY <1>2, <1>3
<1> QED BY <1>4 DEF GetInitialAssignments, S

\* A finite set of numbers has a greatest one.
LEMMA HasMaximum ==
  ASSUME NEW T, T \subseteq 0 .. MaxIds, T # {}
  PROVE  \E t \in T : \A u \in T : u <= t
<1> DEFINE D == {MaxIds - t : t \in T}
<1>1. D \subseteq Nat /\ D # {}
  <2>1. \A t \in T : MaxIds - t \in Nat
    BY StorageAssumption
  <2> QED BY <2>1
<1> HIDE DEF D
<1>2. PICK d \in D : \A e \in D : ~ (<<e, d>> \in OpToRel(<, Nat))
  BY <1>1, NatLessThanWellFounded, WFMin
<1>3. \A e \in D : ~(e < d)
  BY <1>1, <1>2 DEF OpToRel
<1>4. PICK t \in T : d = MaxIds - t
  BY DEF D
<1>5. ASSUME NEW u \in T PROVE u <= t
  <2>1. MaxIds - u \in D
    BY DEF D
  <2>2. ~(MaxIds - u < MaxIds - t)
    BY <1>3, <1>4, <2>1
  <2> QED BY <2>2, StorageAssumption
<1> QED BY <1>5

\* A client takes the server's entries over, with their ids, and asks for ids
\* for the entries that the server does not have.
LEMMA ApplyFacts ==
  ASSUME NEW st, Good(st), ~IsServer(st), NEW msgs \in Seq(Answers), NEW newServer \in BOOLEAN,
         NEW r, r = ApplyInitialAssignments(st, msgs, newServer)
  PROVE  Outcome(st, r) /\ r.requests \in Seq(Msgs)
<1> DEFINE theirs(n) == CHOOSE m \in InitialFor(msgs, n) : TRUE
           known == {n \in Names : InitialFor(msgs, n) # {}}
           unassigned == Present(st) \ known
           won == {k \in known : TheirsWins(st.entries[k], theirs(k), newServer)}
           kept == {k \in known : ~TheirsWins(st.entries[k], theirs(k), newServer)}
           es == [n \in Names |->
                    IF n \in known THEN Merged(st.entries[n], theirs(n), newServer)
                    ELSE [st.entries[n] EXCEPT !.id = NoId]]
           im == [i \in Ids |-> IF \E n \in known : theirs(n).id = i
                                THEN CHOOSE n \in known : theirs(n).id = i ELSE NoName]
           top == {m.id + 1 : m \in ToSet(msgs)} \cup {0}
           z == CHOOSE t \in top : \A u \in top : u <= t
           told(n) == Note(n, theirs(n).value, {IF Has(st, n) THEN "update" ELSE "new"})
           upd(n) == ToAll(EntryUpdate(NoId, st.entries[n].seq, st.entries[n].value))
           notes == SetToSeq({told(n) : n \in won})
           out == SetToSeq({upd(n) : n \in kept})
           requests == SetToSeq({AssignOf(n, es[n]) : n \in unassigned})
           s == [st EXCEPT !.entries = es, !.idmap = im, !.size = z]
<1>0. r = [st |-> s, notes |-> notes, out |-> out, requests |-> requests]
  BY DEF ApplyInitialAssignments
<1>1. st \in Store /\ st.entries \in [Names -> Entry]
  BY DEF Good, Store
<1>2. ToSet(msgs) \subseteq Answers
  BY DEF ToSet
<1>3. ASSUME NEW n \in known
      PROVE  /\ theirs(n) \in Answers /\ theirs(n).name = n
             /\ theirs(n).value \in Values /\ theirs(n).id \in Ids
             /\ theirs(n).seq \in SeqNums /\ theirs(n).flags \in {0, 1}
  <2>1. theirs(n) \in InitialFor(msgs, n)
    OBVIOUS
  <2>2. theirs(n) \in Answers /\ theirs(n).name = n
    BY <1>2, <2>1 DEF InitialFor
  <2> HIDE DEF theirs
  <2> QED BY <2>2 DEF Answers, Assigns
<1>4. known \subseteq Names /\ unassigned \subseteq Present(st) /\ Present(st) \subseteq Names
      /\ unassigned \cap known = {}
      /\ won \subseteq known /\ kept \subseteq known /\ known \subseteq won \cup kept
  BY DEF Present
<1>5. \A n \in Names : es[n] = IF n \in known THEN Merged(st.entries[n], theirs(n), newServer)
                               ELSE [st.entries[n] EXCEPT !.id = NoId]
  OBVIOUS
<1>6. \A n \in won : TheirsWins(st.entries[n], theirs(n), newServer)
  OBVIOUS
<1>7. \A n \in kept : ~TheirsWins(st.entries[n], theirs(n), newServer)
  OBVIOUS
<1>8. z \in 0 .. MaxIds
  <2>1. \A m \in ToSet(msgs) : m.id \in Ids
    BY <1>2 DEF Answers
  <2>2. \A i \in Ids : i + 1 \in 0 .. MaxIds
    BY StorageAssumption DEF Ids
  <2>3. top \subseteq 0 .. MaxIds /\ top # {}
    BY <2>1, <2>2, StorageAssumption
  <2> HIDE DEF top
  <2>4. z \in top
    BY <2>3, HasMaximum
  <2> QED BY <2>3, <2>4
<1>9. im \in [Ids -> Names \cup {NoName}]
  <2>1. ASSUME NEW i \in Ids, \E n \in known : theirs(n).id = i
        PROVE  (CHOOSE n \in known : theirs(n).id = i) \in Names
    <3> HIDE DEF theirs
    <3>1. (CHOOSE n \in known : theirs(n).id = i) \in known
      BY <2>1
    <3> QED BY <3>1, <1>4
  <2> HIDE DEF known, theirs
  <2> QED BY <2>1
<1> HIDE DEF theirs, known, unassigned, won, kept, es, im, z
<1>10. ASSUME NEW n \in Names
       PROVE  /\ es[n] \in Entry
              /\ n \in won => es[n].value = theirs(n).value
              /\ n \notin won => es[n].value = st.entries[n].value
              /\ n \notin known => es[n].id = NoId
  <2>1. st.entries[n] \in Entry
    BY <1>1
  <2>2. CASE n \in won
    <3>1. es[n] = [value |-> theirs(n).value, flags |-> theirs(n).flags,
                   id |-> theirs(n).id, seq |-> theirs(n).seq]
      BY <1>4, <1>5, <1>6, <2>2 DEF Merged
    <3>2. n \in known
      BY <1>4, <2>2
    <3> QED BY <1>3, <2>2, <3>1, <3>2 DEF Entry
  <2>3. CASE n \in known /\ n \notin won
    <3>1. n \in kept
      BY <1>4, <2>3
    <3>2. es[n] = [st.entries[n] EXCEPT !.id = theirs(n).id]
      BY <1>5, <1>7, <2>3, <3>1 DEF Merged
    <3> QED BY <1>3, <2>1, <2>3, <3>2 DEF Entry
  <2>4. CASE n \notin known
    <3>1. es[n] = [st.entries[n] EXCEPT !.id = NoId] /\ n \notin won
      BY <1>4, <1>5, <2>4
    <3> QED BY <2>1, <2>4, <3>1 DEF Entry
  <2> QED BY <2>2, <2>3, <2>4
<1>11. es \in [Names -> Entry]
  BY <1>10 DEF es
<1>12. s \in Store /\ s.entries = es
  BY <1>1, <1>8, <1>9, <1>11 DEF Store
<1>13. SameRole(s, st)
  BY <1>1 DEF Store, SameRole
<1>14. Good(s)
  BY <1>12, <1>13, RoleFacts DEF Good
<1>15. Tells(st, notes, s)
  <2> DEFINE S == {told(n) : n \in won}
             f == [n \in won |-> told(n)]
  <2>1. won \subseteq Names
    BY <1>4
  <2>2. IsFiniteSet(S)
    <3>1. f \in [won -> S] /\ \A x \in S : \E n \in won : f[n] = x
      OBVIOUS
    <3> HIDE DEF f, S
    <3> QED BY <2>1, <3>1, FiniteOver
  <2>3. ASSUME NEW n \in won PROVE told(n).name = n /\ told(n).value = theirs(n).value
                                   /\ "delete" \notin told(n).kinds
    BY DEF Note
  <2> HIDE DEF told, s
  <2>4. notes = SetToSeq(S)
    OBVIOUS
  <2>5. (\A x \in S : \E n \in won : x = told(n)) /\ (\A n \in won : told(n) \in S)
    OBVIOUS
  <2> HIDE DEF S, notes
  <2>6. /\ \A k \in DOMAIN notes : notes[k] \in S
        /\ \A x \in S : \E k \in DOMAIN notes : notes[k] = x
    BY <2>2, <2>4, SetSeq
  <2>7. \A k \in DOMAIN notes :
          /\ notes[k].name \in Names
          /\ s.entries[notes[k].name].value
               = IF "delete" \in notes[k].kinds THEN NoValue ELSE notes[k].value
    BY <2>1, <2>3, <2>5, <2>6, <1>10, <1>12
  <2>8. \A n \in Names : s.entries[n].value # st.entries[n].value =>
                           \E k \in DOMAIN notes : notes[k].name = n
    BY <2>3, <2>5, <2>6, <1>10, <1>12
  <2> QED BY <2>7, <2>8, <1>1, ToldMany
<1>16. out \in Seq(Sends)
  <2> DEFINE S == {upd(n) : n \in kept}
             f == [n \in kept |-> upd(n)]
  <2>1. kept \subseteq Names
    BY <1>4
  <2>2. IsFiniteSet(S)
    <3>1. f \in [kept -> S] /\ \A x \in S : \E n \in kept : f[n] = x
      OBVIOUS
    <3> HIDE DEF f, S
    <3> QED BY <2>1, <3>1, FiniteOver
  <2>3. ASSUME NEW n \in kept PROVE upd(n) \in Sends
    <3>1. st.entries[n].value # NoValue /\ st.entries[n] \in Entry
      BY <1>1, <1>7, <2>1 DEF TheirsWins
    <3>2. EntryUpdate(NoId, st.entries[n].seq, st.entries[n].value) \in Msgs
      BY <3>1 DEF Entry, EntryUpdate, Msgs, NewIds, Updates
    <3> QED BY <3>2, SendIsSends
  <2>4. S \subseteq Sends
    BY <2>3
  <2> HIDE DEF S
  <2>5. SetToSeq(S) \in Seq(S)
    BY <2>2, SetSeq
  <2>6. SetToSeq(S) \in Seq(Sends)
    BY <2>4, <2>5
  <2> QED BY <2>6 DEF S
<1>17. requests \in Seq(Msgs)
  <2> DEFINE S == {AssignOf(n, es[n]) : n \in unassigned}
             f == [n \in unassigned |-> AssignOf(n, es[n])]
  <2>1. unassigned \subseteq Names
    BY <1>4
  <2>2. IsFiniteSet(S)
    <3>1. f \in [unassigned -> S] /\ \A x \in S : \E n \in unassigned : f[n] = x
      OBVIOUS
    <3> HIDE DEF f, S
    <3> QED BY <2>1, <3>1, FiniteOver
  <2>3. ASSUME NEW n \in unassigned PROVE AssignOf(n, es[n]) \in Msgs
    <3>1. n \in Names /\ n \notin won /\ Has(st, n)
      BY <1>4 DEF Present
    <3>2. es[n] \in Entry /\ es[n].value \in Values
      BY <3>1, <1>10, <1>1, EntryTypes
    <3> QED BY <3>1, <3>2, AssignIsMsg
  <2>4. S \subseteq Msgs
    BY <2>3
  <2> HIDE DEF S
  <2>5. SetToSeq(S) \in Seq(S)
    BY <2>2, SetSeq
  <2>6. SetToSeq(S) \in Seq(Msgs)
    BY <2>4, <2>5
  <2> QED BY <2>6 DEF S
<1> HIDE DEF s, notes, out, requests
<1> QED BY <1>0, <1>13, <1>14, <1>15, <1>16, <1>17 DEF Outcome
-----------------------------------------------------------------------------
(***************************************************************************)
(* What waits to be posted.                                                *)
(***************************************************************************)

Posts   == Msgs \cup {Q!None}
Pending == [msgs : Seq(Posts), value : [Ids -> Nat], flags : [Ids -> Nat]]

LEMMA NothingPends == Q!NoPending \in Pending /\ Q!NoPending.msgs = <<>>
<1>1. <<>> \in Seq(Posts) /\ [i \in Ids |-> 0] \in [Ids -> Nat]
  OBVIOUS
<1> QED BY <1>1 DEF Q!NoPending, Pending

LEMMA SeqExcept ==
  ASSUME NEW S, NEW s \in Seq(S), NEW i \in Nat, NEW x, i \in DOMAIN s => x \in S
  PROVE  [s EXCEPT ![i] = x] \in Seq(S)
<1>1. DOMAIN s = 1 .. Len(s) /\ Len(s) \in Nat /\ s \in [1 .. Len(s) -> S]
  OBVIOUS
<1>2. [s EXCEPT ![i] = x] \in [1 .. Len(s) -> S]
  BY <1>1
<1> QED BY <1>1, <1>2

\* Merging a message with those that wait leaves messages.
LEMMA PushPending ==
  ASSUME NEW p \in Pending, NEW m \in Posts
  PROVE  /\ Q!Push(p, m) \in Pending
         /\ Q!Push(p, m).value = p.value /\ Q!Push(p, m).flags = p.flags
<1>1. p.msgs \in Seq(Posts)
  BY DEF Pending
<1>2. Append(p.msgs, m) \in Seq(Posts)
  BY <1>1
<1>3. Q!Push(p, m) = [p EXCEPT !.msgs = Append(p.msgs, m)]
  BY DEF Q!Push, Pending
<1> QED BY <1>2, <1>3 DEF Pending

LEMMA PostTypes ==
  ASSUME NEW m \in Posts
  PROVE  /\ m.type = "assign" <=> m \in Assigns
         /\ m.type = "update" <=> m \in Updates
         /\ m.type = "flags" <=> m \in FlagMsgs
         /\ m.type = "delete" <=> m \in Deletes
         /\ m.type = "clear" <=> m \in Clears
         /\ m.type \in {"assign", "update", "flags", "delete", "clear", "none"}
         /\ m.type = "none" <=> m \notin Msgs
BY DEF Posts, Msgs, Assigns, Updates, FlagMsgs, Deletes, Clears, Q!None

LEMMA MergeType ==
  ASSUME NEW old \in Posts, NEW m \in Assigns \cup Updates
  PROVE  Q!MergeInto(old, m) \in Posts
<1>0. m \in Posts
  BY DEF Posts, Msgs, Updates
<1>1. CASE old.type = "assign" /\ m.type = "update"
  <2>1. old \in Assigns /\ m \in Updates
    BY <1>0, <1>1, PostTypes
  <2>2. m.seq \in SeqNums /\ m.value \in Values
    BY <2>1 DEF Updates
  <2>3. [old EXCEPT !.seq = m.seq, !.value = m.value] \in Assigns
    BY <2>1, <2>2 DEF Assigns
  <2> QED BY <1>1, <2>3 DEF Q!MergeInto, Posts, Msgs
<1>2. CASE ~(old.type = "assign" /\ m.type = "update")
  BY <1>0, <1>2 DEF Q!MergeInto
<1> QED BY <1>1, <1>2

LEMMA ValuePending ==
  ASSUME NEW p \in Pending, NEW m \in Assigns \cup Updates, m.id \in Ids
  PROVE  Q!QueueValue(p, m) \in Pending
<1>0. m \in Posts
  BY DEF Posts, Msgs, Updates
<1>1. p.msgs \in Seq(Posts) /\ p.value \in [Ids -> Nat] /\ p.flags \in [Ids -> Nat]
  BY DEF Pending
<1>2. CASE p.value[m.id] # 0
  <2>1. PICK i \in Nat : i = p.value[m.id]
    BY <1>1
  <2>2. PICK x : x = Q!MergeInto(p.msgs[i], m)
    OBVIOUS
  <2>3. i \in DOMAIN p.msgs => x \in Posts
    BY <1>1, <2>2, MergeType
  <2>4. [p.msgs EXCEPT ![i] = x] \in Seq(Posts)
    BY <1>1, <2>3, SeqExcept
  <2>5. Q!QueueValue(p, m) = [p EXCEPT !.msgs = [p.msgs EXCEPT ![i] = x]]
    BY <1>2, <2>1, <2>2 DEF Q!QueueValue, Pending
  <2> QED BY <2>4, <2>5 DEF Pending
<1>3. CASE p.value[m.id] = 0
  <2>1. PICK q : q = Q!Push(p, m)
    OBVIOUS
  <2>2. q \in Pending
    BY <1>0, <2>1, PushPending
  <2>3. Q!QueueValue(p, m) = [q EXCEPT !.value = [q.value EXCEPT ![m.id] = Len(p.msgs) + 1]]
    BY <1>3, <2>1, <2>2 DEF Q!QueueValue, Pending
  <2>4. Len(p.msgs) + 1 \in Nat
    BY <1>1
  <2>5. [q.value EXCEPT ![m.id] = Len(p.msgs) + 1] \in [Ids -> Nat]
    BY <2>2, <2>4 DEF Pending
  <2> QED BY <2>2, <2>3, <2>5 DEF Pending
<1> QED BY <1>2, <1>3

LEMMA FlagsPending ==
  ASSUME NEW p \in Pending, NEW m \in FlagMsgs
  PROVE  Q!QueueFlags(p, m) \in Pending
<1>0. m \in Posts /\ m.id \in Ids
  BY DEF Posts, Msgs, FlagMsgs
<1>1. p.msgs \in Seq(Posts) /\ p.value \in [Ids -> Nat] /\ p.flags \in [Ids -> Nat]
  BY DEF Pending
<1>2. CASE p.flags[m.id] # 0
  <2>1. PICK i \in Nat : i = p.flags[m.id]
    BY <1>0, <1>1
  <2>4. [p.msgs EXCEPT ![i] = m] \in Seq(Posts)
    BY <1>0, <1>1, SeqExcept
  <2>5. Q!QueueFlags(p, m) = [p EXCEPT !.msgs = [p.msgs EXCEPT ![i] = m]]
    BY <1>2, <2>1 DEF Q!QueueFlags, Pending
  <2> QED BY <2>4, <2>5 DEF Pending
<1>3. CASE p.flags[m.id] = 0
  <2>1. PICK q : q = Q!Push(p, m)
    OBVIOUS
  <2>2. q \in Pending
    BY <1>0, <2>1, PushPending
  <2>3. Q!QueueFlags(p, m) = [q EXCEPT !.flags = [q.flags EXCEPT ![m.id] = Len(p.msgs) + 1]]
    BY <1>3, <2>1, <2>2 DEF Q!QueueFlags, Pending
  <2>4. Len(p.msgs) + 1 \in Nat
    BY <1>1
  <2>5. [q.flags EXCEPT ![m.id] = Len(p.msgs) + 1] \in [Ids -> Nat]
    BY <2>2, <2>4 DEF Pending
  <2> QED BY <2>2, <2>3, <2>5 DEF Pending
<1> QED BY <1>2, <1>3

LEMMA DeletePending ==
  ASSUME NEW p \in Pending, NEW m \in Deletes
  PROVE  Q!QueueDelete(p, m) \in Pending
<1> DEFINE gone == {p.value[m.id], p.flags[m.id]}
           kept == [k \in DOMAIN p.msgs |-> IF k \in gone THEN Q!None ELSE p.msgs[k]]
<1>0. m \in Posts /\ m.id \in Ids
  BY DEF Posts, Msgs, Deletes
<1>1. p.msgs \in Seq(Posts) /\ p.value \in [Ids -> Nat] /\ p.flags \in [Ids -> Nat]
      /\ Q!None \in Posts
  BY DEF Pending, Posts
<1>2. kept \in Seq(Posts)
  <2> HIDE DEF gone
  <2>1. DOMAIN p.msgs = 1 .. Len(p.msgs) /\ Len(p.msgs) \in Nat
    BY <1>1
  <2>2. kept \in [1 .. Len(p.msgs) -> Posts]
    BY <1>1, <2>1
  <2> QED BY <2>1, <2>2
<1>3. Q!QueueDelete(p, m) = [msgs  |-> Append(kept, m),
                             value |-> [p.value EXCEPT ![m.id] = 0],
                             flags |-> [p.flags EXCEPT ![m.id] = 0]]
  BY DEF Q!QueueDelete
<1> HIDE DEF kept
<1>4. Append(kept, m) \in Seq(Posts)
  BY <1>0, <1>2
<1>5. [p.value EXCEPT ![m.id] = 0] \in [Ids -> Nat] /\ [p.flags EXCEPT ![m.id] = 0] \in [Ids -> Nat]
  BY <1>1
<1> QED BY <1>3, <1>4, <1>5 DEF Pending

LEMMA ClearPending ==
  ASSUME NEW p \in Pending, NEW m \in Clears
  PROVE  Q!QueueClear(p, m) \in Pending
<1> DEFINE kept == [k \in DOMAIN p.msgs |->
                      IF p.msgs[k].type \in Q!EntryMessages THEN Q!None ELSE p.msgs[k]]
<1>0. m \in Posts
  BY DEF Posts, Msgs, Clears
<1>1. p.msgs \in Seq(Posts) /\ Q!None \in Posts
  BY DEF Pending, Posts
<1>2. kept \in Seq(Posts)
  <2>1. DOMAIN p.msgs = 1 .. Len(p.msgs) /\ Len(p.msgs) \in Nat
    BY <1>1
  <2>2. kept \in [1 .. Len(p.msgs) -> Posts]
    BY <1>1, <2>1
  <2> QED BY <2>1, <2>2
<1>3. Q!QueueClear(p, m) = [Q!NoPending EXCEPT !.msgs = Append(kept, m)]
  BY DEF Q!QueueClear
<1> HIDE DEF kept
<1>4. Append(kept, m) \in Seq(Posts)
  BY <1>0, <1>2
<1> QED BY <1>3, <1>4, NothingPends DEF Pending

LEMMA QueuePending ==
  ASSUME NEW p \in Pending, NEW m \in Msgs
  PROVE  Q!QueueOutgoing(p, m) \in Pending
<1>0. m \in Posts
  BY DEF Posts
<1>1. CASE m \in Assigns \cup Updates
  <2>1. m.type \in {"assign", "update"} /\ m.id \in NewIds
    BY <1>0, <1>1 DEF Assigns, Updates
  <2>2. CASE m.id = NoId
    <3>1. Q!QueueOutgoing(p, m) = Q!Push(p, m)
      BY <2>1, <2>2 DEF Q!QueueOutgoing, Q!EntryMessages
    <3> QED BY <1>0, <3>1, PushPending
  <2>3. CASE m.id # NoId
    <3>1. Q!QueueOutgoing(p, m) = Q!QueueValue(p, m)
      BY <2>1, <2>3 DEF Q!QueueOutgoing, Q!EntryMessages
    <3> QED BY <1>1, <2>1, <2>3, <3>1, ValuePending DEF NewIds
  <2> QED BY <2>2, <2>3
<1>2. CASE m \in FlagMsgs
  <2>1. m.type = "flags" /\ m.id # NoId
    BY <1>2, IdsAre DEF FlagMsgs
  <2>2. Q!QueueOutgoing(p, m) = Q!QueueFlags(p, m)
    BY <2>1 DEF Q!QueueOutgoing, Q!EntryMessages
  <2> QED BY <1>2, <2>2, FlagsPending
<1>3. CASE m \in Deletes
  <2>1. m.type = "delete" /\ m.id # NoId
    BY <1>3, IdsAre DEF Deletes
  <2>2. Q!QueueOutgoing(p, m) = Q!QueueDelete(p, m)
    BY <2>1 DEF Q!QueueOutgoing, Q!EntryMessages
  <2> QED BY <1>3, <2>2, DeletePending
<1>4. CASE m \in Clears
  <2>1. m.type = "clear"
    BY <1>4 DEF Clears
  <2>2. Q!QueueOutgoing(p, m) = Q!QueueClear(p, m)
    BY <2>1 DEF Q!QueueOutgoing, Q!EntryMessages
  <2> QED BY <1>4, <2>2, ClearPending
<1> QED BY <1>1, <1>2, <1>3, <1>4 DEF Msgs, Updates, FlagMsgs, Deletes, Clears
-----------------------------------------------------------------------------
(***************************************************************************)
(* The inductive invariant.                                                *)
(***************************************************************************)

Threads == Clients \cup {User, "reader"}
Conns   == Clients \cup {"none"}
Held    == [thread : Threads, conn : Conns, out : Seq(Sends) \ {<<>>}]

\* Every storage is good, its listeners know it, and what the threads hold are
\* messages.
NodeInv ==
  /\ store \in [Nodes -> Store]
  /\ \A x \in Nodes : Good(store[x]) /\ (IsServer(store[x]) <=> x = Server)
  /\ view \in [Nodes -> [Names -> Values \cup {NoValue}]]
  /\ \A x \in Nodes : view[x] = ValuesOf(store[x])
  /\ hand \in [Nodes -> Seq(Held)]

Initials == [type : {"initial"}, msgs : Seq(Answers)]
Replies  == [type : {"reply"}, msgs : Seq(Msgs)]
Wires    == Posts \cup Initials \cup Replies

\* What the streams of a connection hold depends on its state.
StreamsAgree(c) ==
  /\ link[c] \in {"down", "hello"} =>
       /\ pendC[c] = Q!NoPending /\ pendS[c] = Q!NoPending
       /\ toServer[c] = <<>> /\ toClient[c] = <<>>
  /\ link[c] = "sent" =>
       /\ toServer[c] = <<>>
       /\ toClient[c] # <<>> /\ Head(toClient[c]) \in Initials /\ Tail(toClient[c]) = <<>>
  /\ link[c] = "applied" =>
       /\ toServer[c] # <<>> /\ Head(toServer[c]) \in Replies
       /\ Tail(toServer[c]) \in Seq(Posts) /\ toClient[c] \in Seq(Posts)
  /\ link[c] = "up" => toServer[c] \in Seq(Posts) /\ toClient[c] \in Seq(Posts)

NetInv ==
  /\ link \in [Clients -> {"down", "hello", "sent", "applied", "up"}]
  /\ pendC \in [Clients -> Pending] /\ pendS \in [Clients -> Pending]
  /\ toServer \in [Clients -> Seq(Wires)] /\ toClient \in [Clients -> Seq(Wires)]
  /\ \A c \in Clients : StreamsAgree(c)

\* The file holds no more entries than there are ids.
FileInv ==
  /\ file \in [Names -> Values \cup {NoValue}]
  /\ Cardinality({n \in Names : file[n] # NoValue}) <= MaxIds

CountInv == ops \in 0 .. MaxOps /\ faults \in 0 .. MaxFaults /\ seen \subseteq Events

TablesInv == NodeInv /\ NetInv /\ FileInv /\ CountInv

\* The server's file loaded anew.
LEMMA LoadedFacts ==
  ASSUME NEW f, f \in [Names -> Values \cup {NoValue}],
         Cardinality({n \in Names : f[n] # NoValue}) <= MaxIds
  PROVE  Good(Loaded(f)) /\ IsServer(Loaded(f)) /\ ValuesOf(Loaded(f)) = f
<1> DEFINE S == {n \in Names : f[n] # NoValue}
           names == SetToSeq(S)
           idOf(n) == CHOOSE k \in DOMAIN names : names[k] = n
           es == [n \in Names |->
                    IF f[n] = NoValue THEN Fresh
                    ELSE [value |-> f[n], flags |-> 1, id |-> idOf(n) - 1, seq |-> 0]]
           im == [i \in Ids |-> IF i < Len(names) THEN names[i + 1] ELSE NoName]
           s == [server |-> TRUE, entries |-> es, idmap |-> im, size |-> Len(names), dirty |-> FALSE]
<1>0. Loaded(f) = [EmptyStore(TRUE) EXCEPT !.entries = es, !.idmap = im, !.size = Len(names)]
  BY DEF Loaded
<1>2. IsFiniteSet(S) /\ S \subseteq Names /\ Cardinality(S) <= MaxIds
  BY FS_Subset, StorageAssumption
<1>3. \A n \in Names : n \in S <=> f[n] # NoValue
  OBVIOUS
<1> HIDE DEF S
<1>4. /\ names \in Seq(S) /\ DOMAIN names = 1 .. Cardinality(S) /\ Cardinality(S) \in Nat
      /\ \A k \in DOMAIN names : names[k] \in S
      /\ \A x \in S : \E k \in DOMAIN names : names[k] = x
      /\ \A j, k \in DOMAIN names : names[j] = names[k] => j = k
  <2>1. names = SetToSeq(S)
    OBVIOUS
  <2> HIDE DEF names
  <2> QED BY <1>2, <2>1, SetSeq
<1> HIDE DEF names
<1>5. Len(names) = Cardinality(S) /\ Len(names) \in 0 .. MaxIds /\ DOMAIN names = 1 .. Len(names)
  BY <1>2, <1>4, StorageAssumption
<1>6. ASSUME NEW n \in S PROVE idOf(n) \in 1 .. Len(names) /\ names[idOf(n)] = n
  BY <1>4, <1>5
<1>7. ASSUME NEW k \in 1 .. Len(names) PROVE names[k] \in S /\ idOf(names[k]) = k
  BY <1>4, <1>5
<1>8. \A n \in Names : es[n] = IF f[n] = NoValue THEN Fresh
                               ELSE [value |-> f[n], flags |-> 1, id |-> idOf(n) - 1, seq |-> 0]
  OBVIOUS
<1>9. \A i \in Ids : im[i] = IF i < Len(names) THEN names[i + 1] ELSE NoName
  OBVIOUS
<1>10. Fresh \in Entry /\ Fresh.id = NoId /\ Fresh.value = NoValue /\ 0 \in SeqNums
  BY HalfAssumption DEF Fresh, Entry, SeqNums
<1> HIDE DEF es, im, idOf
<1>1. Loaded(f) = s
  BY <1>0 DEF EmptyStore
<1>11. ASSUME NEW n \in S
       PROVE  idOf(n) - 1 \in Ids /\ idOf(n) - 1 < Len(names) /\ (idOf(n) - 1) + 1 = idOf(n)
  BY <1>5, <1>6, StorageAssumption DEF Ids
<1>12. ASSUME NEW n \in Names
       PROVE  /\ es[n] \in Entry /\ es[n].value = f[n]
              /\ n \in S => es[n].id = idOf(n) - 1
              /\ n \notin S => es[n].id = NoId
  <2>1. CASE n \in S
    <3>1. es[n] = [value |-> f[n], flags |-> 1, id |-> idOf(n) - 1, seq |-> 0]
      BY <1>3, <1>8, <2>1
    <3> QED BY <1>3, <1>10, <1>11, <2>1, <3>1 DEF Entry
  <2>2. CASE n \notin S
    BY <1>3, <1>8, <1>10, <2>2
  <2> QED BY <2>1, <2>2
<1>13. es \in [Names -> Entry]
  BY <1>12 DEF es
<1>14. ASSUME NEW i \in Ids
       PROVE  /\ i < Len(names) => im[i] \in S /\ idOf(im[i]) = i + 1
              /\ ~(i < Len(names)) => im[i] = NoName
  <2>1. CASE i < Len(names)
    <3>1. i + 1 \in 1 .. Len(names)
      BY <1>5, <2>1, IdsAre
    <3> QED BY <1>7, <1>9, <2>1, <3>1
  <2> QED BY <1>9, <2>1
<1>15. im \in [Ids -> Names \cup {NoName}]
  BY <1>2, <1>14 DEF im
<1>16. s \in Store /\ IsServer(s)
  BY <1>5, <1>13, <1>15 DEF Store, IsServer
<1>17. \A n \in Names : Has(s, n) <=> n \in S
  BY <1>3, <1>12 DEF Has
<1>18. ASSUME NEW i \in Ids, im[i] # NoName
       PROVE  i < s.size /\ Has(s, im[i]) /\ es[im[i]].id = i
  <2>1. i < Len(names) /\ im[i] \in S /\ idOf(im[i]) = i + 1
    BY <1>14, <1>18
  <2>2. im[i] \in Names
    BY <1>2, <2>1
  <2>3. es[im[i]].id = (i + 1) - 1
    BY <1>12, <2>1, <2>2
  <2>4. Has(s, im[i])
    BY <1>17, <2>1, <2>2
  <2>5. (i + 1) - 1 = i
    BY IdsAre
  <2> QED BY <2>1, <2>3, <2>4, <2>5
<1>19. ASSUME NEW n \in Names, es[n].id # NoId
       PROVE  Has(s, n) /\ im[es[n].id] = n
  <2>1. n \in S
    BY <1>12, <1>19
  <2>2. es[n].id = idOf(n) - 1 /\ es[n].id \in Ids /\ es[n].id < Len(names) /\ es[n].id + 1 = idOf(n)
    BY <1>11, <1>12, <2>1
  <2>3. im[es[n].id] = names[idOf(n)]
    BY <1>9, <2>2
  <2> QED BY <1>6, <1>17, <2>1, <2>3
<1>20. \A n \in Names : Has(s, n) => es[n].id # NoId
  BY <1>11, <1>12, <1>17, IdsAre
<1>21. s.entries = es /\ s.idmap = im
  OBVIOUS
<1> HIDE DEF s
<1>22. Exact(s)
  BY <1>18, <1>19, <1>20, <1>21 DEF Exact, MapSound, Linked, LeadsBack, Present
<1>23. ValuesOf(s) = [n \in Names |-> f[n]]
  BY <1>12, <1>21 DEF ValuesOf
<1> QED BY <1>1, <1>16, <1>22, <1>23 DEF Good

\* As many entries are persistent as have ids at most.
LEMMA FileFits ==
  ASSUME NEW st, Good(st), IsServer(st), NEW f, f = PersistentValues(st)
  PROVE  /\ f \in [Names -> Values \cup {NoValue}]
         /\ Cardinality({n \in Names : f[n] # NoValue}) <= MaxIds
<1> DEFINE S == {n \in Names : f[n] # NoValue}
           g == [n \in S |-> st.entries[n].id]
<1>1. /\ st.entries \in [Names -> Entry] /\ Exact(st)
  BY DEF Good, Store
<1>2. \A n \in Names : f[n] = IF Has(st, n) /\ IsPersistent(st.entries[n])
                              THEN st.entries[n].value ELSE NoValue
  BY DEF PersistentValues
<1>3. f \in [Names -> Values \cup {NoValue}]
  <2>1. \A n \in Names : st.entries[n].value \in Values \cup {NoValue}
    BY <1>1 DEF Entry
  <2> QED BY <2>1 DEF PersistentValues
<1>4. ASSUME NEW n \in S PROVE n \in Names /\ Has(st, n) /\ st.entries[n].id \in Ids
                               /\ st.idmap[st.entries[n].id] = n
  <2>1. n \in Names /\ Has(st, n)
    BY <1>2
  <2>2. st.entries[n].id # NoId /\ st.entries[n] \in Entry
    BY <1>1, <2>1 DEF Exact, Present
  <2> QED BY <1>1, <2>1, <2>2 DEF Entry, Exact, MapSound, Linked, LeadsBack
<1> HIDE DEF S
<1>5. g \in [S -> Ids] /\ \A a, b \in S : g[a] = g[b] => a = b
  BY <1>4
<1> HIDE DEF g
<1>6. g \in Injection(S, Ids)
  BY <1>5, Fun_IsInj
<1>7. IsFiniteSet(Ids) /\ Cardinality(Ids) = MaxIds
  <2>1. MaxIds - 1 \in Int /\ 0 \in Int /\ MaxIds \in Nat
    BY StorageAssumption
  <2>2. IsFiniteSet(0 .. (MaxIds - 1))
        /\ Cardinality(0 .. (MaxIds - 1)) = IF 0 > MaxIds - 1 THEN 0 ELSE (MaxIds - 1) - 0 + 1
    BY <2>1, FS_Interval
  <2> QED BY <2>1, <2>2 DEF Ids
<1>8. Cardinality(S) <= MaxIds
  BY <1>6, <1>7, FS_Injection
<1> QED BY <1>3, <1>8 DEF S

LEMMA EmptyFacts ==
  ASSUME NEW b \in BOOLEAN
  PROVE  Good(EmptyStore(b)) /\ (IsServer(EmptyStore(b)) <=> b) /\ ValuesOf(EmptyStore(b)) = NoFile
<1> DEFINE s == EmptyStore(b)
<1>1. Fresh \in Entry /\ Fresh.id = NoId /\ Fresh.value = NoValue
  BY HalfAssumption DEF Fresh, Entry, SeqNums
<1>2. /\ s.entries = [n \in Names |-> Fresh] /\ s.idmap = [i \in Ids |-> NoName]
      /\ s.size = 0 /\ s.server = b
  BY DEF EmptyStore
<1>3. s \in Store
  BY <1>1, StorageAssumption DEF EmptyStore, Store
<1>4. Exact(s)
  BY <1>1, <1>2 DEF Exact, MapSound, Linked, LeadsBack, Present, Has
<1>5. ValuesOf(s) = NoFile
  BY <1>1, <1>2 DEF ValuesOf, NoFile
<1>6. IsServer(s) <=> b
  BY <1>2 DEF IsServer
<1> QED BY <1>3, <1>4, <1>5, <1>6 DEF Good

LEMMA TablesInit == Init => TablesInv
<1> SUFFICES ASSUME Init PROVE TablesInv
  OBVIOUS
<1>1. NodeInv
  <2>1. ASSUME NEW x \in Nodes PROVE Good(store[x]) /\ (IsServer(store[x]) <=> x = Server)
                                     /\ view[x] = ValuesOf(store[x]) /\ store[x] \in Store
    <3>1. store[x] = EmptyStore(x = Server) /\ view[x] = NoFile
      BY DEF Init
    <3>2. PICK b \in BOOLEAN : b = (x = Server)
      OBVIOUS
    <3>3. store[x] = EmptyStore(b)
      BY <3>1, <3>2
    <3>4. Good(EmptyStore(b)) /\ (IsServer(EmptyStore(b)) <=> b) /\ ValuesOf(EmptyStore(b)) = NoFile
      BY EmptyFacts
    <3> QED BY <3>1, <3>2, <3>3, <3>4 DEF Good
  <2>2. store \in [Nodes -> Store]
    BY <2>1 DEF Init
  <2>3. view \in [Nodes -> [Names -> Values \cup {NoValue}]]
    BY DEF Init, NoFile
  <2>4. hand \in [Nodes -> Seq(Held)]
    BY DEF Init
  <2> QED BY <2>1, <2>2, <2>3, <2>4 DEF NodeInv
<1>2. NetInv
  <2>1. pendC \in [Clients -> Pending] /\ pendS \in [Clients -> Pending]
    BY NothingPends DEF Init
  <2>2. toServer \in [Clients -> Seq(Wires)] /\ toClient \in [Clients -> Seq(Wires)]
        /\ link \in [Clients -> {"down", "hello", "sent", "applied", "up"}]
    BY DEF Init
  <2>3. \A c \in Clients : StreamsAgree(c)
    BY DEF Init, StreamsAgree
  <2> QED BY <2>1, <2>2, <2>3 DEF NetInv
<1>3. FileInv
  <2>1. {n \in Names : file[n] # NoValue} = {} /\ file \in [Names -> Values \cup {NoValue}]
    BY DEF Init, NoFile
  <2> QED BY <2>1, FS_EmptySet, StorageAssumption DEF FileInv
<1>4. CountInv
  BY TablesAssumption DEF Init, CountInv
<1> QED BY <1>1, <1>2, <1>3, <1>4 DEF TablesInv

(***************************************************************************)
(* A thread's pass keeps what is said of the nodes.                        *)
(***************************************************************************)
LEMMA PassKeeps ==
  ASSUME NodeInv, NEW x \in Nodes, NEW t \in Threads, NEW conn \in Conns,
         NEW r, Outcome(store[x], r), Pass(x, t, conn, r)
  PROVE  NodeInv'
<1>1. /\ store' = [store EXCEPT ![x] = r.st]
      /\ view' = [view EXCEPT ![x] = Told(view[x], r.notes)]
  BY DEF Pass
<1>2. /\ store \in [Nodes -> Store] /\ hand \in [Nodes -> Seq(Held)]
      /\ view \in [Nodes -> [Names -> Values \cup {NoValue}]]
      /\ view[x] = ValuesOf(store[x])
  BY DEF NodeInv
<1>3. /\ r.st \in Store /\ Good(r.st) /\ SameRole(r.st, store[x]) /\ r.out \in Seq(Sends)
      /\ Told(view[x], r.notes) = ValuesOf(r.st)
  BY <1>2 DEF Outcome, Good, Tells
<1>4. ValuesOf(r.st) \in [Names -> Values \cup {NoValue}]
  BY <1>3 DEF ValuesOf, Store, Entry
<1>5. store' \in [Nodes -> Store] /\ view' \in [Nodes -> [Names -> Values \cup {NoValue}]]
  BY <1>1, <1>2, <1>3, <1>4
<1>6. ASSUME NEW y \in Nodes
      PROVE  Good(store'[y]) /\ (IsServer(store'[y]) <=> y = Server) /\ view'[y] = ValuesOf(store'[y])
  <2>1. CASE y = x
    <3>1. store'[y] = r.st /\ view'[y] = ValuesOf(r.st)
      BY <1>1, <1>2, <1>3, <2>1
    <3>2. IsServer(r.st) <=> IsServer(store[x])
      BY <1>3, RoleFacts
    <3> QED BY <1>3, <2>1, <3>1, <3>2 DEF NodeInv
  <2>2. CASE y # x
    <3>1. store'[y] = store[y] /\ view'[y] = view[y]
      BY <1>1, <1>2, <2>2
    <3> QED BY <3>1 DEF NodeInv
  <2> QED BY <2>1, <2>2
<1>7. hand' \in [Nodes -> Seq(Held)]
  <2>1. CASE r.out = <<>>
    BY <1>2, <2>1 DEF Pass
  <2>2. CASE r.out # <<>>
    <3> DEFINE h == [thread |-> t, conn |-> conn, out |-> r.out]
    <3>1. h \in Held
      BY <1>3, <2>2 DEF Held
    <3>2. hand' = [hand EXCEPT ![x] = Append(hand[x], h)]
      BY <2>2 DEF Pass
    <3> HIDE DEF h
    <3>3. Append(hand[x], h) \in Seq(Held)
      BY <1>2, <3>1
    <3> QED BY <1>2, <3>2, <3>3
  <2> QED BY <2>1, <2>2
<1> QED BY <1>5, <1>6, <1>7 DEF NodeInv

\* What the programs may do to a storage.
LEMMA RoomFor ==
  ASSUME NodeInv, HasRoom(store[Server]), NEW x \in Nodes
  PROVE  Good(store[x]) /\ (HasRoom(store[x]) \/ ~IsServer(store[x]))
BY DEF NodeInv

LEMMA ServerIsNode == Server \in Nodes /\ Clients \subseteq Nodes /\ Server \notin Clients
BY TablesAssumption DEF Nodes

LEMMA ChangeKeeps ==
  ASSUME TablesInv, NEW x \in Nodes, Change(x)
  PROVE  TablesInv'
<1>1. NodeInv'
  <2>1. HasRoom(store[Server]) /\ User \in Threads /\ "none" \in Conns /\ NodeInv
    BY DEF Change, Threads, Conns, TablesInv
  <2>2. Good(store[x]) /\ (HasRoom(store[x]) \/ ~IsServer(store[x]))
    BY <2>1, RoomFor
  <2>3. PICK n \in Names :
          \/ \E v \in Writes[n] :
               \/ Pass(x, User, "none", SetDefaultEntryValue(store[x], n, v))
               \/ Pass(x, User, "none", SetEntryValue(store[x], n, v))
               \/ Pass(x, User, "none", SetEntryTypeValue(store[x], n, v))
          \/ Pass(x, User, "none", DeleteEntry(store[x], n))
    BY DEF Change
  <2>4. ASSUME NEW v \in Writes[n], Pass(x, User, "none", SetDefaultEntryValue(store[x], n, v))
        PROVE  NodeInv'
    <3>1. v \in Values
      BY TablesAssumption
    <3>2. Outcome(store[x], SetDefaultEntryValue(store[x], n, v))
      BY <2>2, <3>1, DefaultOutcome
    <3> QED BY <2>1, <2>4, <3>2, PassKeeps
  <2>5. ASSUME NEW v \in Writes[n], Pass(x, User, "none", SetEntryValue(store[x], n, v))
        PROVE  NodeInv'
    <3>1. v \in Values
      BY TablesAssumption
    <3>2. Outcome(store[x], SetEntryValue(store[x], n, v))
      BY <2>2, <3>1, ValueOutcome
    <3> QED BY <2>1, <2>5, <3>2, PassKeeps
  <2>6. ASSUME NEW v \in Writes[n], Pass(x, User, "none", SetEntryTypeValue(store[x], n, v))
        PROVE  NodeInv'
    <3>1. v \in Values
      BY TablesAssumption
    <3>2. Outcome(store[x], SetEntryTypeValue(store[x], n, v))
      BY <2>2, <3>1, TypeValueOutcome
    <3> QED BY <2>1, <2>6, <3>2, PassKeeps
  <2>7. ASSUME Pass(x, User, "none", DeleteEntry(store[x], n))
        PROVE  NodeInv'
    <3>1. Outcome(store[x], DeleteEntry(store[x], n))
      BY <2>2, DeleteOutcome
    <3> QED BY <2>1, <2>7, <3>1, PassKeeps
  <2> QED BY <2>3, <2>4, <2>5, <2>6, <2>7
<1>2. NetInv'
  BY DEF Change, net, NetInv, StreamsAgree, TablesInv
<1>3. FileInv'
  BY DEF Change, FileInv, TablesInv
<1>4. CountInv'
  BY TablesAssumption DEF Change, CountInv, TablesInv
<1> QED BY <1>1, <1>2, <1>3, <1>4 DEF TablesInv

LEMMA ChangeFlagsKeeps ==
  ASSUME TablesInv, NEW x \in Nodes, ChangeFlags(x)
  PROVE  TablesInv'
<1>1. NodeInv'
  <2>1. User \in Threads /\ "none" \in Conns /\ NodeInv /\ Good(store[x])
    BY DEF Threads, Conns, TablesInv, NodeInv
  <2>2. PICK n \in Names, f \in {0, 1} : Pass(x, User, "none", SetEntryFlags(store[x], n, f))
    BY DEF ChangeFlags
  <2>3. Outcome(store[x], SetEntryFlags(store[x], n, f))
    BY <2>1, FlagsOutcome
  <2> QED BY <2>1, <2>2, <2>3, PassKeeps
<1>2. NetInv'
  BY DEF ChangeFlags, net, NetInv, StreamsAgree, TablesInv
<1>3. FileInv'
  BY DEF ChangeFlags, FileInv, TablesInv
<1>4. CountInv'
  BY TablesAssumption DEF ChangeFlags, CountInv, TablesInv, Events
<1> QED BY <1>1, <1>2, <1>3, <1>4 DEF TablesInv

LEMMA ClearKeeps ==
  ASSUME TablesInv, NEW x \in Nodes, Clear(x)
  PROVE  TablesInv'
<1>1. NodeInv'
  <2>1. User \in Threads /\ "none" \in Conns /\ NodeInv /\ Good(store[x])
    BY DEF Threads, Conns, TablesInv, NodeInv
  <2>2. Outcome(store[x], DeleteAllEntries(store[x]))
    BY <2>1, AllOutcome
  <2> QED BY <2>1, <2>2, PassKeeps DEF Clear
<1>2. NetInv'
  BY DEF Clear, net, NetInv, StreamsAgree, TablesInv
<1>3. FileInv'
  BY DEF Clear, FileInv, TablesInv
<1>4. CountInv'
  BY TablesAssumption DEF Clear, CountInv, TablesInv, Events
<1> QED BY <1>1, <1>2, <1>3, <1>4 DEF TablesInv

(***************************************************************************)
(* Queueing, posting and reading.                                          *)
(***************************************************************************)
LEMMA PendingStays ==
  ASSUME NetInv, pendC' \in [Clients -> Pending], pendS' \in [Clients -> Pending],
         \A c \in Clients : link[c] \in {"down", "hello"} => pendC'[c] = pendC[c] /\ pendS'[c] = pendS[c],
         UNCHANGED <<toServer, toClient, link>>
  PROVE  NetInv'
<1>1. \A c \in Clients : StreamsAgree(c)'
  BY DEF NetInv, StreamsAgree
<1> QED BY <1>1 DEF NetInv

LEMMA WithoutFirstType ==
  ASSUME NEW held \in Seq(Held), NEW k \in 1 .. Len(held)
  PROVE  WithoutFirst(held, k) \in Seq(Held)
<1>1. PICK h \in Held : h = held[k]
  OBVIOUS
<1>2. h.out \in Seq(Sends) /\ h.out # <<>>
  BY DEF Held
<1>3. CASE Len(h.out) > 1
  <2>1. PICK o \in Seq(Sends) : o = h.out /\ o # <<>>
    BY <1>2
  <2>2. Tail(o) \in Seq(Sends) /\ Len(Tail(o)) = Len(o) - 1 /\ Len(o) \in Nat
    BY <2>1, HeadTailProperties
  <2>a. Len(o) > 1
    BY <1>3, <2>1
  <2>b. PICK u \in Seq(Sends) : u = Tail(o)
    BY <2>2
  <2>c. Len(u) = Len(o) - 1
    BY <2>2, <2>b
  <2>d. u # <<>>
    BY <2>2, <2>a, <2>c, EmptySeq
  <2>3. Tail(h.out) \in Seq(Sends) \ {<<>>}
    BY <2>1, <2>2, <2>b, <2>d
  <2>4. PICK g : g = [h EXCEPT !.out = Tail(h.out)]
    OBVIOUS
  <2>5. g \in Held
    BY <2>3, <2>4 DEF Held
  <2>6. WithoutFirst(held, k) = [held EXCEPT ![k] = g]
    BY <1>1, <1>3, <2>4 DEF WithoutFirst
  <2> QED BY <2>5, <2>6, SeqExcept
<1>4. CASE ~(Len(h.out) > 1)
  <2>1. WithoutFirst(held, k) = SubSeq(held, 1, k - 1) \o SubSeq(held, k + 1, Len(held))
    BY <1>1, <1>4 DEF WithoutFirst
  <2>2. SubSeq(held, 1, k - 1) \in Seq(Held) /\ SubSeq(held, k + 1, Len(held)) \in Seq(Held)
    OBVIOUS
  <2> QED BY <2>1, <2>2, Concat
<1> QED BY <1>3, <1>4

LEMMA QueueKeeps ==
  ASSUME TablesInv, NEW x \in Nodes, NEW k \in DOMAIN hand[x], Queue(x, k)
  PROVE  TablesInv'
<1> DEFINE h == hand[x][k]
<1>0. NodeInv /\ NetInv /\ hand \in [Nodes -> Seq(Held)]
  BY DEF TablesInv, NodeInv
<1>1. /\ hand[x] \in Seq(Held) /\ h \in Held /\ h.out \in Seq(Sends) /\ h.out # <<>>
      /\ k \in 1 .. Len(hand[x])
  <2>1. hand[x] \in Seq(Held) /\ k \in DOMAIN hand[x]
    BY <1>0
  <2>2. k \in 1 .. Len(hand[x]) /\ h \in Held
    BY <2>1
  <2> HIDE DEF h
  <2> QED BY <2>1, <2>2 DEF Held
<1>2. Head(h.out).msg \in Msgs
  <2> HIDE DEF h
  <2>1. Head(h.out) \in Sends
    BY <1>1, HeadTailProperties
  <2> QED BY <2>1 DEF Sends
<1>3. hand' \in [Nodes -> Seq(Held)]
  <2>1. hand' = [hand EXCEPT ![x] = WithoutFirst(hand[x], k)]
    BY DEF Queue
  <2>2. WithoutFirst(hand[x], k) \in Seq(Held)
    BY <1>1, WithoutFirstType
  <2> QED BY <1>0, <2>1, <2>2
<1>4. NodeInv'
  BY <1>0, <1>3 DEF Queue, NodeInv
<1>5. NetInv'
  <2>1. QueueAt(x, h) /\ UNCHANGED <<toServer, toClient, link>>
    BY DEF Queue
  <2>2. pendC \in [Clients -> Pending] /\ pendS \in [Clients -> Pending]
    BY <1>0 DEF NetInv
  <2>3. PICK m \in Msgs : m = Head(h.out).msg
    BY <1>2
  <2>4. \A c \in Clients : Q!QueueOutgoing(pendC[c], m) \in Pending /\ Q!QueueOutgoing(pendS[c], m) \in Pending
    BY <2>2, QueuePending
  <2>5. CASE x = Server
    <3>1. /\ pendS' = [c \in Clients |->
                         IF Synchronized(c) /\ ~(Head(h.out).forward /\ h.conn = c)
                         THEN Q!QueueOutgoing(pendS[c], m) ELSE pendS[c]]
          /\ pendC' = pendC
      BY <2>1, <2>3, <2>5 DEF QueueAt
    <3> HIDE DEF h
    <3>2. pendS' \in [Clients -> Pending]
      BY <2>2, <2>4, <3>1
    <3>3. \A c \in Clients : link[c] \in {"down", "hello"} => pendS'[c] = pendS[c]
      BY <3>1 DEF Synchronized
    <3> QED BY <1>0, <2>1, <2>2, <3>1, <3>2, <3>3, PendingStays
  <2>6. CASE x # Server
    <3>1. x \in Clients
      BY <2>6 DEF Nodes
    <3>2. /\ pendC' = [pendC EXCEPT ![x] = IF ClientActive(x) THEN Q!QueueOutgoing(pendC[x], m) ELSE pendC[x]]
          /\ pendS' = pendS
      BY <2>1, <2>3, <2>6 DEF QueueAt
    <3>3. pendC' \in [Clients -> Pending]
      BY <2>2, <2>4, <3>1, <3>2
    <3>4. \A c \in Clients : link[c] \in {"down", "hello"} => pendC'[c] = pendC[c]
      BY <2>2, <3>2 DEF ClientActive
    <3> QED BY <1>0, <2>1, <2>2, <3>2, <3>3, <3>4, PendingStays
  <2> QED BY <2>5, <2>6
<1>6. FileInv' /\ CountInv'
  BY DEF Queue, TablesInv, FileInv, CountInv, SeenIf, Events
<1> QED BY <1>4, <1>5, <1>6 DEF TablesInv

\* What is said of one connection is all that a step of it can change.
LEMMA OneStream ==
  ASSUME NetInv, NEW c \in Clients,
         link' \in [Clients -> {"down", "hello", "sent", "applied", "up"}],
         pendC' \in [Clients -> Pending], pendS' \in [Clients -> Pending],
         toServer' \in [Clients -> Seq(Wires)], toClient' \in [Clients -> Seq(Wires)],
         \A d \in Clients \ {c} :
           /\ link'[d] = link[d] /\ pendC'[d] = pendC[d] /\ pendS'[d] = pendS[d]
           /\ toServer'[d] = toServer[d] /\ toClient'[d] = toClient[d],
         StreamsAgree(c)'
  PROVE  NetInv'
<1>1. \A d \in Clients \ {c} : StreamsAgree(d)'
  BY DEF NetInv, StreamsAgree
<1> QED BY <1>1 DEF NetInv

LEMMA PostsAreWires == Seq(Posts) \subseteq Seq(Wires) /\ \A p \in Pending : Q!Posted(p) \in Seq(Posts)
BY DEF Wires, Q!Posted, Pending

LEMMA ServerPostsKeeps ==
  ASSUME TablesInv, NEW c \in Clients, ServerPosts(c)
  PROVE  TablesInv'
<1>0. NetInv /\ link[c] = "up"
  BY DEF TablesInv, ServerPosts
<1>1. /\ toClient[c] \in Seq(Posts) /\ toServer[c] \in Seq(Posts)
      /\ pendS[c] \in Pending
  BY <1>0 DEF NetInv, StreamsAgree
<1>2. toClient[c] \o Q!Posted(pendS[c]) \in Seq(Posts)
  BY <1>1, PostsAreWires, Concat
<1>3. /\ toClient' = [toClient EXCEPT ![c] = toClient[c] \o Q!Posted(pendS[c])]
      /\ pendS' = [pendS EXCEPT ![c] = Q!NoPending]
      /\ UNCHANGED <<pendC, toServer, link>>
  BY DEF ServerPosts
<1>4. NetInv'
  <2>1. toClient' \in [Clients -> Seq(Wires)] /\ toClient'[c] \in Seq(Posts)
    BY <1>0, <1>2, <1>3, PostsAreWires DEF NetInv
  <2>2. pendS' \in [Clients -> Pending]
    BY <1>0, <1>3, NothingPends DEF NetInv
  <2>3. StreamsAgree(c)'
    BY <1>0, <1>1, <1>3, <2>1 DEF StreamsAgree
  <2>4. \A d \in Clients \ {c} : toClient'[d] = toClient[d] /\ pendS'[d] = pendS[d]
    BY <1>0, <1>3 DEF NetInv
  <2> QED BY <1>0, <1>3, <2>1, <2>2, <2>3, <2>4, OneStream DEF NetInv
<1>5. NodeInv' /\ FileInv' /\ CountInv'
  BY DEF ServerPosts, TablesInv, NodeInv, FileInv, CountInv
<1> QED BY <1>4, <1>5 DEF TablesInv

\* Posting adds to the end of what is under way.
LEMMA HeadStays ==
  ASSUME NEW S, NEW s \in Seq(S), s # <<>>, NEW t \in Seq(S), NEW T, Tail(s) \in Seq(T), t \in Seq(T)
  PROVE  /\ s \o t \in Seq(S) /\ s \o t # <<>>
         /\ Head(s \o t) = Head(s) /\ Tail(s \o t) \in Seq(T)
<1>1. s \o t \in Seq(S) /\ s \o t # <<>> /\ Head(s \o t) = Head(s)
  OBVIOUS
<1>2. Tail(s \o t) = Tail(s) \o t
  OBVIOUS
<1> QED BY <1>1, <1>2, Concat

LEMMA ClientPostsKeeps ==
  ASSUME TablesInv, NEW c \in Clients, ClientPosts(c)
  PROVE  TablesInv'
<1>0. NetInv /\ link[c] \in {"applied", "up"}
  BY DEF TablesInv, ClientPosts, ClientActive
<1> DEFINE p == Q!Posted(pendC[c])
<1>1. /\ pendC[c] \in Pending /\ toServer[c] \in Seq(Wires) /\ toClient[c] \in Seq(Posts)
      /\ p \in Seq(Posts) /\ p \in Seq(Wires)
  BY <1>0, PostsAreWires DEF NetInv, StreamsAgree
<1>2. /\ toServer' = [toServer EXCEPT ![c] = toServer[c] \o p]
      /\ pendC' = [pendC EXCEPT ![c] = Q!NoPending]
      /\ UNCHANGED <<pendS, toClient, link>>
  BY DEF ClientPosts
<1> HIDE DEF p
<1>3. toServer[c] \o p \in Seq(Wires)
  BY <1>1, Concat
<1>4. toServer' \in [Clients -> Seq(Wires)] /\ toServer'[c] = toServer[c] \o p
      /\ \A d \in Clients \ {c} : toServer'[d] = toServer[d] /\ pendC'[d] = pendC[d]
  BY <1>0, <1>2, <1>3 DEF NetInv
<1>5. pendC' \in [Clients -> Pending]
  BY <1>0, <1>2, NothingPends DEF NetInv
<1>6. StreamsAgree(c)'
  <2>1. CASE link[c] = "applied"
    <3>1. toServer[c] # <<>> /\ Head(toServer[c]) \in Replies /\ Tail(toServer[c]) \in Seq(Posts)
      BY <1>0, <2>1 DEF NetInv, StreamsAgree
    <3>2. toServer'[c] # <<>> /\ Head(toServer'[c]) \in Replies /\ Tail(toServer'[c]) \in Seq(Posts)
      BY <1>1, <1>4, <3>1, HeadStays
    <3> QED BY <1>1, <1>2, <2>1, <3>2 DEF StreamsAgree
  <2>2. CASE link[c] = "up"
    <3>1. toServer[c] \in Seq(Posts)
      BY <1>0, <2>2 DEF NetInv, StreamsAgree
    <3>2. toServer'[c] \in Seq(Posts)
      BY <1>1, <1>4, <3>1, Concat
    <3> QED BY <1>1, <1>2, <2>2, <3>2 DEF StreamsAgree
  <2> QED BY <1>0, <2>1, <2>2
<1>7. NetInv'
  BY <1>0, <1>2, <1>4, <1>5, <1>6, OneStream DEF NetInv
<1>8. NodeInv' /\ FileInv' /\ CountInv'
  BY DEF ClientPosts, TablesInv, NodeInv, FileInv, CountInv
<1> QED BY <1>7, <1>8 DEF TablesInv
-----------------------------------------------------------------------------
(***************************************************************************)
(* The handshake.                                                          *)
(***************************************************************************)
LEMMA ConnectKeeps ==
  ASSUME TablesInv, NEW c \in Clients, Connect(c)
  PROVE  TablesInv'
<1>0. NetInv /\ link[c] = "down"
  BY DEF TablesInv, Connect
<1>1. link' = [link EXCEPT ![c] = "hello"] /\ UNCHANGED <<pendC, pendS, toServer, toClient>>
  BY DEF Connect
<1>2. link' \in [Clients -> {"down", "hello", "sent", "applied", "up"}] /\ link'[c] = "hello"
      /\ \A d \in Clients \ {c} : link'[d] = link[d]
  BY <1>0, <1>1 DEF NetInv
<1>3. StreamsAgree(c)
  BY <1>0 DEF NetInv
<1>4. StreamsAgree(c)'
  BY <1>0, <1>1, <1>2, <1>3 DEF StreamsAgree
<1>5. NetInv'
  BY <1>0, <1>1, <1>2, <1>4, OneStream DEF NetInv
<1>6. NodeInv' /\ FileInv' /\ CountInv'
  BY DEF Connect, TablesInv, NodeInv, FileInv, CountInv
<1> QED BY <1>5, <1>6 DEF TablesInv

LEMMA SeenStays ==
  ASSUME CountInv, NEW b, NEW e \in Events, seen' = SeenIf(b, e), UNCHANGED <<ops, faults>>
  PROVE  CountInv'
BY DEF CountInv, SeenIf

\* A stream of one message.
LEMMA OneMessage ==
  ASSUME NEW S, NEW x \in S
  PROVE  <<x>> \in Seq(S) /\ <<x>> # <<>> /\ Head(<<x>>) = x /\ Tail(<<x>>) = <<>>
OBVIOUS

LEMMA SendInitialKeeps ==
  ASSUME TablesInv, NEW c \in Clients, SendInitial(c)
  PROVE  TablesInv'
<1>0. NetInv /\ NodeInv /\ CountInv /\ link[c] = "hello"
  BY DEF TablesInv, SendInitial
<1>1. PICK msgs \in Seq(Answers) : msgs = GetInitialAssignments(store[Server])
  <2>1. Good(store[Server]) /\ IsServer(store[Server])
    BY <1>0, ServerIsNode DEF NodeInv
  <2> QED BY <2>1, InitialFacts
<1>2. PICK m : m = Initial(msgs)
  OBVIOUS
<1>3. m \in Initials /\ m \in Wires
  BY <1>2 DEF Initial, Initials, Wires
<1>4. /\ link' = [link EXCEPT ![c] = "sent"]
      /\ toClient' = [toClient EXCEPT ![c] = <<m>>]
      /\ UNCHANGED <<pendC, pendS, toServer>>
  BY <1>1, <1>2 DEF SendInitial
<1>5. PICK s \in Seq(Wires) : s = <<m>> /\ s # <<>> /\ Head(s) = m /\ Tail(s) = <<>>
  BY <1>3, OneMessage
<1>6. /\ link' \in [Clients -> {"down", "hello", "sent", "applied", "up"}] /\ link'[c] = "sent"
      /\ toClient' \in [Clients -> Seq(Wires)] /\ toClient'[c] = s
      /\ \A d \in Clients \ {c} : link'[d] = link[d] /\ toClient'[d] = toClient[d]
  BY <1>0, <1>4, <1>5 DEF NetInv
<1>7. toServer[c] = <<>>
  BY <1>0 DEF NetInv, StreamsAgree
<1>8. StreamsAgree(c)'
  BY <1>3, <1>4, <1>5, <1>6, <1>7 DEF StreamsAgree
<1>9. NetInv'
  BY <1>0, <1>4, <1>6, <1>8, OneStream DEF NetInv
<1>10. CountInv'
  BY <1>0, SeenStays DEF SendInitial, Events
<1>11. NodeInv' /\ FileInv'
  BY DEF SendInitial, TablesInv, NodeInv, FileInv
<1> QED BY <1>9, <1>10, <1>11 DEF TablesInv

LEMMA ApplyInitialKeeps ==
  ASSUME TablesInv, NEW c \in Clients, ApplyInitial(c)
  PROVE  TablesInv'
<1>0. NetInv /\ NodeInv /\ CountInv /\ link[c] = "sent" /\ c \in Nodes /\ c # Server
  BY ServerIsNode DEF TablesInv, ApplyInitial
<1>1. toServer[c] = <<>> /\ Head(toClient[c]) \in Initials /\ Tail(toClient[c]) = <<>>
  BY <1>0 DEF NetInv, StreamsAgree
<1>2. PICK msgs \in Seq(Answers) : msgs = Head(toClient[c]).msgs
  <2>1. PICK h \in Initials : h = Head(toClient[c])
    BY <1>1
  <2> QED BY <2>1 DEF Initials
<1>3. PICK r : r = ApplyInitialAssignments(store[c], msgs, NewServer)
  OBVIOUS
<1>4. Outcome(store[c], r) /\ r.requests \in Seq(Msgs)
  <2>1. Good(store[c]) /\ ~IsServer(store[c])
    BY <1>0 DEF NodeInv
  <2> QED BY <1>3, <2>1, ApplyFacts DEF NewServer
<1>5. PICK m : m = Reply(r.requests)
  OBVIOUS
<1>6. m \in Replies /\ m \in Wires
  BY <1>4, <1>5 DEF Reply, Replies, Wires
<1>7. /\ Pass(c, "reader", "none", r)
      /\ link' = [link EXCEPT ![c] = "applied"]
      /\ toServer' = [toServer EXCEPT ![c] = <<m>>]
      /\ toClient' = [toClient EXCEPT ![c] = Tail(toClient[c])]
      /\ UNCHANGED <<pendC, pendS>>
  BY <1>2, <1>3, <1>5 DEF ApplyInitial
<1>8. NodeInv'
  BY <1>0, <1>4, <1>7, PassKeeps DEF Threads, Conns
<1>9. PICK s \in Seq(Wires) : s = <<m>> /\ s # <<>> /\ Head(s) = m /\ Tail(s) = <<>>
  BY <1>6, OneMessage
<1>10. PICK t \in Seq(Wires) : t = <<>>
  BY EmptySeq
<1>11. /\ link' \in [Clients -> {"down", "hello", "sent", "applied", "up"}] /\ link'[c] = "applied"
       /\ toServer' \in [Clients -> Seq(Wires)] /\ toServer'[c] = s
       /\ toClient' \in [Clients -> Seq(Wires)] /\ toClient'[c] = t
       /\ \A d \in Clients \ {c} :
            link'[d] = link[d] /\ toServer'[d] = toServer[d] /\ toClient'[d] = toClient[d]
  <2>1. toClient' = [toClient EXCEPT ![c] = t]
    BY <1>1, <1>7, <1>10
  <2> QED BY <1>0, <1>7, <1>9, <1>10, <2>1 DEF NetInv
<1>12. t \in Seq(Posts) /\ Tail(s) \in Seq(Posts)
  BY <1>9, <1>10, EmptySeq
<1>13. StreamsAgree(c)'
  BY <1>6, <1>9, <1>11, <1>12 DEF StreamsAgree
<1>14. NetInv'
  BY <1>0, <1>7, <1>11, <1>13, OneStream DEF NetInv
<1>15. CountInv'
  BY <1>0, SeenStays DEF ApplyInitial, Events
<1>16. FileInv'
  BY DEF ApplyInitial, TablesInv, FileInv
<1> QED BY <1>8, <1>14, <1>15, <1>16 DEF TablesInv

\* The server takes one message of a client.
LEMMA ServerTakes ==
  ASSUME NodeInv, HasRoom(store[Server]), NEW c \in Clients, NEW m \in Msgs,
         Pass(Server, c, c, ProcessIncoming(store[Server], m))
  PROVE  NodeInv'
<1>1. Good(store[Server]) /\ Server \in Nodes /\ c \in Threads /\ c \in Conns
  BY ServerIsNode DEF NodeInv, Threads, Conns
<1>2. Outcome(store[Server], ProcessIncoming(store[Server], m))
  BY <1>1, IncomingOutcome
<1> QED BY <1>1, <1>2, PassKeeps

\* Changing the first message of a stream leaves the others.
LEMMA HeadExcept ==
  ASSUME NEW S, NEW s \in Seq(S), s # <<>>, NEW x \in S, NEW T, Tail(s) \in Seq(T)
  PROVE  /\ [s EXCEPT ![1] = x] \in Seq(S) /\ [s EXCEPT ![1] = x] # <<>>
         /\ Head([s EXCEPT ![1] = x]) = x /\ Tail([s EXCEPT ![1] = x]) \in Seq(T)
<1>1. PICK t : t = [s EXCEPT ![1] = x]
  OBVIOUS
<1>2. t \in Seq(S) /\ Len(t) = Len(s) /\ Len(s) \in Nat /\ Len(s) # 0
  BY <1>1, SeqExcept, EmptySeq
<1>3. t # <<>> /\ t[1] = x /\ \A i \in 2 .. Len(s) : t[i] = s[i]
  BY <1>1, <1>2, EmptySeq
<1>4. Head(t) = x
  BY <1>2, <1>3
<1>5. Tail(t) = Tail(s)
  <2>1. /\ Tail(t) \in Seq(S) /\ Len(Tail(t)) = Len(s) - 1
        /\ Tail(s) \in Seq(S) /\ Len(Tail(s)) = Len(s) - 1
    BY <1>2, <1>3, HeadTailProperties
  <2>2. \A i \in 1 .. Len(s) - 1 : Tail(t)[i] = t[i + 1] /\ Tail(s)[i] = s[i + 1]
    BY <1>2, <1>3, HeadTailProperties
  <2>3. \A i \in 1 .. Len(s) - 1 : Tail(t)[i] = Tail(s)[i]
    BY <1>2, <1>3, <2>2
  <2> QED BY <2>1, <2>3, SeqEqual
<1> QED BY <1>1, <1>2, <1>3, <1>4, <1>5

LEMMA FinishHandshakeKeeps ==
  ASSUME TablesInv, NEW c \in Clients, FinishHandshake(c)
  PROVE  TablesInv'
<1>0. NetInv /\ NodeInv /\ CountInv /\ link[c] = "applied"
  BY DEF TablesInv, FinishHandshake
<1>1. PICK s \in Seq(Wires) : s = toServer[c]
  BY <1>0 DEF NetInv
<1>2. /\ s # <<>> /\ Head(s) \in Replies /\ Tail(s) \in Seq(Posts)
      /\ toClient[c] \in Seq(Posts) /\ toClient[c] \in Seq(Wires)
  BY <1>0, <1>1 DEF NetInv, StreamsAgree
<1>3. PICK todo \in Seq(Msgs) : todo = Head(s).msgs
  <2>1. PICK h \in Replies : h = Head(s)
    BY <1>2
  <2> QED BY <2>1 DEF Replies
<1>4. UNCHANGED <<pendC, pendS, toClient, file, ops, faults, seen>>
  BY DEF FinishHandshake
<1>5. ASSUME /\ todo # <<>> /\ HasRoom(store[Server])
             /\ Pass(Server, c, c, ProcessIncoming(store[Server], Head(todo)))
             /\ toServer' = [toServer EXCEPT ![c][1] = Reply(Tail(todo))]
             /\ UNCHANGED link
      PROVE  NodeInv' /\ NetInv'
  <2>1. Head(todo) \in Msgs /\ Tail(todo) \in Seq(Msgs)
    BY <1>5, HeadTailProperties
  <2>2. NodeInv'
    BY <1>0, <1>5, <2>1, ServerTakes
  <2>3. PICK m : m = Reply(Tail(todo))
    OBVIOUS
  <2>4. m \in Replies /\ m \in Wires
    BY <2>1, <2>3 DEF Reply, Replies, Wires
  <2>5. PICK t \in Seq(Wires) : /\ t = [s EXCEPT ![1] = m] /\ t # <<>>
                                /\ Head(t) = m /\ Tail(t) \in Seq(Posts)
    BY <1>2, <2>4, HeadExcept
  <2>6. toServer' = [toServer EXCEPT ![c] = t]
    BY <1>1, <1>5, <2>3, <2>5
  <2>7. toServer' \in [Clients -> Seq(Wires)] /\ toServer'[c] = t
        /\ \A d \in Clients \ {c} : toServer'[d] = toServer[d]
    BY <1>0, <2>6 DEF NetInv
  <2>8. StreamsAgree(c)'
    BY <1>0, <1>2, <1>4, <1>5, <2>4, <2>5, <2>7 DEF StreamsAgree
  <2>9. UNCHANGED <<link, pendC, pendS, toClient>>
    BY <1>4, <1>5
  <2>10. NetInv'
    BY <1>0, <2>7, <2>8, <2>9, OneStream DEF NetInv
  <2> QED BY <2>2, <2>10
<1>6. ASSUME /\ todo = <<>> /\ Free(Server, c)
             /\ toServer' = [toServer EXCEPT ![c] = Tail(@)]
             /\ link' = [link EXCEPT ![c] = "up"]
             /\ UNCHANGED <<store, view, hand>>
      PROVE  NodeInv' /\ NetInv'
  <2>1. NodeInv'
    BY <1>0, <1>6 DEF NodeInv
  <2>2. PICK t \in Seq(Posts) : t = Tail(s)
    BY <1>2
  <2>3. t \in Seq(Wires)
    BY PostsAreWires
  <2>4. toServer' = [toServer EXCEPT ![c] = t]
    BY <1>1, <1>6, <2>2
  <2>5. toServer' \in [Clients -> Seq(Wires)] /\ toServer'[c] = t
        /\ link' \in [Clients -> {"down", "hello", "sent", "applied", "up"}] /\ link'[c] = "up"
        /\ \A d \in Clients \ {c} : toServer'[d] = toServer[d] /\ link'[d] = link[d]
    BY <1>0, <1>6, <2>3, <2>4 DEF NetInv
  <2>6. StreamsAgree(c)'
    BY <1>2, <1>4, <2>5 DEF StreamsAgree
  <2>7. UNCHANGED <<pendC, pendS, toClient>>
    BY <1>4
  <2>8. NetInv'
    BY <1>0, <2>5, <2>6, <2>7, OneStream DEF NetInv
  <2> QED BY <2>1, <2>8
<1>7. \/ /\ todo # <<>> /\ HasRoom(store[Server])
         /\ Pass(Server, c, c, ProcessIncoming(store[Server], Head(todo)))
         /\ toServer' = [toServer EXCEPT ![c][1] = Reply(Tail(todo))]
         /\ UNCHANGED link
      \/ /\ todo = <<>> /\ Free(Server, c)
         /\ toServer' = [toServer EXCEPT ![c] = Tail(@)]
         /\ link' = [link EXCEPT ![c] = "up"]
         /\ UNCHANGED <<store, view, hand>>
  BY <1>1, <1>3 DEF FinishHandshake
<1>8. FileInv' /\ CountInv'
  BY <1>4 DEF TablesInv, FileInv, CountInv
<1> QED BY <1>5, <1>6, <1>7, <1>8 DEF TablesInv

(***************************************************************************)
(* The read threads.                                                       *)
(***************************************************************************)
LEMMA ServerReadsKeeps ==
  ASSUME TablesInv, NEW c \in Clients, ServerReads(c)
  PROVE  TablesInv'
<1>0. NetInv /\ NodeInv /\ link[c] = "up" /\ toServer[c] # <<>> /\ HasRoom(store[Server])
  BY DEF TablesInv, ServerReads
<1>1. PICK s \in Seq(Posts) : s = toServer[c] /\ s # <<>>
  BY <1>0 DEF NetInv, StreamsAgree
<1>2. Head(s) \in Posts /\ Tail(s) \in Seq(Posts) /\ Tail(s) \in Seq(Wires)
  BY <1>1, HeadTailProperties, PostsAreWires
<1>3. /\ toServer' = [toServer EXCEPT ![c] = Tail(s)]
      /\ UNCHANGED <<pendC, pendS, toClient, link, file, ops, faults, seen>>
  BY <1>1 DEF ServerReads
<1>4. NodeInv'
  <2>1. CASE Head(s) = Q!None
    <3>1. UNCHANGED <<store, view, hand>>
      BY <1>1, <2>1 DEF ServerReads
    <3> QED BY <1>0, <3>1 DEF NodeInv
  <2>2. CASE Head(s) # Q!None
    <3>1. Head(s) \in Msgs
      BY <1>2, <2>2 DEF Posts
    <3>2. Pass(Server, c, c, ProcessIncoming(store[Server], Head(s)))
      BY <1>1, <2>2 DEF ServerReads
    <3> QED BY <1>0, <3>1, <3>2, ServerTakes
  <2> QED BY <2>1, <2>2
<1>5. toServer' \in [Clients -> Seq(Wires)] /\ toServer'[c] = Tail(s)
      /\ \A d \in Clients \ {c} : toServer'[d] = toServer[d]
  BY <1>0, <1>2, <1>3 DEF NetInv
<1>6. toClient[c] \in Seq(Posts)
  BY <1>0 DEF NetInv, StreamsAgree
<1>7. StreamsAgree(c)'
  BY <1>0, <1>2, <1>3, <1>5, <1>6 DEF StreamsAgree
<1>8. NetInv'
  BY <1>0, <1>3, <1>5, <1>7, OneStream DEF NetInv
<1>9. FileInv' /\ CountInv'
  BY <1>3 DEF TablesInv, FileInv, CountInv
<1> QED BY <1>4, <1>8, <1>9 DEF TablesInv

LEMMA ClientReadsKeeps ==
  ASSUME TablesInv, NEW c \in Clients, ClientReads(c)
  PROVE  TablesInv'
<1>0. NetInv /\ NodeInv /\ link[c] \in {"applied", "up"} /\ toClient[c] # <<>>
      /\ c \in Nodes /\ c # Server
  BY ServerIsNode DEF TablesInv, ClientReads, ClientActive
<1>1. PICK s \in Seq(Posts) : s = toClient[c] /\ s # <<>>
  BY <1>0 DEF NetInv, StreamsAgree
<1>2. Head(s) \in Posts /\ Tail(s) \in Seq(Posts) /\ Tail(s) \in Seq(Wires)
  BY <1>1, HeadTailProperties, PostsAreWires
<1>3. /\ toClient' = [toClient EXCEPT ![c] = Tail(s)]
      /\ UNCHANGED <<pendC, pendS, toServer, link, file, ops, faults, seen>>
  BY <1>1 DEF ClientReads
<1>4. NodeInv'
  <2>1. CASE Head(s) = Q!None
    <3>1. UNCHANGED <<store, view, hand>>
      BY <1>1, <2>1 DEF ClientReads
    <3> QED BY <1>0, <3>1 DEF NodeInv
  <2>2. CASE Head(s) # Q!None
    <3>1. Head(s) \in Msgs
      BY <1>2, <2>2 DEF Posts
    <3>2. Pass(c, "reader", "none", ProcessIncoming(store[c], Head(s)))
      BY <1>1, <2>2 DEF ClientReads
    <3>3. Good(store[c]) /\ ~IsServer(store[c])
      BY <1>0 DEF NodeInv
    <3>4. Outcome(store[c], ProcessIncoming(store[c], Head(s)))
      BY <3>1, <3>3, IncomingOutcome
    <3> QED BY <1>0, <3>2, <3>4, PassKeeps DEF Threads, Conns
  <2> QED BY <2>1, <2>2
<1>5. toClient' \in [Clients -> Seq(Wires)] /\ toClient'[c] = Tail(s)
      /\ \A d \in Clients \ {c} : toClient'[d] = toClient[d]
  BY <1>0, <1>2, <1>3 DEF NetInv
<1>6. StreamsAgree(c)
  BY <1>0 DEF NetInv
<1>7. StreamsAgree(c)'
  BY <1>0, <1>2, <1>3, <1>5, <1>6 DEF StreamsAgree
<1>8. NetInv'
  BY <1>0, <1>3, <1>5, <1>7, OneStream DEF NetInv
<1>9. FileInv' /\ CountInv'
  BY <1>3 DEF TablesInv, FileInv, CountInv
<1> QED BY <1>4, <1>8, <1>9 DEF TablesInv

(***************************************************************************)
(* Faults and the persistent file.                                         *)
(***************************************************************************)
LEMMA LostKeeps ==
  ASSUME NetInv, NEW C, Lost(C)
  PROVE  NetInv'
<1>1. /\ <<>> \in Seq(Wires) /\ <<>> \in Seq(Posts) /\ Q!NoPending \in Pending
  BY NothingPends, EmptySeq
<1>2. /\ link' \in [Clients -> {"down", "hello", "sent", "applied", "up"}]
      /\ pendC' \in [Clients -> Pending] /\ pendS' \in [Clients -> Pending]
      /\ toServer' \in [Clients -> Seq(Wires)] /\ toClient' \in [Clients -> Seq(Wires)]
  BY <1>1 DEF Lost, NetInv
<1>3. ASSUME NEW c \in Clients PROVE StreamsAgree(c)'
  <2>1. CASE c \in C
    <3>1. /\ link'[c] = "down" /\ pendC'[c] = Q!NoPending /\ pendS'[c] = Q!NoPending
          /\ toServer'[c] = <<>> /\ toClient'[c] = <<>>
      BY <2>1 DEF Lost
    <3> QED BY <3>1 DEF StreamsAgree
  <2>2. CASE c \notin C
    <3>1. /\ link'[c] = link[c] /\ pendC'[c] = pendC[c] /\ pendS'[c] = pendS[c]
          /\ toServer'[c] = toServer[c] /\ toClient'[c] = toClient[c]
      BY <2>2 DEF Lost
    <3>2. StreamsAgree(c)
      BY DEF NetInv
    <3> QED BY <3>1, <3>2 DEF StreamsAgree
  <2> QED BY <2>1, <2>2
<1> QED BY <1>2, <1>3 DEF NetInv

LEMMA DisconnectKeeps ==
  ASSUME TablesInv, NEW c \in Clients, Disconnect(c)
  PROVE  TablesInv'
<1>1. NetInv'
  BY LostKeeps DEF TablesInv, Disconnect
<1>2. NodeInv' /\ FileInv'
  BY DEF Disconnect, TablesInv, NodeInv, FileInv
<1>3. CountInv'
  BY TablesAssumption DEF Disconnect, TablesInv, CountInv
<1> QED BY <1>1, <1>2, <1>3 DEF TablesInv

\* Whether the table has to be saved says nothing of what is in it.
LEMMA CleanFacts ==
  ASSUME NEW st, Good(st), NEW s, s = [st EXCEPT !.dirty = FALSE]
  PROVE  Good(s) /\ (IsServer(s) <=> IsServer(st)) /\ ValuesOf(s) = ValuesOf(st)
<1>1. /\ s \in Store /\ SameRole(s, st)
      /\ s.entries = st.entries /\ s.idmap = st.idmap /\ s.size = st.size
  BY DEF Good, Store, SameRole
<1>2. IsServer(s) <=> IsServer(st)
  BY <1>1, RoleFacts
<1>3. ValuesOf(s) = ValuesOf(st)
  BY <1>1 DEF ValuesOf
<1>4. Exact(st) => Exact(s)
  BY <1>1 DEF Exact, MapSound, Linked, LeadsBack, Present, Has
<1> QED BY <1>1, <1>2, <1>3, <1>4 DEF Good

LEMMA SavePersistentKeeps ==
  ASSUME TablesInv, SavePersistent
  PROVE  TablesInv'
<1>0. NodeInv /\ NetInv /\ Server \in Nodes
  BY ServerIsNode DEF TablesInv
<1>1. PICK s : s = [store[Server] EXCEPT !.dirty = FALSE]
  OBVIOUS
<1>2. Good(store[Server]) /\ IsServer(store[Server])
  BY <1>0 DEF NodeInv
<1>3. Good(s) /\ (IsServer(s) <=> IsServer(store[Server])) /\ ValuesOf(s) = ValuesOf(store[Server])
  BY <1>1, <1>2, CleanFacts
<1>4. s \in Store
  BY <1>3 DEF Good
<1>5. store' = [store EXCEPT ![Server] = s] /\ UNCHANGED <<view, hand>>
  BY <1>1 DEF SavePersistent
<1>6. NodeInv'
  <2>1. store' \in [Nodes -> Store] /\ store'[Server] = s
        /\ \A x \in Nodes : x # Server => store'[x] = store[x]
    BY <1>0, <1>4, <1>5 DEF NodeInv
  <2>2. ASSUME NEW x \in Nodes
        PROVE  Good(store'[x]) /\ (IsServer(store'[x]) <=> x = Server) /\ view'[x] = ValuesOf(store'[x])
    <3>1. CASE x = Server
      BY <1>0, <1>2, <1>3, <1>5, <2>1, <3>1 DEF NodeInv
    <3>2. CASE x # Server
      <4>1. store'[x] = store[x] /\ view'[x] = view[x]
        BY <1>5, <2>1, <3>2
      <4> QED BY <1>0, <4>1 DEF NodeInv
    <3> QED BY <3>1, <3>2
  <2> QED BY <1>0, <1>5, <2>1, <2>2 DEF NodeInv
<1>7. NetInv'
  BY <1>0 DEF SavePersistent, net, NetInv, StreamsAgree
<1>8. FileInv'
  <2>1. PICK f : f = PersistentValues(store[Server])
    OBVIOUS
  <2>2. file' = f
    BY <2>1 DEF SavePersistent
  <2> QED BY <1>2, <2>1, <2>2, FileFits DEF FileInv
<1>9. CountInv'
  BY DEF SavePersistent, TablesInv, CountInv
<1> QED BY <1>6, <1>7, <1>8, <1>9 DEF TablesInv

LEMMA ServerRestartsKeeps ==
  ASSUME TablesInv, ServerRestarts
  PROVE  TablesInv'
<1>0. NodeInv /\ NetInv /\ FileInv /\ Server \in Nodes
  BY ServerIsNode DEF TablesInv
<1>1. PICK s : s = Loaded(file)
  OBVIOUS
<1>2. Good(s) /\ IsServer(s) /\ ValuesOf(s) = file
  BY <1>0, <1>1, LoadedFacts DEF FileInv
<1>3. s \in Store /\ file \in [Names -> Values \cup {NoValue}]
  BY <1>0, <1>2 DEF Good, FileInv
<1>4. /\ store' = [store EXCEPT ![Server] = s]
      /\ view' = [view EXCEPT ![Server] = file]
      /\ hand' = [hand EXCEPT ![Server] = <<>>]
  BY <1>1 DEF ServerRestarts
<1>5. NodeInv'
  <2>1. store' \in [Nodes -> Store] /\ store'[Server] = s
        /\ view' \in [Nodes -> [Names -> Values \cup {NoValue}]] /\ view'[Server] = file
        /\ \A x \in Nodes : x # Server => store'[x] = store[x] /\ view'[x] = view[x]
    BY <1>0, <1>3, <1>4 DEF NodeInv
  <2>2. ASSUME NEW x \in Nodes
        PROVE  Good(store'[x]) /\ (IsServer(store'[x]) <=> x = Server) /\ view'[x] = ValuesOf(store'[x])
    <3>1. CASE x = Server
      BY <1>2, <2>1, <3>1
    <3>2. CASE x # Server
      <4>1. store'[x] = store[x] /\ view'[x] = view[x]
        BY <2>1, <3>2
      <4> QED BY <1>0, <3>2, <4>1 DEF NodeInv
    <3> QED BY <3>1, <3>2
  <2>3. hand' \in [Nodes -> Seq(Held)]
    <3>1. <<>> \in Seq(Held)
      BY EmptySeq
    <3> QED BY <1>0, <1>4, <3>1 DEF NodeInv
  <2> QED BY <2>1, <2>2, <2>3 DEF NodeInv
<1>6. NetInv'
  BY <1>0, LostKeeps DEF ServerRestarts
<1>7. FileInv'
  BY <1>0 DEF ServerRestarts, FileInv
<1>8. CountInv'
  BY TablesAssumption DEF ServerRestarts, TablesInv, CountInv
<1> QED BY <1>5, <1>6, <1>7, <1>8 DEF TablesInv
-----------------------------------------------------------------------------
LEMMA TablesStep == TablesInv /\ [Next]_vars => TablesInv'
<1> SUFFICES ASSUME TablesInv, [Next]_vars PROVE TablesInv'
  OBVIOUS
<1>1. ASSUME NEW x \in Nodes, Change(x) \/ ChangeFlags(x) \/ Queueing(x) PROVE TablesInv'
  <2>1. CASE Change(x)
    BY <2>1, ChangeKeeps
  <2>2. CASE ChangeFlags(x)
    BY <2>2, ChangeFlagsKeeps
  <2>3. CASE Queueing(x)
    BY <2>3, QueueKeeps DEF Queueing
  <2> QED BY <1>1, <2>1, <2>2, <2>3
<1>2. ASSUME NEW x \in Clearers, Clear(x) PROVE TablesInv'
  BY <1>2, ClearKeeps, TablesAssumption
<1>3. ASSUME NEW c \in Clients, ClientStep(c) PROVE TablesInv'
  <2>1. CASE Connect(c)
    BY <2>1, ConnectKeeps
  <2>2. CASE SendInitial(c)
    BY <2>2, SendInitialKeeps
  <2>3. CASE ApplyInitial(c)
    BY <2>3, ApplyInitialKeeps
  <2>4. CASE FinishHandshake(c)
    BY <2>4, FinishHandshakeKeeps
  <2>5. CASE ServerPosts(c)
    BY <2>5, ServerPostsKeeps
  <2>6. CASE ClientPosts(c)
    BY <2>6, ClientPostsKeeps
  <2>7. CASE ServerReads(c)
    BY <2>7, ServerReadsKeeps
  <2>8. CASE ClientReads(c)
    BY <2>8, ClientReadsKeeps
  <2> QED BY <1>3, <2>1, <2>2, <2>3, <2>4, <2>5, <2>6, <2>7, <2>8 DEF ClientStep
<1>4. ASSUME NEW c \in Clients, Disconnect(c) PROVE TablesInv'
  BY <1>4, DisconnectKeeps
<1>5. CASE UNCHANGED vars
  <2>1. NodeInv'
    BY <1>5 DEF vars, TablesInv, NodeInv
  <2>2. NetInv'
    BY <1>5 DEF vars, net, TablesInv, NetInv, StreamsAgree
  <2>3. FileInv' /\ CountInv'
    BY <1>5 DEF vars, TablesInv, FileInv, CountInv
  <2> QED BY <2>1, <2>2, <2>3 DEF TablesInv
<1> QED BY <1>1, <1>2, <1>3, <1>4, <1>5, SavePersistentKeeps, ServerRestartsKeeps DEF Next

\* Whatever the threads do and in whatever order, whenever connections are lost
\* and the server restarts: the storages are good, listeners know them, what is
\* held, queued and under way are messages the nodes can take, and the handshake
\* finds in the streams what it waits for.
THEOREM TablesSafe == Spec => []TablesInv
<1>1. Init => TablesInv
  BY TablesInit
<1>2. TablesInv /\ [Next]_vars => TablesInv'
  BY TablesStep
<1> QED BY <1>1, <1>2, PTL DEF Spec

LEMMA InvIsTyped == TablesInv => TypeOK
<1> SUFFICES ASSUME TablesInv PROVE TypeOK
  OBVIOUS
<1>1. /\ store \in [Nodes -> Store]
      /\ view \in [Nodes -> [Names -> Values \cup {NoValue}]]
      /\ DOMAIN hand = Nodes /\ hand \in [Nodes -> Seq(Held)]
  BY DEF TablesInv, NodeInv
<1>2. ASSUME NEW x \in Nodes, NEW k \in DOMAIN hand[x] PROVE hand[x][k].out # <<>>
  <2>1. hand[x] \in Seq(Held)
    BY <1>1
  <2>2. PICK h \in Held : h = hand[x][k]
    BY <2>1
  <2> QED BY <2>2 DEF Held
<1>3. /\ link \in [Clients -> {"down", "hello", "sent", "applied", "up"}]
      /\ \A c \in Clients : link[c] = "down" =>
           /\ pendC[c] = Q!NoPending /\ pendS[c] = Q!NoPending
           /\ toServer[c] = <<>> /\ toClient[c] = <<>>
  BY DEF TablesInv, NetInv, StreamsAgree
<1>4. /\ file \in [Names -> Values \cup {NoValue}]
      /\ ops \in 0 .. MaxOps /\ faults \in 0 .. MaxFaults /\ seen \subseteq Events
  BY DEF TablesInv, FileInv, CountInv
<1> QED BY <1>1, <1>2, <1>3, <1>4 DEF TypeOK

\* Every variable keeps its type, and a connection that is down has nothing
\* queued or under way.
THEOREM TablesTyped == Spec => []TypeOK
BY TablesSafe, InvIsTyped, PTL

\* A listener of any node was told exactly what is in the node's table, whatever
\* changed it: the node's program, messages, the handshake or a restart.
THEOREM ListenersKnow == Spec => []ListenersSeeTable
<1>1. TablesInv => ListenersSeeTable
  BY DEF TablesInv, NodeInv, ValuesOf, ListenersSeeTable
<1> QED BY <1>1, TablesSafe, PTL

LEMMA InvIsExact == TablesInv => ServerMapSound
BY ServerIsNode DEF TablesInv, NodeInv, Good, Exact, ServerMapSound

\* On the server the id map and the table point at each other and every entry has
\* an id, whatever overtakes what.
THEOREM ServerIdsExact == Spec => []ServerMapSound
BY InvIsExact, TablesSafe, PTL
-----------------------------------------------------------------------------
(***************************************************************************)
(* Ids.  A server gives out every id once.  So there is a naming: a        *)
(* function from the ids it has given out to the entries they were given   *)
(* to, of which the server's id map shows the part that is not deleted,    *)
(* and that every assignment the server has sent and every id map of a     *)
(* connected client agrees with, whatever overtakes what.                  *)
(***************************************************************************)
Namings == [Ids -> Names \cup {NoName}]

\* An id map agrees with a naming; so does an assignment.
Means(f, st) == \A i \in Ids : st.idmap[i] # NoName => f[i] = st.idmap[i]
Says(f, m)   == m.type = "assign" => m.id \in Ids /\ f[m.id] = m.name

SaidSends(f) == {s \in Sends : Says(f, s.msg)}

\* An operation takes ids out of the id map; only a server puts new ones in, all
\* greater than those it has given out.
OldIds(st, s) ==
  /\ st.size <= s.size
  /\ \A i \in Ids : s.idmap[i] # NoName =>
       s.idmap[i] = st.idmap[i] \/ (IsServer(st) /\ i >= st.size)

\* What an operation makes of the ids, and what a server then tells of them.
Traced(st, r) ==
  /\ Linked(r.st) /\ OldIds(st, r.st)
  /\ IsServer(st) => r.out \in Seq(SaidSends(r.st.idmap))
-----------------------------------------------------------------------------
LEMMA ServerLinked ==
  ASSUME NEW st, Good(st), IsServer(st)
  PROVE  Linked(st)
BY DEF Good, Exact, MapSound

LEMMA DirtyIds ==
  ASSUME NEW st, st \in Store, NEW b \in BOOLEAN
  PROVE  /\ MarkDirty(st, b).entries = st.entries
         /\ MarkDirty(st, b).idmap = st.idmap
         /\ MarkDirty(st, b).size = st.size
BY DEF MarkDirty, Store

LEMMA SameLinked ==
  ASSUME NEW st, Linked(st), NEW s,
         s.entries = st.entries, s.idmap = st.idmap, s.size = st.size
  PROVE  Linked(s)
BY DEF Linked, Has

LEMMA TracedResult ==
  ASSUME NEW st, NEW s, s \in Store, Linked(s), OldIds(st, s),
         NEW b \in BOOLEAN, NEW notes, NEW out,
         IsServer(st) => out \in Seq(SaidSends(s.idmap))
  PROVE  /\ Traced(st, Result(MarkDirty(s, b), notes, out))
         /\ Traced(st, Result(s, notes, out))
<1>1. PICK d : d = MarkDirty(s, b)
  OBVIOUS
<1>2. d.entries = s.entries /\ d.idmap = s.idmap /\ d.size = s.size
  BY <1>1, DirtyIds
<1>3. Linked(d)
  BY <1>2, SameLinked
<1>4. OldIds(st, d)
  BY <1>2 DEF OldIds
<1>5. Traced(st, Result(d, notes, out))
  BY <1>2, <1>3, <1>4 DEF Traced, Result
<1>6. Traced(st, Result(s, notes, out))
  BY DEF Traced, Result
<1> QED BY <1>1, <1>5, <1>6

LEMMA SameOldIds ==
  ASSUME NEW st, st \in Store, NEW s, s.idmap = st.idmap, s.size = st.size
  PROVE  OldIds(st, s)
<1>1. st.size \in Nat
  BY StorageAssumption DEF Store
<1> QED BY <1>1 DEF OldIds

LEMMA TracedIgnored ==
  ASSUME NEW st, Good(st), Linked(st)
  PROVE  Traced(st, Ignored(st))
<1>1. st \in Store /\ OldIds(st, st)
  BY SameOldIds DEF Good
<1>2. <<>> \in Seq(SaidSends(st.idmap))
  BY EmptySeq
<1> QED BY <1>1, <1>2, TracedResult DEF Ignored

\* A message that agrees with a naming agrees with it in the hand of a thread.
LEMMA SendSaid ==
  ASSUME NEW f, NEW m \in Msgs, Says(f, m)
  PROVE  ToAll(m) \in SaidSends(f) /\ Onward(m) \in SaidSends(f)
<1>1. ToAll(m).msg = m /\ Onward(m).msg = m
  BY DEF ToAll, Onward
<1> QED BY <1>1, SendIsSends DEF SaidSends

LEMMA NoAssignSays ==
  ASSUME NEW f, NEW i, NEW s, NEW v, NEW g
  PROVE  /\ Says(f, EntryUpdate(i, s, v)) /\ Says(f, FlagsUpdate(i, g))
         /\ Says(f, EntryDelete(i)) /\ Says(f, ClearEntries)
BY DEF Says, EntryUpdate, FlagsUpdate, EntryDelete, ClearEntries

\* A server tells of an entry by the id it has in the id map.
LEMMA ServerSays ==
  ASSUME NEW s, Good(s), IsServer(s), NEW n \in Names, Has(s, n)
  PROVE  Says(s.idmap, AssignOf(n, s.entries[n]))
<1>1. s.entries[n].id # NoId /\ s.entries[n].id \in NewIds
  BY EntryTypes DEF Good, Exact, Present
<1>2. s.entries[n].id \in Ids /\ s.idmap[s.entries[n].id] = n
  BY <1>1 DEF NewIds, Good, Exact, MapSound, Linked
<1>3. /\ AssignOf(n, s.entries[n]).id = s.entries[n].id
      /\ AssignOf(n, s.entries[n]).name = n
  BY DEF AssignOf, EntryAssign
<1> QED BY <1>2, <1>3 DEF Says

\* An entry keeps its id.
LEMMA PutLinked ==
  ASSUME NEW st, st \in Store, Linked(st), NEW n \in Names, NEW e \in Entry,
         e.id = st.entries[n].id, e.id # NoId => e.value # NoValue,
         NEW s, s.entries = [st.entries EXCEPT ![n] = e],
         s.idmap = st.idmap, s.size = st.size
  PROVE  Linked(s)
<1>1. st.entries \in [Names -> Entry]
  BY DEF Store
<1>2. ASSUME NEW k \in Names, s.entries[k].id # NoId
      PROVE  Has(s, k) /\ s.idmap[s.entries[k].id] = k
  <2>1. CASE k = n
    <3>1. s.entries[k] = e
      BY <1>1, <2>1
    <3> QED BY <1>2, <2>1, <3>1 DEF Linked, Has
  <2>2. CASE k # n
    <3>1. s.entries[k] = st.entries[k]
      BY <1>1, <2>2
    <3> QED BY <1>2, <3>1 DEF Linked, Has
  <2> QED BY <2>1, <2>2
<1> QED BY <1>2 DEF Linked

\* What LocalPut does to the ids.
LEMMA LocalIds ==
  ASSUME NEW st, Good(st), Linked(st), NEW n \in Names, NEW e \in Entry, e.value \in Values,
         e.id = st.entries[n].id, HasRoom(st) \/ ~IsServer(st),
         NEW s, s = IfServerGiveId(PutEntry(st, n, e), n)
  PROVE  /\ Good(s) /\ Linked(s) /\ OldIds(st, s)
         /\ IsServer(st) => Says(s.idmap, AssignOf(n, s.entries[n]))
<1>0. st \in Store /\ (IsServer(st) /\ ~Has(st, n) => e.id = NoId)
  BY DEF Good, Linked
<1>1. Good(s) /\ SameRole(s, st) /\ OnlyAt(n, s, st) /\ s.entries[n].value = e.value
  BY <1>0, LocalPut
<1>2. IsServer(st) => Says(s.idmap, AssignOf(n, s.entries[n]))
  <2>1. Has(s, n)
    BY <1>1, NoValueIsNone DEF Has
  <2> QED BY <1>1, <2>1, RoleFacts, ServerSays
<1>3. PICK p : p = PutEntry(st, n, e)
  OBVIOUS
<1>4. /\ p \in Store /\ p.size = st.size /\ p.idmap = st.idmap
      /\ p.entries = [st.entries EXCEPT ![n] = e] /\ SameRole(p, st)
  BY <1>0, <1>3, PutFacts
<1>5. CASE s = p
  <2>1. OldIds(st, s)
    BY <1>0, <1>4, <1>5, SameOldIds
  <2>2. Linked(s)
    BY <1>0, <1>4, <1>5, NoValueIsNone, PutLinked
  <2> QED BY <1>1, <1>2, <2>1, <2>2
<1>6. CASE s # p
  <2>1. IsServer(st) /\ s = GiveId(p, n)
    BY <1>3, <1>4, <1>6, RoleFacts DEF IfServerGiveId, IsServer
  <2>2. s.idmap = [st.idmap EXCEPT ![st.size] = n] /\ s.size = st.size + 1
    BY <1>4, <2>1 DEF GiveId, Store
  <2>3. st.size \in Nat /\ st.idmap \in [Ids -> Names \cup {NoName}]
    BY <1>0, StorageAssumption DEF Store
  <2>4. OldIds(st, s)
    BY <2>1, <2>2, <2>3, IdsAre DEF OldIds
  <2>5. Linked(s)
    BY <1>1, <2>1, RoleFacts, ServerLinked
  <2> QED BY <1>1, <1>2, <2>4, <2>5
<1> QED BY <1>5, <1>6

-----------------------------------------------------------------------------
(* The operations of the program, one by one.                              *)

LEMMA DefaultIds ==
  ASSUME NEW st, Good(st), Linked(st), HasRoom(st) \/ ~IsServer(st),
         NEW n \in Names, NEW v \in Values
  PROVE  Traced(st, SetDefaultEntryValue(st, n, v))
<1>1. CASE Has(st, n)
  BY <1>1, TracedIgnored DEF SetDefaultEntryValue
<1>2. CASE ~Has(st, n)
  <2>1. PICK e \in Entry : e = [Fresh EXCEPT !.value = v]
    BY FreshTypes
  <2>2. e.value \in Values /\ e.value = v /\ e.id = st.entries[n].id
    BY <1>2, <2>1 DEF Fresh, Linked
  <2>3. PICK s : s = IfServerGiveId(PutEntry(st, n, e), n)
    OBVIOUS
  <2>4. /\ Good(s) /\ Linked(s) /\ OldIds(st, s)
        /\ IsServer(st) => Says(s.idmap, AssignOf(n, s.entries[n]))
    BY <2>2, <2>3, LocalIds
  <2>5. AssignOf(n, s.entries[n]) \in Msgs
    <3>1. IsServer(st) => HasRoom(st)
      OBVIOUS
    <3>2. s.entries[n] \in Entry /\ s.entries[n].value = v
      BY <1>2, <2>2, <2>3, <3>1, LocalPut DEF Linked
    <3> QED BY <3>2, AssignIsMsg
  <2>6. PICK out : out = <<ToAll(AssignOf(n, s.entries[n]))>>
    OBVIOUS
  <2>7. IsServer(st) => out \in Seq(SaidSends(s.idmap))
    BY <2>4, <2>5, <2>6, SendSaid
  <2>8. SetDefaultEntryValue(st, n, v) = Result(s, <<Note(n, v, {"new", "local"})>>, out)
    BY <1>2, <2>1, <2>3, <2>6 DEF SetDefaultEntryValue
  <2> QED BY <2>4, <2>7, <2>8, TracedResult DEF Good
<1> QED BY <1>1, <1>2

LEMMA IfInSeq ==
  ASSUME NEW S, NEW u, NEW a, a => u \in S
  PROVE  If(a, <<u>>) \in Seq(S)
<1>1. CASE a
  <2>1. <<u>> \in Seq(S)
    BY <1>1
  <2> QED BY <1>1, <2>1 DEF If
<1>2. CASE ~a
  <2>1. <<>> \in Seq(S)
    OBVIOUS
  <2> QED BY <1>2, <2>1 DEF If
<1> QED BY <1>1, <1>2

\* An entry that is given another value keeps its id, and what tells of it may be sent.
LEMMA ValueIds ==
  ASSUME NEW st, Good(st), Linked(st), HasRoom(st) \/ ~IsServer(st),
         NEW n \in Names, NEW v \in Values, NEW e \in Entry, e.value = v, e.id = st.entries[n].id,
         NEW s, s = IfServerGiveId(PutEntry(st, n, e), n)
  PROVE  /\ Good(s) /\ Linked(s) /\ OldIds(st, s) /\ s.entries[n].value = v
         /\ IsServer(st) => Says(s.idmap, AssignOf(n, s.entries[n]))
<1>0. st \in Store /\ (IsServer(st) /\ ~Has(st, n) => e.id = NoId)
  BY DEF Good, Linked
<1>1. s.entries[n].value = e.value
  BY <1>0, LocalPut
<1> QED BY <1>1, LocalIds

\* An assignment or an update of what the storage has now, told or not.
LEMMA ToldIds ==
  ASSUME NEW st, NEW s, Good(s), Linked(s), OldIds(st, s), NEW n \in Names,
         NEW v \in Values, s.entries[n].value = v,
         IsServer(st) => Says(s.idmap, AssignOf(n, s.entries[n])),
         NEW a, NEW b, NEW d \in BOOLEAN, NEW notes
  PROVE  Traced(st, Result(MarkDirty(s, d), notes,
                           If(a, <<ToAll(AssignOf(n, s.entries[n]))>>)
                             \o If(b, <<ToAll(EntryUpdate(s.entries[n].id, s.entries[n].seq, v))>>)))
<1>0. s \in Store
  BY DEF Good
<1>1. s.entries[n] \in Entry /\ s.entries[n].id \in NewIds /\ s.entries[n].seq \in SeqNums
  BY <1>0, EntryTypes
<1>2. AssignOf(n, s.entries[n]) \in Msgs
  BY <1>1, AssignIsMsg
<1>3. EntryUpdate(s.entries[n].id, s.entries[n].seq, v) \in Msgs
  BY <1>1 DEF EntryUpdate, Msgs, Updates
<1>5. PICK x, y : /\ x = If(a, <<ToAll(AssignOf(n, s.entries[n]))>>)
                  /\ y = If(b, <<ToAll(EntryUpdate(s.entries[n].id, s.entries[n].seq, v))>>)
  OBVIOUS
<1>6. ASSUME IsServer(st) PROVE x \o y \in Seq(SaidSends(s.idmap))
  <2>1. /\ ToAll(AssignOf(n, s.entries[n])) \in SaidSends(s.idmap)
        /\ ToAll(EntryUpdate(s.entries[n].id, s.entries[n].seq, v)) \in SaidSends(s.idmap)
    BY <1>2, <1>3, <1>6, SendSaid, NoAssignSays
  <2>2. x \in Seq(SaidSends(s.idmap))
    BY <1>5, <2>1, IfInSeq
  <2>3. y \in Seq(SaidSends(s.idmap))
    BY <1>5, <2>1, IfInSeq
  <2> QED BY <2>2, <2>3, Concat
<1>7. Traced(st, Result(MarkDirty(s, d), notes, x \o y))
  BY <1>0, <1>6, TracedResult
<1> QED BY <1>5, <1>7

LEMMA SetValueIds ==
  ASSUME NEW st, Good(st), Linked(st), HasRoom(st) \/ ~IsServer(st),
         NEW n \in Names, NEW v \in Values
  PROVE  Traced(st, SetEntryValue(st, n, v))
<1> DEFINE e == st.entries[n]
           isNew == ~Has(st, n)
           changed == ~isNew /\ e.value # v
           q == IF changed THEN Inc(e.seq) ELSE e.seq
           new == [e EXCEPT !.value = v, !.seq = q]
           s == IfServerGiveId(PutEntry(st, n, new), n)
           now == s.entries[n]
           notes == If(isNew, <<Note(n, v, {"new", "local"})>>)
                      \o If(changed, <<Note(n, v, {"update", "local"})>>)
           d == IsPersistent(e) /\ changed
           two == changed /\ now.id # NoId
           out == If(isNew, <<ToAll(AssignOf(n, now))>>)
                    \o If(two, <<ToAll(EntryUpdate(now.id, now.seq, v))>>)
<1>1. new \in Entry /\ new.value = v /\ new.id = e.id
  <2>1. e.seq \in SeqNums /\ e \in Entry
    BY EntryTypes DEF Good
  <2>2. q \in SeqNums
    BY <2>1, IncType
  <2> HIDE DEF q
  <2> QED BY <2>1, <2>2 DEF Entry
<1>2. isNew \in BOOLEAN /\ two \in BOOLEAN /\ d \in BOOLEAN
  OBVIOUS
<1>3. CASE ~isNew /\ TypeOf(e.value) # TypeOf(v)
  <2>1. SetEntryValue(st, n, v) = Ignored(st)
    BY <1>3 DEF SetEntryValue
  <2> QED BY <2>1, TracedIgnored
<1>4. CASE ~(~isNew /\ TypeOf(e.value) # TypeOf(v))
  <2>1. SetEntryValue(st, n, v) = Result(MarkDirty(s, d), notes, out)
    BY <1>4 DEF SetEntryValue
  <2> HIDE DEF new
  <2>2. /\ Good(s) /\ Linked(s) /\ OldIds(st, s) /\ s.entries[n].value = v
        /\ IsServer(st) => Says(s.idmap, AssignOf(n, s.entries[n]))
    BY <1>1, ValueIds
  <2> HIDE DEF isNew, changed, q, notes, d, two, s
  <2>3. Traced(st, Result(MarkDirty(s, d), notes, out))
    BY <1>2, <2>2, ToldIds
  <2> QED BY <2>1, <2>3
<1> QED BY <1>3, <1>4

LEMMA SetTypeValueIds ==
  ASSUME NEW st, Good(st), Linked(st), HasRoom(st) \/ ~IsServer(st),
         NEW n \in Names, NEW v \in Values
  PROVE  Traced(st, SetEntryTypeValue(st, n, v))
<1> DEFINE e == st.entries[n]
           isNew == ~Has(st, n)
           retyped == TypeOf(e.value) # TypeOf(v)
           q == Inc(e.seq)
           new == [e EXCEPT !.value = v, !.seq = q]
           s == IfServerGiveId(PutEntry(st, n, new), n)
           now == s.entries[n]
           notes == <<Note(n, v, {IF isNew THEN "new" ELSE "update", "local"})>>
           d == IsPersistent(e)
           two == ~retyped /\ now.id # NoId
           out == If(retyped, <<ToAll(AssignOf(n, now))>>)
                    \o If(two, <<ToAll(EntryUpdate(now.id, now.seq, v))>>)
<1>1. new \in Entry /\ new.value = v /\ new.id = e.id
  <2>1. e.seq \in SeqNums /\ e \in Entry
    BY EntryTypes DEF Good
  <2>2. q \in SeqNums
    BY <2>1, IncType
  <2> HIDE DEF q
  <2> QED BY <2>1, <2>2 DEF Entry
<1>2. retyped \in BOOLEAN /\ two \in BOOLEAN /\ d \in BOOLEAN
  BY DEF IsPersistent
<1>3. CASE e.value = v
  <2>1. SetEntryTypeValue(st, n, v) = Ignored(st)
    BY <1>3 DEF SetEntryTypeValue
  <2> QED BY <2>1, TracedIgnored
<1>4. CASE e.value # v
  <2>1. SetEntryTypeValue(st, n, v) = Result(MarkDirty(s, d), notes, out)
    BY <1>4 DEF SetEntryTypeValue
  <2> HIDE DEF new
  <2>2. /\ Good(s) /\ Linked(s) /\ OldIds(st, s) /\ s.entries[n].value = v
        /\ IsServer(st) => Says(s.idmap, AssignOf(n, s.entries[n]))
    BY <1>1, ValueIds
  <2> HIDE DEF isNew, retyped, q, notes, d, two, s
  <2>3. Traced(st, Result(MarkDirty(s, d), notes, out))
    BY <1>2, <2>2, ToldIds
  <2> QED BY <2>1, <2>3
<1> QED BY <1>3, <1>4

\* An entry is given other flags, or another value, and keeps its id.
LEMMA PutIds ==
  ASSUME NEW st, Good(st), Linked(st), NEW n \in Names, NEW e \in Entry,
         e.id = st.entries[n].id, e.value = st.entries[n].value \/ e.value \in Values,
         NEW d \in BOOLEAN, NEW notes, NEW out, IsServer(st) => out \in Seq(SaidSends(st.idmap))
  PROVE  Traced(st, Result(MarkDirty(PutEntry(st, n, e), d), notes, out))
<1>0. st \in Store
  BY DEF Good
<1>1. PICK s : s = PutEntry(st, n, e)
  OBVIOUS
<1>2. /\ s \in Store /\ s.idmap = st.idmap /\ s.size = st.size
      /\ s.entries = [st.entries EXCEPT ![n] = e]
  BY <1>0, <1>1, PutFacts
<1>3. e.id # NoId => e.value # NoValue
  BY NoValueIsNone DEF Linked, Has
<1>4. Linked(s)
  BY <1>0, <1>2, <1>3, PutLinked
<1>5. OldIds(st, s)
  BY <1>0, <1>2, SameOldIds
<1> QED BY <1>1, <1>2, <1>4, <1>5, TracedResult

LEMMA SetFlagsIds ==
  ASSUME NEW st, Good(st), Linked(st), NEW n \in Names, NEW f \in {0, 1}
  PROVE  Traced(st, SetEntryFlags(st, n, f))
<1> DEFINE e == st.entries[n]
           new == [e EXCEPT !.flags = f]
           out == If(e.id # NoId, <<ToAll(FlagsUpdate(e.id, f))>>)
           notes == <<Note(n, e.value, {"flags", "local"})>>
<1>1. CASE ~Has(st, n) \/ e.flags = f
  <2>1. SetEntryFlags(st, n, f) = Ignored(st)
    BY <1>1 DEF SetEntryFlags
  <2> QED BY <2>1, TracedIgnored
<1>2. CASE Has(st, n) /\ e.flags # f
  <2>1. e \in Entry
    BY EntryTypes DEF Good
  <2>2. new \in Entry /\ new.id = e.id /\ new.value = e.value
    BY <2>1 DEF Entry
  <2>3. out \in Seq(SaidSends(st.idmap))
    <3>1. e.id # NoId => FlagsUpdate(e.id, f) \in Msgs
      BY <2>1 DEF FlagsUpdate, Msgs, Entry, FlagMsgs
    <3>2. e.id # NoId => ToAll(FlagsUpdate(e.id, f)) \in SaidSends(st.idmap)
      BY <3>1, SendSaid, NoAssignSays
    <3> HIDE DEF e
    <3> QED BY <3>2, IfInSeq
  <2>4. SetEntryFlags(st, n, f) = Result(MarkDirty(PutEntry(st, n, new), TRUE), notes, out)
    BY <1>2 DEF SetEntryFlags
  <2> HIDE DEF new, out, notes
  <2> QED BY <2>2, <2>3, <2>4, PutIds
<1> QED BY <1>1, <1>2

\* An entry is gone, and with it the id it had, or another that led to it.
LEMMA FreedLinked ==
  ASSUME NEW st, st \in Store, Linked(st), NEW n \in Names,
         NEW s, s.entries = [st.entries EXCEPT ![n] = Fresh], s.size = st.size,
         s.idmap \in [Ids -> Names \cup {NoName}],
         \A i \in Ids : s.idmap[i] # st.idmap[i] => s.idmap[i] = NoName /\ st.idmap[i] = n
  PROVE  Linked(s) /\ OldIds(st, s)
<1>1. /\ st.entries \in [Names -> Entry] /\ st.size \in Nat
      /\ st.idmap \in [Ids -> Names \cup {NoName}]
  BY StorageAssumption DEF Store
<1>2. ASSUME NEW k \in Names, s.entries[k].id # NoId
      PROVE  Has(s, k) /\ s.idmap[s.entries[k].id] = k
  <2>1. k # n
    <3>1. CASE k = n
      <4>1. s.entries[k] = Fresh
        BY <1>1, <3>1
      <4> QED BY <1>2, <4>1 DEF Fresh
    <3> QED BY <3>1
  <2>2. s.entries[k] = st.entries[k] /\ st.entries[k] \in Entry
    BY <1>1, <2>1
  <2>3. Has(st, k) /\ st.idmap[st.entries[k].id] = k
    BY <1>2, <2>2 DEF Linked
  <2>4. st.entries[k].id \in Ids
    BY <1>2, <2>2 DEF Entry
  <2>5. s.idmap[st.entries[k].id] = k
    BY <2>1, <2>3, <2>4
  <2> QED BY <2>2, <2>3, <2>5 DEF Has
<1>3. \A i \in Ids : s.idmap[i] # NoName => s.idmap[i] = st.idmap[i]
  OBVIOUS
<1>4. Linked(s)
  BY <1>2, <1>3 DEF Linked
<1> QED BY <1>1, <1>3, <1>4 DEF OldIds

LEMMA DeleteIds ==
  ASSUME NEW st, Good(st), Linked(st), NEW n \in Names
  PROVE  Traced(st, DeleteEntry(st, n))
<1> DEFINE e == st.entries[n]
           d == IsPersistent(e)
           notes == <<Note(n, e.value, {"delete", "local"})>>
           out == If(e.id # NoId, <<ToAll(EntryDelete(e.id))>>)
<1>1. CASE ~Has(st, n)
  <2>1. DeleteEntry(st, n) = Ignored(st)
    BY <1>1 DEF DeleteEntry
  <2> QED BY <2>1, TracedIgnored
<1>2. CASE Has(st, n)
  <2>1. /\ st \in Store /\ st.entries \in [Names -> Entry] /\ e.id \in NewIds
        /\ st.idmap \in [Ids -> Names \cup {NoName}] /\ st.size \in 0 .. MaxIds
    BY EntryTypes DEF Good, Store
  <2>2. PICK s : s = Erase(st, n)
    OBVIOUS
  <2>3. /\ s.entries = [st.entries EXCEPT ![n] = Fresh] /\ s.size = st.size
        /\ s.idmap = IF e.id < st.size THEN [st.idmap EXCEPT ![e.id] = NoName] ELSE st.idmap
    BY <2>1, <2>2 DEF Erase, Store
  <2>4. e.id < st.size => e.id \in Ids /\ st.idmap[e.id] = n
    <3>1. SUFFICES ASSUME e.id < st.size PROVE e.id \in Ids /\ st.idmap[e.id] = n
      OBVIOUS
    <3>2. e.id \in Ids
      BY <2>1, <3>1, StorageAssumption DEF NewIds, NoId, Ids
    <3> QED BY <3>2, IdsAre DEF Linked
  <2>5. s.idmap \in [Ids -> Names \cup {NoName}]
    BY <2>1, <2>3
  <2>6. \A i \in Ids : s.idmap[i] # st.idmap[i] => s.idmap[i] = NoName /\ st.idmap[i] = n
    BY <2>1, <2>3, <2>4
  <2>7. Linked(s) /\ OldIds(st, s)
    BY <2>1, <2>3, <2>5, <2>6, FreedLinked
  <2>8. s \in Store
    <3>1. Fresh \in Entry
      BY HalfAssumption DEF Fresh, Entry, SeqNums
    <3>2. s.entries \in [Names -> Entry]
      BY <2>1, <2>3, <3>1
    <3>3. PICK es, im : s = [st EXCEPT !.entries = es, !.idmap = im]
      BY <2>2 DEF Erase
    <3>4. s.entries = es /\ s.idmap = im
      BY <2>1, <3>3 DEF Store
    <3> QED BY <2>1, <2>5, <3>2, <3>3, <3>4 DEF Store
  <2>9. out \in Seq(SaidSends(s.idmap))
    <3>1. e.id # NoId => EntryDelete(e.id) \in Msgs
      BY <2>1 DEF EntryDelete, Msgs, NewIds, Deletes
    <3>2. e.id # NoId => ToAll(EntryDelete(e.id)) \in SaidSends(s.idmap)
      BY <3>1, SendSaid, NoAssignSays
    <3> HIDE DEF e
    <3> QED BY <3>2, IfInSeq
  <2>10. d \in BOOLEAN
    BY DEF IsPersistent
  <2>11. DeleteEntry(st, n) = Result(MarkDirty(s, d), notes, out)
    BY <1>2, <2>2 DEF DeleteEntry
  <2> HIDE DEF d, notes, out
  <2> QED BY <2>7, <2>8, <2>9, <2>10, <2>11, TracedResult
<1> QED BY <1>1, <1>2

\* Every entry that is deleted takes its id with it.
LEMMA ClearedLinked ==
  ASSUME NEW st, Good(st), Linked(st), NEW s, s = DeleteAllEntriesImpl(st)
  PROVE  s \in Store /\ Linked(s) /\ OldIds(st, s)
<1> DEFINE gone == {n \in Present(st) : ~IsPersistent(st.entries[n])}
           es == [n \in Names |-> IF n \in gone THEN Fresh ELSE st.entries[n]]
           im == [i \in Ids |-> IF \E n \in gone : st.entries[n].id = i
                                THEN NoName ELSE st.idmap[i]]
<1>1. /\ st \in Store /\ st.entries \in [Names -> Entry]
      /\ st.idmap \in [Ids -> Names \cup {NoName}] /\ st.size \in Nat
      /\ gone \subseteq Names
  BY StorageAssumption DEF Good, Store, Present
<1>2. s = [st EXCEPT !.entries = es, !.idmap = im]
  BY <1>1 DEF DeleteAllEntriesImpl, Store
<1>3. s.entries = es /\ s.idmap = im /\ s.size = st.size
  BY <1>1, <1>2 DEF Store
<1>4. s \in Store
  BY ClearFacts DEF Good
<1>5. /\ \A n \in Names : es[n] = IF n \in gone THEN Fresh ELSE st.entries[n]
      /\ \A i \in Ids : im[i] = IF \E n \in gone : st.entries[n].id = i THEN NoName ELSE st.idmap[i]
  OBVIOUS
<1> HIDE DEF gone, es, im
<1>6. \A i \in Ids : s.idmap[i] # NoName => s.idmap[i] = st.idmap[i]
  BY <1>3, <1>5
<1>7. ASSUME NEW k \in Names, s.entries[k].id # NoId
      PROVE  Has(s, k) /\ s.idmap[s.entries[k].id] = k
  <2>1. k \notin gone /\ s.entries[k] = st.entries[k] /\ st.entries[k] \in Entry
    BY <1>1, <1>3, <1>5, <1>7 DEF Fresh
  <2>2. Has(st, k) /\ st.idmap[st.entries[k].id] = k /\ st.entries[k].id \in Ids
    BY <1>7, <2>1 DEF Linked, Entry
  <2>3. ASSUME NEW m \in gone, st.entries[m].id = st.entries[k].id PROVE FALSE
    <3>1. m \in Names /\ st.entries[m].id # NoId
      BY <1>1, <2>2, <2>3, IdsAre
    <3>2. st.idmap[st.entries[m].id] = m
      BY <3>1 DEF Linked
    <3> QED BY <2>1, <2>2, <2>3, <3>2
  <2>4. s.idmap[st.entries[k].id] = k
    BY <1>3, <1>5, <2>2, <2>3
  <2> QED BY <2>1, <2>2, <2>4 DEF Has
<1>8. Linked(s)
  BY <1>3, <1>6, <1>7 DEF Linked
<1> QED BY <1>1, <1>3, <1>4, <1>6, <1>8 DEF OldIds

LEMMA DeleteAllIds ==
  ASSUME NEW st, Good(st), Linked(st)
  PROVE  Traced(st, DeleteAllEntries(st))
<1>1. PICK s : s = DeleteAllEntriesImpl(st)
  OBVIOUS
<1>2. PICK out : out = <<ToAll(ClearEntries)>>
  OBVIOUS
<1>3. out \in Seq(SaidSends(s.idmap))
  <2>1. ClearEntries \in Msgs
    BY DEF ClearEntries, Msgs, Clears
  <2> QED BY <1>2, <2>1, SendSaid, NoAssignSays
<1>4. Traced(st, Result(s, ClearNotes(st), out))
  BY <1>1, <1>3, ClearedLinked, TracedResult
<1> QED BY <1>1, <1>2, <1>4, TracedIgnored DEF DeleteAllEntries

-----------------------------------------------------------------------------
(* The messages of another node.                                           *)

LEMMA RequestIds ==
  ASSUME NEW st, Good(st), IsServer(st), HasRoom(st), NEW m \in Assigns
  PROVE  Traced(st, AssignRequest(st, m))
<1>0. Linked(st) /\ m.name \in Names /\ m.value \in Values /\ m.flags \in {0, 1}
  BY ServerLinked DEF Assigns
<1>1. CASE Has(st, m.name)
  BY <1>0, <1>1, TracedIgnored DEF AssignRequest
<1>2. CASE ~Has(st, m.name)
  <2>1. PICK e : e = [Fresh EXCEPT !.value = m.value, !.flags = m.flags]
    OBVIOUS
  <2>2. e \in Entry /\ e.value = m.value /\ e.id = NoId
    <3>1. Fresh \in Entry
      BY HalfAssumption DEF Fresh, Entry, SeqNums
    <3>2. e.value = m.value /\ e.id = NoId
      BY <2>1 DEF Fresh
    <3> QED BY <1>0, <2>1, <3>1, <3>2 DEF Entry
  <2>3. PICK s : s = GiveId(PutEntry(st, m.name, e), m.name)
    OBVIOUS
  <2>4. s = IfServerGiveId(PutEntry(st, m.name, e), m.name)
    <3>1. st \in Store /\ st.entries \in [Names -> Entry]
      BY DEF Good, Store
    <3>2. /\ SameRole(PutEntry(st, m.name, e), st)
          /\ PutEntry(st, m.name, e).entries = [st.entries EXCEPT ![m.name] = e]
      BY <1>0, <2>2, <3>1, PutFacts
    <3>3. PutEntry(st, m.name, e).entries[m.name].id = NoId
      BY <1>0, <2>2, <3>1, <3>2
    <3> QED BY <2>3, <3>2, <3>3 DEF IfServerGiveId, SameRole, IsServer
  <2>5. e.id = st.entries[m.name].id /\ e.value \in Values
    BY <1>0, <1>2, <2>2 DEF Linked
  <2>6. /\ Good(s) /\ Linked(s) /\ OldIds(st, s)
        /\ Says(s.idmap, AssignOf(m.name, s.entries[m.name]))
    BY <1>0, <2>2, <2>4, <2>5, LocalIds
  <2>7. AssignOf(m.name, s.entries[m.name]) \in Msgs
    <3>1. s.entries[m.name] \in Entry /\ s.entries[m.name].value = e.value
      BY <1>0, <1>2, <2>2, <2>4, <2>5, LocalPut
    <3> QED BY <1>0, <2>5, <3>1, AssignIsMsg
  <2>8. PICK out : out = <<ToAll(AssignOf(m.name, s.entries[m.name]))>>
    OBVIOUS
  <2>9. out \in Seq(SaidSends(s.idmap))
    BY <2>6, <2>7, <2>8, SendSaid
  <2>10. PICK d \in BOOLEAN : d = (m.flags = 1)
    OBVIOUS
  <2>11. AssignRequest(st, m) = Result(MarkDirty(s, d), <<Note(m.name, m.value, {"new"})>>, out)
    BY <1>2, <2>1, <2>3, <2>8, <2>10 DEF AssignRequest
  <2> QED BY <2>6, <2>9, <2>11, TracedResult DEF Good
<1> QED BY <1>1, <1>2

LEMMA TakeAssignIds ==
  ASSUME NEW st, Good(st), Linked(st), NEW n \in Names, NEW m \in Assigns, m.id \in Ids,
         NEW mayNeed \in BOOLEAN, IsServer(st) => ~mayNeed /\ st.idmap[m.id] = n
  PROVE  Traced(st, TakeAssign(st, n, m, mayNeed))
<1> DEFINE e == st.entries[n]
           flags == IF mayNeed THEN e.flags ELSE m.flags
           new == [e EXCEPT !.value = m.value, !.seq = m.seq, !.flags = flags]
           kinds == {"update"} \cup (IF flags # e.flags THEN {"flags"} ELSE {})
           interim == If(mayNeed /\ m.flags # e.flags, <<ToAll(FlagsUpdate(m.id, e.flags))>>)
           again == If(mayNeed, <<ToAll(EntryUpdate(e.id, e.seq, e.value))>>)
           onward == If(st.server, <<Onward(EntryAssign(n, m.id, m.seq, m.value, flags))>>)
           d == flags # e.flags \/ (flags = 1 /\ e.value # m.value)
<1>1. /\ e \in Entry /\ e.flags \in {0, 1} /\ flags \in {0, 1} /\ m.id \in NewIds
      /\ m.value \in Values /\ m.seq \in SeqNums
  BY EntryTypes DEF Good, Assigns, NewIds
<1>2. IsServer(st) => interim = <<>> /\ again = <<>>
  BY DEF If
<1>3. IsServer(st) => onward \in Seq(SaidSends(st.idmap))
  <2> HIDE DEF flags
  <2>1. PICK a \in Msgs : a = EntryAssign(n, m.id, m.seq, m.value, flags)
    BY <1>1, MsgTypes
  <2>2. IsServer(st) => Says(st.idmap, a)
    BY <2>1 DEF EntryAssign, Says
  <2>3. IsServer(st) => Onward(a) \in SaidSends(st.idmap)
    BY <2>2, SendSaid
  <2> QED BY <2>1, <2>3, IfInSeq
<1>4. IsServer(st) => interim \o again = <<>> /\ interim \o onward \in Seq(SaidSends(st.idmap))
  <2> HIDE DEF interim, again, onward
  <2>1. <<>> \o <<>> = <<>> /\ <<>> \in Seq(SaidSends(st.idmap))
    OBVIOUS
  <2> QED BY <1>2, <1>3, <2>1, Concat
<1>5. new \in Entry /\ new.value = m.value /\ new.id = e.id
  <2> HIDE DEF flags
  <2> QED BY <1>1 DEF Entry
<1>6. d \in BOOLEAN
  OBVIOUS
<1>7. st \in Store /\ OldIds(st, st) /\ <<>> \in Seq(SaidSends(st.idmap))
  BY SameOldIds, EmptySeq DEF Good
<1>8. CASE Lt(m.seq, e.seq)
  <2>1. TakeAssign(st, n, m, mayNeed) = Result(st, <<>>, interim \o again)
    BY <1>8 DEF TakeAssign
  <2> HIDE DEF interim, again
  <2> QED BY <1>4, <1>7, <2>1, TracedResult
<1>9. CASE ~Lt(m.seq, e.seq) /\ m.name # n
  <2>1. TakeAssign(st, n, m, mayNeed) = Result(st, <<>>, interim)
    BY <1>9 DEF TakeAssign
  <2> HIDE DEF interim, again
  <2> QED BY <1>2, <1>7, <2>1, TracedResult
<1>10. CASE ~Lt(m.seq, e.seq) /\ m.name = n
  <2>1. TakeAssign(st, n, m, mayNeed)
          = Result(MarkDirty(PutEntry(st, n, new), d), <<Note(n, m.value, kinds)>>, interim \o onward)
    BY <1>10 DEF TakeAssign
  <2> HIDE DEF interim, onward, new, d, kinds
  <2> QED BY <1>1, <1>4, <1>5, <1>6, <2>1, PutIds
<1> QED BY <1>8, <1>9, <1>10

LEMMA ServerAssignIds ==
  ASSUME NEW st, Good(st), IsServer(st), HasRoom(st), NEW m \in Assigns
  PROVE  Traced(st, ServerAssign(st, m))
<1>0. Linked(st) /\ m.id \in NewIds
  BY ServerLinked DEF Assigns
<1>1. CASE m.id = NoId
  BY <1>1, RequestIds DEF ServerAssign
<1>2. CASE m.id # NoId /\ ~KnownId(st, m.id)
  BY <1>0, <1>2, TracedIgnored DEF ServerAssign
<1>3. CASE m.id # NoId /\ KnownId(st, m.id)
  <2>1. m.id \in Ids /\ st.idmap[m.id] \in Names
    BY <1>0, <1>3, KnownFacts
  <2>2. Traced(st, TakeAssign(st, st.idmap[m.id], m, FALSE))
    BY <1>0, <2>1, TakeAssignIds
  <2> QED BY <1>3, <2>2 DEF ServerAssign
<1> QED BY <1>1, <1>2, <1>3

\* A client takes an id it does not know for an entry that is there.
LEMMA BindLinked ==
  ASSUME NEW st, Good(st), Linked(st), ~IsServer(st), NEW n \in Names, Has(st, n),
         NEW i \in Ids, ~KnownId(st, i), NEW s, s = BindId(st, n, i)
  PROVE  /\ Linked(s) /\ s.idmap = [st.idmap EXCEPT ![i] = n]
<1>1. /\ st \in Store /\ st.entries \in [Names -> Entry] /\ st.size \in Nat
      /\ st.idmap \in [Ids -> Names \cup {NoName}] /\ i \in Nat
  BY IdsAre, StorageAssumption DEF Good, Store
<1>2. /\ s.idmap = [st.idmap EXCEPT ![i] = n]
      /\ s.size = IF i >= st.size THEN i + 1 ELSE st.size
      /\ s.entries = [st.entries EXCEPT ![n] = [st.entries[n] EXCEPT !.id = i]]
  BY <1>1 DEF BindId, Store
<1>3. /\ \A k \in Names : Has(s, k) <=> Has(st, k)
      /\ s.entries[n].id = i
      /\ \A k \in Names : k # n => s.entries[k] = st.entries[k]
  <2>1. s.entries[n].id = i
    BY <1>1, <1>2 DEF Entry
  <2>2. \A k \in Names : k # n => s.entries[k] = st.entries[k]
    BY <1>1, <1>2
  <2> QED BY <2>1, <2>2, BindFacts
<1>4. st.idmap[i] = NoName
  BY <1>1 DEF KnownId, Linked
<1>5. ASSUME NEW j \in Ids, s.idmap[j] # NoName PROVE j < s.size
  <2>1. CASE j = i
    BY <1>1, <1>2, <2>1
  <2>2. CASE j # i
    <3>1. s.idmap[j] = st.idmap[j]
      BY <1>1, <1>2, <2>2
    <3>2. j < st.size /\ j \in Nat
      BY <1>5, <3>1, IdsAre DEF Linked
    <3> QED BY <1>1, <1>2, <3>2
  <2> QED BY <2>1, <2>2
<1>6. ASSUME NEW k \in Names, s.entries[k].id # NoId
      PROVE  Has(s, k) /\ s.idmap[s.entries[k].id] = k
  <2>1. CASE k = n
    BY <1>1, <1>2, <1>3, <2>1
  <2>2. CASE k # n
    <3>1. s.entries[k] = st.entries[k] /\ st.entries[k].id \in Ids
      BY <1>1, <1>3, <1>6, <2>2 DEF Entry
    <3>2. Has(st, k) /\ st.idmap[st.entries[k].id] = k
      BY <1>6, <3>1 DEF Linked
    <3>3. st.entries[k].id # i
      BY <1>4, <3>2, StorageAssumption
    <3>4. s.idmap[st.entries[k].id] = k
      BY <1>1, <1>2, <3>1, <3>2, <3>3
    <3> QED BY <1>3, <3>1, <3>2, <3>4
  <2> QED BY <2>1, <2>2
<1> QED BY <1>2, <1>5, <1>6 DEF Linked

\* The only id that a message adds to a client's id map is the one it tells.
Learns(st, s, m) ==
  \A i \in Ids : s.idmap[i] # NoName =>
    s.idmap[i] = st.idmap[i] \/ (m.type = "assign" /\ i = m.id /\ s.idmap[i] = m.name)

LEMMA TracedLearns ==
  ASSUME NEW st, ~IsServer(st), NEW r, Traced(st, r), NEW m
  PROVE  Linked(r.st) /\ Learns(st, r.st, m)
BY DEF Traced, OldIds, Learns

LEMMA ClientAssignIds ==
  ASSUME NEW st, Good(st), Linked(st), ~IsServer(st), NEW m \in Assigns,
         NEW r, r = ClientAssign(st, m)
  PROVE  Linked(r.st) /\ Learns(st, r.st, m)
<1>0. /\ m.name \in Names /\ m.value \in Values /\ m.flags \in {0, 1} /\ m.id \in NewIds
      /\ m.id # NoId => m.id \in Ids
      /\ m.type = "assign" /\ st \in Store /\ st.idmap \in [Ids -> Names \cup {NoName}]
  BY DEF Assigns, NewIds, Good, Store
<1>1. CASE m.id = NoId
  <2>1. r = Ignored(st)
    BY <1>1 DEF ClientAssign
  <2> QED BY <2>1, TracedIgnored, TracedLearns
<1>2. CASE m.id # NoId /\ KnownId(st, m.id)
  <2>1. m.id \in Ids /\ st.idmap[m.id] \in Names
    BY <1>0, <1>2, KnownFacts
  <2>2. Traced(st, TakeAssign(st, st.idmap[m.id], m, FALSE))
    BY <2>1, TakeAssignIds
  <2>3. r = TakeAssign(st, st.idmap[m.id], m, FALSE)
    BY <1>2 DEF ClientAssign
  <2> QED BY <2>2, <2>3, TracedLearns
<1>3. CASE m.id # NoId /\ ~KnownId(st, m.id) /\ Has(st, m.name)
  <2>1. PICK s : s = BindId(st, m.name, m.id)
    OBVIOUS
  <2>2. Linked(s) /\ s.idmap = [st.idmap EXCEPT ![m.id] = m.name]
    BY <1>0, <1>3, <2>1, BindLinked
  <2>3. Good(s) /\ ~IsServer(s)
    BY <1>0, <1>3, <2>1, BindFacts, RoleFacts
  <2>4. Traced(s, TakeAssign(s, m.name, m, TRUE))
    BY <1>0, <1>3, <2>2, <2>3, TakeAssignIds
  <2>5. r = TakeAssign(s, m.name, m, TRUE)
    BY <1>3, <2>1 DEF ClientAssign
  <2>6. Linked(r.st) /\ \A i \in Ids : r.st.idmap[i] # NoName => r.st.idmap[i] = s.idmap[i]
    BY <2>3, <2>4, <2>5 DEF Traced, OldIds
  <2> QED BY <1>0, <1>3, <2>2, <2>6 DEF Learns
<1>4. CASE m.id # NoId /\ ~KnownId(st, m.id) /\ ~Has(st, m.name)
  <2>1. PICK e : e = [Fresh EXCEPT !.value = m.value, !.flags = m.flags]
    OBVIOUS
  <2>2. e \in Entry /\ e.value = m.value /\ e.id = NoId
    <3>1. Fresh \in Entry
      BY HalfAssumption DEF Fresh, Entry, SeqNums
    <3>2. e.value = m.value /\ e.id = NoId
      BY <2>1 DEF Fresh
    <3> QED BY <1>0, <2>1, <3>1, <3>2 DEF Entry
  <2>3. PICK p : p = PutEntry(st, m.name, e)
    OBVIOUS
  <2>4. /\ p \in Store /\ p.size = st.size /\ p.idmap = st.idmap
        /\ p.entries = [st.entries EXCEPT ![m.name] = e] /\ SameRole(p, st)
    BY <1>0, <2>2, <2>3, PutFacts
  <2>5. Linked(p)
    <3>1. e.id = st.entries[m.name].id
      BY <1>0, <1>4, <2>2 DEF Linked
    <3> QED BY <1>0, <2>2, <2>4, <3>1, PutLinked
  <2>6. Good(p) /\ ~IsServer(p)
    BY <2>4, RoleFacts DEF Good
  <2>7. Has(p, m.name) /\ ~KnownId(p, m.id)
    <3>1. p.entries[m.name] = e
      BY <1>0, <2>4 DEF Store
    <3> QED BY <1>0, <1>4, <2>2, <2>4, <3>1, NoValueIsNone DEF Has, KnownId
  <2>8. PICK s : s = BindId(p, m.name, m.id)
    OBVIOUS
  <2>9. Linked(s) /\ s.idmap = [st.idmap EXCEPT ![m.id] = m.name]
    BY <1>0, <1>4, <2>4, <2>5, <2>6, <2>7, <2>8, BindLinked
  <2>10. r.st = s
    BY <1>4, <2>1, <2>3, <2>8 DEF ClientAssign, Result
  <2> QED BY <1>0, <1>4, <2>9, <2>10 DEF Learns
<1> QED BY <1>1, <1>2, <1>3, <1>4

LEMMA UpdateIds ==
  ASSUME NEW st, Good(st), Linked(st), NEW m \in Updates
  PROVE  Traced(st, TakeUpdate(st, m))
<1> DEFINE n == st.idmap[m.id]
           e == st.entries[n]
           new == [e EXCEPT !.value = m.value, !.seq = m.seq]
           d == IsPersistent(e)
           notes == <<Note(n, m.value, {"update"})>>
           out == If(st.server, <<Onward(m)>>)
<1>0. m.id \in NewIds /\ m.seq \in SeqNums /\ m.value \in Values /\ m \in Msgs /\ m.type = "update"
  BY DEF Updates, Msgs
<1>1. CASE ~KnownId(st, m.id) \/ Leq(m.seq, e.seq)
  <2>1. TakeUpdate(st, m) = Ignored(st)
    BY <1>1 DEF TakeUpdate
  <2> QED BY <2>1, TracedIgnored
<1>2. CASE KnownId(st, m.id) /\ ~Leq(m.seq, e.seq)
  <2>1. n \in Names
    BY <1>0, <1>2, KnownFacts
  <2>2. e \in Entry
    <3> HIDE DEF n
    <3> QED BY <2>1, EntryTypes DEF Good
  <2>3. new \in Entry /\ new.value = m.value /\ new.id = e.id
    BY <1>0, <2>2 DEF Entry
  <2>4. out \in Seq(SaidSends(st.idmap))
    <3>1. Onward(m) \in SaidSends(st.idmap)
      BY <1>0, SendSaid DEF Says
    <3> QED BY <3>1, IfInSeq
  <2>5. d \in BOOLEAN
    BY DEF IsPersistent
  <2>6. TakeUpdate(st, m) = Result(MarkDirty(PutEntry(st, n, new), d), notes, out)
    BY <1>2 DEF TakeUpdate
  <2> HIDE DEF d, notes, out, n, new
  <2> QED BY <1>0, <2>1, <2>3, <2>4, <2>5, <2>6, PutIds
<1> QED BY <1>1, <1>2

LEMMA TakeFlagsIds ==
  ASSUME NEW st, Good(st), Linked(st), NEW m \in FlagMsgs
  PROVE  Traced(st, TakeFlags(st, m))
<1> DEFINE n == st.idmap[m.id]
           e == st.entries[n]
           new == [e EXCEPT !.flags = m.flags]
           notes == <<Note(n, e.value, {"flags"})>>
           out == If(st.server, <<Onward(m)>>)
<1>0. m.id \in NewIds /\ m.flags \in {0, 1} /\ m \in Msgs /\ m.type = "flags"
  BY DEF FlagMsgs, Msgs, NewIds
<1>1. CASE ~KnownId(st, m.id) \/ e.flags = m.flags
  <2>1. TakeFlags(st, m) = Ignored(st)
    BY <1>1 DEF TakeFlags
  <2> QED BY <2>1, TracedIgnored
<1>2. CASE KnownId(st, m.id) /\ e.flags # m.flags
  <2>1. n \in Names
    BY <1>0, <1>2, KnownFacts
  <2>2. e \in Entry
    <3> HIDE DEF n
    <3> QED BY <2>1, EntryTypes DEF Good
  <2>3. new \in Entry /\ new.value = e.value /\ new.id = e.id
    BY <1>0, <2>2 DEF Entry
  <2>4. out \in Seq(SaidSends(st.idmap))
    <3>1. Onward(m) \in SaidSends(st.idmap)
      BY <1>0, SendSaid DEF Says
    <3> QED BY <3>1, IfInSeq
  <2>5. TakeFlags(st, m) = Result(MarkDirty(PutEntry(st, n, new), TRUE), notes, out)
    BY <1>2 DEF TakeFlags
  <2> HIDE DEF notes, out, n, new
  <2> QED BY <2>1, <2>3, <2>4, <2>5, PutIds
<1> QED BY <1>1, <1>2

LEMMA TakeDeleteIds ==
  ASSUME NEW st, Good(st), Linked(st), NEW m \in Deletes
  PROVE  Traced(st, TakeDelete(st, m))
<1> DEFINE n == st.idmap[m.id]
           e == st.entries[n]
           d == IsPersistent(e)
           notes == <<Note(n, e.value, {"delete"})>>
           out == If(st.server, <<Onward(m)>>)
<1>0. m.id \in NewIds /\ m.id \in Ids /\ m \in Msgs /\ m.type = "delete"
  BY DEF Deletes, Msgs, NewIds
<1>1. CASE ~KnownId(st, m.id)
  <2>1. TakeDelete(st, m) = Ignored(st)
    BY <1>1 DEF TakeDelete
  <2> QED BY <2>1, TracedIgnored
<1>2. CASE KnownId(st, m.id)
  <2>1. n \in Names
    BY <1>0, <1>2, KnownFacts
  <2>2. /\ st \in Store /\ st.idmap \in [Ids -> Names \cup {NoName}]
        /\ d \in BOOLEAN
    BY DEF Good, Store, IsPersistent
  <2>3. Fresh \in Entry
    BY HalfAssumption DEF Fresh, Entry, SeqNums
  <2>4. PICK p : p = PutEntry(st, n, Fresh)
    OBVIOUS
  <2>5. /\ p \in Store /\ p.size = st.size /\ p.idmap = st.idmap
        /\ p.entries = [st.entries EXCEPT ![n] = Fresh]
    <3> HIDE DEF n
    <3> QED BY <2>1, <2>2, <2>3, <2>4, PutFacts
  <2>6. PICK s : s = [MarkDirty(p, d) EXCEPT !.idmap[m.id] = NoName]
    OBVIOUS
  <2>7. /\ s \in Store /\ s.size = p.size /\ s.entries = p.entries
        /\ s.idmap = [p.idmap EXCEPT ![m.id] = NoName]
    <3> HIDE DEF d
    <3> QED BY <2>2, <2>5, <2>6, <1>0 DEF MarkDirty, Store
  <2>8. /\ s.idmap \in [Ids -> Names \cup {NoName}]
        /\ \A i \in Ids : s.idmap[i] # st.idmap[i] => s.idmap[i] = NoName /\ st.idmap[i] = n
    BY <1>0, <2>2, <2>5, <2>7
  <2>9. Linked(s) /\ OldIds(st, s)
    <3> HIDE DEF n
    <3> QED BY <2>1, <2>2, <2>5, <2>7, <2>8, FreedLinked
  <2>10. out \in Seq(SaidSends(s.idmap))
    <3>1. Onward(m) \in SaidSends(s.idmap)
      BY <1>0, SendSaid DEF Says
    <3> QED BY <3>1, IfInSeq
  <2>11. TakeDelete(st, m) = Result(s, notes, out)
    BY <1>2, <2>4, <2>6 DEF TakeDelete
  <2> HIDE DEF d, notes, out, n, e
  <2> QED BY <2>2, <2>7, <2>9, <2>10, <2>11, TracedResult
<1> QED BY <1>1, <1>2

LEMMA TakeClearIds ==
  ASSUME NEW st, Good(st), Linked(st), NEW m \in Clears
  PROVE  Traced(st, TakeClear(st, m))
<1>1. PICK s, out : s = DeleteAllEntriesImpl(st) /\ out = If(st.server, <<Onward(m)>>)
  OBVIOUS
<1>2. m \in Msgs /\ m.type = "clear"
  BY DEF Clears, Msgs
<1>3. out \in Seq(SaidSends(s.idmap))
  <2>1. Onward(m) \in SaidSends(s.idmap)
    BY <1>2, SendSaid DEF Says
  <2> QED BY <1>1, <2>1, IfInSeq
<1>4. Traced(st, Result(s, ClearNotes(st), out))
  BY <1>1, <1>3, ClearedLinked, TracedResult
<1> QED BY <1>1, <1>4 DEF TakeClear

\* Any message but an assignment.
LEMMA OtherIds ==
  ASSUME NEW st, Good(st), Linked(st), NEW m \in Msgs, m \notin Assigns
  PROVE  Traced(st, ProcessIncoming(st, m))
<1>1. CASE m \in Updates
  <2>1. ProcessIncoming(st, m) = TakeUpdate(st, m)
    BY <1>1 DEF Updates, ProcessIncoming
  <2> QED BY <1>1, <2>1, UpdateIds
<1>2. CASE m \in FlagMsgs
  <2>1. ProcessIncoming(st, m) = TakeFlags(st, m)
    BY <1>2 DEF FlagMsgs, ProcessIncoming
  <2> QED BY <1>2, <2>1, TakeFlagsIds
<1>3. CASE m \in Deletes
  <2>1. ProcessIncoming(st, m) = TakeDelete(st, m)
    BY <1>3 DEF Deletes, ProcessIncoming
  <2> QED BY <1>3, <2>1, TakeDeleteIds
<1>4. CASE m \in Clears
  <2>1. ProcessIncoming(st, m) = TakeClear(st, m)
    BY <1>4 DEF Clears, ProcessIncoming
  <2> QED BY <1>4, <2>1, TakeClearIds
<1> QED BY <1>1, <1>2, <1>3, <1>4 DEF Msgs

\* What a message does to the ids of the server, and to those of a client.
LEMMA ServerIncomingIds ==
  ASSUME NEW st, Good(st), IsServer(st), HasRoom(st), NEW m \in Msgs
  PROVE  Traced(st, ProcessIncoming(st, m))
<1>1. CASE m \in Assigns
  <2>1. ProcessIncoming(st, m) = ServerAssign(st, m)
    BY <1>1 DEF Assigns, ProcessIncoming, IsServer
  <2> QED BY <1>1, <2>1, ServerAssignIds
<1>2. CASE m \notin Assigns
  BY <1>2, ServerLinked, OtherIds
<1> QED BY <1>1, <1>2

LEMMA ClientIncomingIds ==
  ASSUME NEW st, Good(st), Linked(st), ~IsServer(st), NEW m \in Msgs,
         NEW r, r = ProcessIncoming(st, m)
  PROVE  Linked(r.st) /\ Learns(st, r.st, m)
<1>1. CASE m \in Assigns
  <2>1. ProcessIncoming(st, m) = ClientAssign(st, m)
    BY <1>1 DEF Assigns, ProcessIncoming, IsServer
  <2> QED BY <1>1, <2>1, ClientAssignIds
<1>2. CASE m \notin Assigns
  BY <1>2, OtherIds, TracedLearns
<1> QED BY <1>1, <1>2
-----------------------------------------------------------------------------
(* The snapshot.                                                           *)

LEMMA InitialSays ==
  ASSUME NEW st, Good(st), IsServer(st)
  PROVE  \A k \in DOMAIN GetInitialAssignments(st) : Says(st.idmap, GetInitialAssignments(st)[k])
<1> DEFINE S == {AssignOf(n, st.entries[n]) : n \in Present(st)}
           f == [n \in Present(st) |-> AssignOf(n, st.entries[n])]
<1>1. IsFiniteSet(S)
  <2>1. f \in [Present(st) -> S] /\ \A x \in S : \E n \in Present(st) : f[n] = x
    OBVIOUS
  <2>2. Present(st) \subseteq Names
    BY DEF Present
  <2> HIDE DEF f, S
  <2> QED BY <2>1, <2>2, FiniteOver
<1>2. \A x \in S : Says(st.idmap, x)
  BY ServerSays DEF Present
<1>3. PICK msgs : msgs = SetToSeq(S)
  OBVIOUS
<1>4. msgs = GetInitialAssignments(st)
  BY <1>3 DEF GetInitialAssignments
<1> HIDE DEF S
<1>5. \A k \in DOMAIN msgs : msgs[k] \in S
  BY <1>1, <1>3, SetSeq
<1> QED BY <1>2, <1>4, <1>5

\* A client's ids are those of the snapshot it applies, and lead back.
OnlyTold(s, msgs) ==
  \A i \in Ids : s.idmap[i] # NoName =>
    LeadsBack(s, i) /\ \E k \in DOMAIN msgs : msgs[k].id = i

LEMMA ApplyIds ==
  ASSUME NEW st, Good(st), ~IsServer(st), NEW msgs \in Seq(Answers),
         NEW f, \A k \in DOMAIN msgs : Says(f, msgs[k]),
         NEW newServer \in BOOLEAN,
         NEW r, r = ApplyInitialAssignments(st, msgs, newServer)
  PROVE  Linked(r.st) /\ Means(f, r.st) /\ OnlyTold(r.st, msgs)
<1> DEFINE theirs(n) == CHOOSE m \in InitialFor(msgs, n) : TRUE
           known == {n \in Names : InitialFor(msgs, n) # {}}
           es == [n \in Names |->
                    IF n \in known THEN Merged(st.entries[n], theirs(n), newServer)
                    ELSE [st.entries[n] EXCEPT !.id = NoId]]
           im == [i \in Ids |-> IF \E n \in known : theirs(n).id = i
                                THEN CHOOSE n \in known : theirs(n).id = i ELSE NoName]
           top == {m.id + 1 : m \in ToSet(msgs)} \cup {0}
           z == CHOOSE t \in top : \A u \in top : u <= t
           s == [st EXCEPT !.entries = es, !.idmap = im, !.size = z]
<1>0. r.st = s
  BY DEF ApplyInitialAssignments
<1>1. st \in Store /\ st.entries \in [Names -> Entry]
  BY DEF Good, Store
<1>2. s.entries = es /\ s.idmap = im /\ s.size = z
  <2> HIDE DEF es, im, z
  <2> QED BY <1>1 DEF Store
<1>3. \A m \in ToSet(msgs) : m \in Answers /\ Says(f, m)
  BY DEF ToSet
<1>4. ASSUME NEW n \in known
      PROVE  /\ theirs(n) \in ToSet(msgs) /\ theirs(n).id \in Ids
             /\ theirs(n).value \in Values /\ f[theirs(n).id] = n
  <2>1. theirs(n) \in InitialFor(msgs, n)
    OBVIOUS
  <2>2. theirs(n) \in ToSet(msgs) /\ theirs(n) \in Answers /\ Says(f, theirs(n)) /\ theirs(n).name = n
    BY <1>3, <2>1 DEF InitialFor
  <2> HIDE DEF theirs
  <2> QED BY <2>2 DEF Answers, Assigns, Says
<1>5. top \subseteq 0 .. MaxIds /\ z \in top /\ \A u \in top : u <= z
  <2>1. \A m \in ToSet(msgs) : m.id \in Ids
    BY <1>3 DEF Answers
  <2>2. \A i \in Ids : i + 1 \in 0 .. MaxIds
    BY StorageAssumption DEF Ids
  <2>3. top \subseteq 0 .. MaxIds /\ top # {}
    BY <2>1, <2>2, StorageAssumption
  <2> HIDE DEF top
  <2> QED BY <2>3, HasMaximum
<1>6. \A n \in known : theirs(n).id + 1 <= z
  BY <1>4, <1>5
<1>7. known \subseteq Names
  OBVIOUS
<1>8. ASSUME NEW i \in Ids
      PROVE  im[i] = NoName \/ (im[i] \in known /\ theirs(im[i]).id = i)
  <2>1. CASE \E n \in known : theirs(n).id = i
    <3> HIDE DEF theirs, known
    <3>1. im[i] = CHOOSE n \in known : theirs(n).id = i
      BY <2>1
    <3> HIDE DEF im
    <3> QED BY <2>1, <3>1
  <2>2. CASE ~ \E n \in known : theirs(n).id = i
    BY <2>2
  <2> QED BY <2>1, <2>2
<1>9. ASSUME NEW n \in known PROVE im[theirs(n).id] = n
  <2>1. PICK i \in Ids : i = theirs(n).id
    BY <1>4
  <2>2. im[i] # NoName
    <3>1. \E k \in known : theirs(k).id = i
      BY <2>1
    <3>2. (CHOOSE k \in known : theirs(k).id = i) \in known
      <4> HIDE DEF theirs, known
      <4> QED BY <3>1
    <3>3. im[i] = CHOOSE k \in known : theirs(k).id = i
      BY <3>1
    <3> HIDE DEF im, theirs, known
    <3> QED BY <1>7, <3>2, <3>3, StorageAssumption
  <2> HIDE DEF im, theirs, known
  <2>3. im[i] \in known /\ theirs(im[i]).id = i
    BY <1>8, <2>2
  <2> QED BY <1>4, <2>1, <2>3
<1>10. \A n \in Names : es[n] = IF n \in known THEN Merged(st.entries[n], theirs(n), newServer)
                                ELSE [st.entries[n] EXCEPT !.id = NoId]
  OBVIOUS
<1> HIDE DEF theirs, known, es, im, top, z, s
<1>11. ASSUME NEW n \in Names
       PROVE  /\ n \in known => es[n].id = theirs(n).id /\ es[n].value # NoValue
              /\ n \notin known => es[n].id = NoId
  <2>1. st.entries[n] \in Entry
    BY <1>1
  <2>2. CASE n \notin known
    BY <1>10, <2>1, <2>2 DEF Entry
  <2>3. CASE n \in known /\ TheirsWins(st.entries[n], theirs(n), newServer)
    <3>1. es[n] = [value |-> theirs(n).value, flags |-> theirs(n).flags,
                   id |-> theirs(n).id, seq |-> theirs(n).seq]
      BY <1>10, <2>3 DEF Merged
    <3> QED BY <1>4, <2>3, <3>1, NoValueIsNone
  <2>4. CASE n \in known /\ ~TheirsWins(st.entries[n], theirs(n), newServer)
    <3>1. es[n] = [st.entries[n] EXCEPT !.id = theirs(n).id]
      BY <1>10, <2>4 DEF Merged
    <3>2. st.entries[n].value # NoValue
      BY <2>4 DEF TheirsWins
    <3> QED BY <2>1, <2>4, <3>1, <3>2 DEF Entry
  <2> QED BY <2>2, <2>3, <2>4
<1>12. ASSUME NEW i \in Ids, im[i] # NoName PROVE i < z /\ f[i] = im[i]
  <2>1. im[i] \in known /\ theirs(im[i]).id = i
    BY <1>8, <1>12
  <2>2. i + 1 <= z /\ f[i] = im[i]
    BY <1>4, <1>6, <2>1
  <2>3. z \in Nat /\ i \in Nat
    BY <1>5, IdsAre, StorageAssumption
  <2> QED BY <2>2, <2>3
<1>13. Linked(s)
  <2>1. ASSUME NEW n \in Names, s.entries[n].id # NoId
        PROVE  Has(s, n) /\ s.idmap[s.entries[n].id] = n
    BY <1>2, <1>9, <1>11, <2>1 DEF Has
  <2> QED BY <1>2, <1>12, <2>1 DEF Linked
<1>14. Means(f, s)
  BY <1>2, <1>12 DEF Means
<1>15. ASSUME NEW i \in Ids, s.idmap[i] # NoName
       PROVE  LeadsBack(s, i) /\ \E k \in DOMAIN msgs : msgs[k].id = i
  <2>1. im[i] \in known /\ theirs(im[i]).id = i
    BY <1>2, <1>8, <1>15
  <2>2. s.entries[im[i]].id = i /\ s.entries[im[i]].value # NoValue
    BY <1>2, <1>7, <1>11, <2>1
  <2>3. theirs(im[i]) \in ToSet(msgs)
    BY <1>4, <2>1
  <2> QED BY <1>2, <2>1, <2>2, <2>3 DEF LeadsBack, Has, ToSet
<1>16. OnlyTold(s, msgs)
  BY <1>15 DEF OnlyTold
<1> QED BY <1>0, <1>13, <1>14, <1>16

-----------------------------------------------------------------------------
(* What is held, queued and under way agrees with the naming.              *)

Said(f)      == {m \in Posts : Says(f, m)}
HeldOf(S)    == {h \in Held : h.out \in Seq(S)}
SaidHeld(f)  == HeldOf(SaidSends(f))
SaidWires(f) == {w \in Wires : /\ Says(f, w)
                               /\ w.type = "initial" =>
                                    \A k \in DOMAIN w.msgs : Says(f, w.msgs[k])}

Heard(f, c) ==
  /\ pendS[c].msgs \in Seq(Said(f))
  /\ toClient[c] \in Seq(SaidWires(f))
  /\ ClientActive(c) => Means(f, store[c])

Agree(f) ==
  /\ Means(f, store[Server])
  /\ \A i \in Ids : i >= store[Server].size => f[i] = NoName
  /\ hand[Server] \in Seq(SaidHeld(f))
  /\ \A c \in Clients : Heard(f, c)

IdsInv ==
  /\ \A c \in Clients : Linked(store[c])
  /\ \E f \in Namings : Agree(f)

\* The naming of a state, and that a step leads to a state whose naming names more.
Named(f) == f \in Namings /\ Agree(f) /\ \A c \in Clients : Linked(store[c])

\* A naming that names more agrees with all that agreed before.
Extends(g, f) == \A i \in Ids : f[i] # NoName => g[i] = f[i]

Follows(f) == /\ \A c \in Clients : Linked(store[c])'
              /\ \E g \in Namings : Extends(g, f) /\ Agree(g)'

LEMMA SaysMore ==
  ASSUME NEW f \in Namings, NEW g \in Namings, Extends(g, f), NEW m \in Posts, Says(f, m)
  PROVE  Says(g, m)
<1>1. CASE m.type = "assign"
  <2>1. m.name \in Names /\ m.id \in Ids /\ f[m.id] = m.name
    BY <1>1, PostTypes DEF Assigns, Says
  <2>2. g[m.id] = m.name
    BY <2>1, StorageAssumption DEF Extends
  <2> QED BY <2>1, <2>2 DEF Says
<1>2. CASE m.type # "assign"
  BY <1>2 DEF Says
<1> QED BY <1>1, <1>2

LEMMA SeqMore ==
  ASSUME NEW S, NEW T, S \subseteq T
  PROVE  Seq(S) \subseteq Seq(T)
OBVIOUS

LEMMA SaidMore ==
  ASSUME NEW f \in Namings, NEW g \in Namings, Extends(g, f)
  PROVE  /\ Seq(Said(f)) \subseteq Seq(Said(g))
         /\ Seq(SaidSends(f)) \subseteq Seq(SaidSends(g))
         /\ Seq(SaidHeld(f)) \subseteq Seq(SaidHeld(g))
         /\ Seq(SaidWires(f)) \subseteq Seq(SaidWires(g))
<1>1. Said(f) \subseteq Said(g)
  BY SaysMore DEF Said
<1>2. SaidSends(f) \subseteq SaidSends(g)
  <2>1. \A s \in Sends : s.msg \in Posts
    BY DEF Sends, Posts
  <2> QED BY <2>1, SaysMore DEF SaidSends
<1>3. SaidHeld(f) \subseteq SaidHeld(g)
  BY <1>2, SeqMore DEF SaidHeld, HeldOf
<1>4. SaidWires(f) \subseteq SaidWires(g)
  <2>1. SUFFICES ASSUME NEW w \in SaidWires(f) PROVE w \in SaidWires(g)
    OBVIOUS
  <2>2. w \in Wires /\ Says(f, w)
    BY DEF SaidWires
  <2>3. Says(g, w)
    <3>1. CASE w \in Posts
      BY <2>2, <3>1, SaysMore
    <3>2. CASE w \notin Posts
      <4>1. w.type # "assign"
        BY <2>2, <3>2 DEF Wires, Initials, Replies
      <4> QED BY <4>1 DEF Says
    <3> QED BY <3>1, <3>2
  <2>4. ASSUME w.type = "initial", NEW k \in DOMAIN w.msgs PROVE Says(g, w.msgs[k])
    <3>1. w \in Initials
      <4>1. w \notin Posts
        BY <2>4, PostTypes
      <4> QED BY <2>2, <2>4, <4>1 DEF Wires, Replies
    <3>2. w.msgs \in Seq(Answers)
      BY <3>1 DEF Initials
    <3>3. w.msgs[k] \in Posts
      BY <2>4, <3>2 DEF Answers, Posts, Msgs
    <3>4. Says(f, w.msgs[k])
      BY <2>4 DEF SaidWires
    <3> QED BY <3>3, <3>4, SaysMore
  <2> QED BY <2>2, <2>3, <2>4 DEF SaidWires
<1> QED BY <1>1, <1>2, <1>3, <1>4, SeqMore

LEMMA MeansMore ==
  ASSUME NEW f \in Namings, NEW g \in Namings, Extends(g, f), NEW st, Means(f, st)
  PROVE  Means(g, st)
BY DEF Extends, Means

LEMMA HeardMore ==
  ASSUME NEW f \in Namings, NEW g \in Namings, Extends(g, f), NEW c \in Clients, Heard(f, c)
  PROVE  Heard(g, c)
<1>1. pendS[c].msgs \in Seq(Said(g)) /\ toClient[c] \in Seq(SaidWires(g))
  BY SaidMore DEF Heard
<1>2. ClientActive(c) => Means(g, store[c])
  BY MeansMore DEF Heard
<1> QED BY <1>1, <1>2 DEF Heard

\* Queueing merges a message with those that wait, and none of them comes to say
\* anything else.
LEMMA MergeSays ==
  ASSUME NEW f, NEW old \in Said(f), NEW m \in Assigns \cup Updates, Says(f, m)
  PROVE  Q!MergeInto(old, m) \in Said(f)
<1>1. old \in Posts /\ m \in Posts /\ Says(f, old) /\ Q!MergeInto(old, m) \in Posts
  <2>1. m \in Posts
    BY DEF Posts, Msgs
  <2> QED BY <2>1, MergeType DEF Said
<1>2. CASE old.type = "assign" /\ m.type = "update"
  <2>1. old \in Assigns
    BY <1>1, <1>2, PostTypes
  <2>2. PICK x : x = [old EXCEPT !.seq = m.seq, !.value = m.value]
    OBVIOUS
  <2>3. x.type = old.type /\ x.id = old.id /\ x.name = old.name
    BY <2>1, <2>2 DEF Assigns
  <2>4. Says(f, x)
    BY <1>1, <2>3 DEF Says
  <2>5. Q!MergeInto(old, m) = x
    BY <1>2, <2>2 DEF Q!MergeInto
  <2> QED BY <1>1, <2>4, <2>5 DEF Said
<1>3. CASE ~(old.type = "assign" /\ m.type = "update")
  <2>1. Q!MergeInto(old, m) = m
    BY <1>3 DEF Q!MergeInto
  <2> QED BY <1>1, <2>1 DEF Said
<1> QED BY <1>2, <1>3

LEMMA NoneSays == \A f : Q!None \in Said(f)
BY DEF Said, Says, Posts, Q!None

\* What waits stays within a set of messages that merging does not leave.
LEMMA QueueWithinAt ==
  ASSUME NEW S, Q!None \in S, NEW p \in Pending, p.msgs \in Seq(S), NEW m \in Msgs, m \in S,
         m \in Assigns \cup Updates /\ m.id \in Ids =>
           \A k \in DOMAIN p.msgs : k = p.value[m.id] => Q!MergeInto(p.msgs[k], m) \in S
  PROVE  Q!QueueOutgoing(p, m).msgs \in Seq(S)
<1>0. m \in Posts
  BY DEF Posts
<1>2. p.msgs \in Seq(S) /\ m \in S /\ Q!None \in S
      /\ p.value \in [Ids -> Nat] /\ p.flags \in [Ids -> Nat]
  BY DEF Pending
<1>3. Q!Push(p, m).msgs \in Seq(S)
  <2>1. Q!Push(p, m) = [p EXCEPT !.msgs = Append(p.msgs, m)]
    BY DEF Q!Push, Pending
  <2>2. Append(p.msgs, m) \in Seq(S)
    BY <1>2
  <2> QED BY <2>1, <2>2 DEF Pending
<1>4. CASE m \in Assigns \cup Updates
  <2>1. m.type \in {"assign", "update"} /\ m.id \in NewIds
    BY <1>0, <1>4 DEF Assigns, Updates
  <2>2. CASE m.id = NoId
    <3>1. Q!QueueOutgoing(p, m) = Q!Push(p, m)
      BY <2>1, <2>2 DEF Q!QueueOutgoing, Q!EntryMessages
    <3> QED BY <1>3, <3>1
  <2>3. CASE m.id # NoId
    <3>0. m.id \in Ids
      BY <2>1, <2>3 DEF NewIds
    <3>1. Q!QueueOutgoing(p, m) = Q!QueueValue(p, m)
      BY <2>1, <2>3 DEF Q!QueueOutgoing, Q!EntryMessages
    <3>2. CASE p.value[m.id] # 0
      <4>1. PICK i \in Nat : i = p.value[m.id]
        BY <1>2, <3>0
      <4>2. PICK x : x = Q!MergeInto(p.msgs[i], m)
        OBVIOUS
      <4>3. i \in DOMAIN p.msgs => x \in S
        BY <1>2, <1>4, <3>0, <4>1, <4>2
      <4>4. [p.msgs EXCEPT ![i] = x] \in Seq(S)
        BY <1>2, <4>3, SeqExcept
      <4>5. Q!QueueValue(p, m) = [p EXCEPT !.msgs = [p.msgs EXCEPT ![i] = x]]
        BY <3>2, <4>1, <4>2 DEF Q!QueueValue, Pending
      <4> QED BY <3>1, <4>4, <4>5 DEF Pending
    <3>3. CASE p.value[m.id] = 0
      <4>1. PICK q : q = Q!Push(p, m)
        OBVIOUS
      <4>2. q \in Pending
        BY <1>0, <4>1, PushPending
      <4>3. Q!QueueValue(p, m) = [q EXCEPT !.value = [q.value EXCEPT ![m.id] = Len(p.msgs) + 1]]
        BY <3>3, <4>1, <4>2 DEF Q!QueueValue, Pending
      <4> QED BY <1>3, <3>1, <4>1, <4>2, <4>3 DEF Pending
    <3> QED BY <3>2, <3>3
  <2> QED BY <2>2, <2>3
<1>5. CASE m \in FlagMsgs
  <2>1. m.type = "flags" /\ m.id # NoId /\ m.id \in Ids
    BY <1>5, IdsAre DEF FlagMsgs
  <2>2. Q!QueueOutgoing(p, m) = Q!QueueFlags(p, m)
    BY <2>1 DEF Q!QueueOutgoing, Q!EntryMessages
  <2>3. CASE p.flags[m.id] # 0
    <3>1. PICK i \in Nat : i = p.flags[m.id]
      BY <1>2, <2>1
    <3>2. [p.msgs EXCEPT ![i] = m] \in Seq(S)
      BY <1>2, SeqExcept
    <3>3. Q!QueueFlags(p, m) = [p EXCEPT !.msgs = [p.msgs EXCEPT ![i] = m]]
      BY <2>3, <3>1 DEF Q!QueueFlags, Pending
    <3> QED BY <2>2, <3>2, <3>3 DEF Pending
  <2>4. CASE p.flags[m.id] = 0
    <3>1. PICK q : q = Q!Push(p, m)
      OBVIOUS
    <3>2. q \in Pending
      BY <1>0, <3>1, PushPending
    <3>3. Q!QueueFlags(p, m) = [q EXCEPT !.flags = [q.flags EXCEPT ![m.id] = Len(p.msgs) + 1]]
      BY <2>4, <3>1, <3>2 DEF Q!QueueFlags, Pending
    <3> QED BY <1>3, <2>2, <3>1, <3>2, <3>3 DEF Pending
  <2> QED BY <2>3, <2>4
<1>6. CASE m \in Deletes
  <2> DEFINE gone == {p.value[m.id], p.flags[m.id]}
             kept == [k \in DOMAIN p.msgs |-> IF k \in gone THEN Q!None ELSE p.msgs[k]]
  <2>1. m.type = "delete" /\ m.id # NoId
    BY <1>6, IdsAre DEF Deletes
  <2>2. Q!QueueOutgoing(p, m) = Q!QueueDelete(p, m)
    BY <2>1 DEF Q!QueueOutgoing, Q!EntryMessages
  <2>3. kept \in Seq(S)
    <3> HIDE DEF gone
    <3>1. DOMAIN p.msgs = 1 .. Len(p.msgs) /\ Len(p.msgs) \in Nat
      BY <1>2
    <3>2. kept \in [1 .. Len(p.msgs) -> S]
      BY <1>2, <3>1
    <3> QED BY <3>1, <3>2
  <2>4. Q!QueueDelete(p, m).msgs = Append(kept, m)
    BY DEF Q!QueueDelete
  <2> HIDE DEF kept
  <2>5. Append(kept, m) \in Seq(S)
    BY <1>2, <2>3
  <2> QED BY <2>2, <2>4, <2>5
<1>7. CASE m \in Clears
  <2> DEFINE kept == [k \in DOMAIN p.msgs |->
                        IF p.msgs[k].type \in Q!EntryMessages THEN Q!None ELSE p.msgs[k]]
  <2>1. m.type = "clear"
    BY <1>7 DEF Clears
  <2>2. Q!QueueOutgoing(p, m) = Q!QueueClear(p, m)
    BY <2>1 DEF Q!QueueOutgoing, Q!EntryMessages
  <2>3. kept \in Seq(S)
    <3>1. DOMAIN p.msgs = 1 .. Len(p.msgs) /\ Len(p.msgs) \in Nat
      BY <1>2
    <3>2. kept \in [1 .. Len(p.msgs) -> S]
      BY <1>2, <3>1
    <3> QED BY <3>1, <3>2
  <2>4. Q!QueueClear(p, m) = [Q!NoPending EXCEPT !.msgs = Append(kept, m)]
    BY DEF Q!QueueClear
  <2> HIDE DEF kept
  <2>5. Append(kept, m) \in Seq(S)
    BY <1>2, <2>3
  <2> QED BY <2>2, <2>4, <2>5, NothingPends DEF Pending
<1> QED BY <1>4, <1>5, <1>6, <1>7 DEF Msgs

LEMMA QueueWithin ==
  ASSUME NEW S, Q!None \in S, NEW p \in Pending, p.msgs \in Seq(S), NEW m \in Msgs, m \in S,
         m \in Assigns \cup Updates => \A old \in S : Q!MergeInto(old, m) \in S
  PROVE  Q!QueueOutgoing(p, m).msgs \in Seq(S)
<1>1. \A k \in DOMAIN p.msgs : p.msgs[k] \in S
  OBVIOUS
<1> QED BY <1>1, QueueWithinAt

LEMMA QueueSays ==
  ASSUME NEW f, NEW p \in Pending, p.msgs \in Seq(Said(f)), NEW m \in Msgs, Says(f, m)
  PROVE  Q!QueueOutgoing(p, m).msgs \in Seq(Said(f))
<1>1. m \in Said(f) /\ Q!None \in Said(f)
  BY NoneSays DEF Posts, Said
<1>2. m \in Assigns \cup Updates => \A old \in Said(f) : Q!MergeInto(old, m) \in Said(f)
  BY MergeSays
<1> QED BY <1>1, <1>2, QueueWithin

\* A thread that has queued a message holds no other ones.
LEMMA WithoutFirstWithin ==
  ASSUME NEW S, S \subseteq Sends, NEW held \in Seq(HeldOf(S)), NEW k \in 1 .. Len(held)
  PROVE  WithoutFirst(held, k) \in Seq(HeldOf(S))
<1>1. PICK h \in HeldOf(S) : h = held[k]
  OBVIOUS
<1>2. h \in Held /\ h.out \in Seq(S)
  BY DEF HeldOf
<1>3. CASE Len(h.out) > 1
  <2>1. PICK o \in Seq(S) : o = h.out
    BY <1>2
  <2>a. Len(o) > 1 /\ Len(o) \in Nat /\ o # <<>>
    BY <1>3, <2>1, EmptySeq
  <2>b. PICK u \in Seq(S) : u = Tail(o)
    BY <2>a, HeadTailProperties
  <2>c. Len(u) = Len(o) - 1
    BY <2>a, <2>b, HeadTailProperties
  <2>2. u # <<>>
    BY <2>a, <2>c, EmptySeq
  <2>3. PICK g : g = [h EXCEPT !.out = u]
    OBVIOUS
  <2>4. g \in Held /\ g.out = u
    <3>1. u \in Seq(Sends) \ {<<>>}
      BY <2>2, SeqMore
    <3> QED BY <1>2, <2>3, <3>1 DEF Held
  <2>5. g \in HeldOf(S)
    BY <2>4 DEF HeldOf
  <2>6. WithoutFirst(held, k) = [held EXCEPT ![k] = g]
    BY <1>1, <1>3, <2>1, <2>b, <2>3 DEF WithoutFirst
  <2> QED BY <2>5, <2>6, SeqExcept
<1>4. CASE ~(Len(h.out) > 1)
  <2>1. WithoutFirst(held, k) = SubSeq(held, 1, k - 1) \o SubSeq(held, k + 1, Len(held))
    BY <1>1, <1>4 DEF WithoutFirst
  <2>2. SubSeq(held, 1, k - 1) \in Seq(HeldOf(S)) /\ SubSeq(held, k + 1, Len(held)) \in Seq(HeldOf(S))
    OBVIOUS
  <2> QED BY <2>1, <2>2, Concat
<1> QED BY <1>3, <1>4

LEMMA WithoutFirstSays ==
  ASSUME NEW f, NEW held \in Seq(SaidHeld(f)), NEW k \in 1 .. Len(held)
  PROVE  WithoutFirst(held, k) \in Seq(SaidHeld(f))
BY WithoutFirstWithin DEF SaidHeld, SaidSends

-----------------------------------------------------------------------------
(* The steps of the system and the naming.                                 *)

\* A thread's pass concerns its node alone.
LEMMA PassAt ==
  ASSUME NodeInv, NEW x \in Nodes, NEW t, NEW conn, NEW r, Pass(x, t, conn, r)
  PROVE  /\ store'[x] = r.st
         /\ \A y \in Nodes : y # x => store'[y] = store[y] /\ hand'[y] = hand[y]
<1>1. store \in [Nodes -> Store] /\ hand \in [Nodes -> Seq(Held)]
  BY DEF NodeInv
<1>2. store' = [store EXCEPT ![x] = r.st]
  BY DEF Pass
<1>3. ASSUME NEW y \in Nodes, y # x PROVE hand'[y] = hand[y]
  <2>1. CASE r.out = <<>>
    BY <2>1 DEF Pass
  <2>2. CASE r.out # <<>>
    <3>1. PICK u : hand' = [hand EXCEPT ![x] = u]
      BY <2>2 DEF Pass
    <3> QED BY <1>1, <1>3, <3>1
  <2> QED BY <2>1, <2>2
<1> QED BY <1>1, <1>2, <1>3

\* The server gives out new ids: the naming names more.
LEMMA ServerPassIds ==
  ASSUME TablesInv, NEW f, Named(f), NEW t \in Threads, NEW conn \in Conns,
         NEW r, Outcome(store[Server], r), Traced(store[Server], r),
         Pass(Server, t, conn, r), UNCHANGED <<pendS, toClient, link>>
  PROVE  Follows(f)
<1>0. NodeInv /\ Server \in Nodes /\ Clients \subseteq Nodes /\ Server \notin Clients
  BY ServerIsNode DEF TablesInv
<1>1. PICK st \in Store : st = store[Server] /\ IsServer(st)
  BY <1>0 DEF NodeInv
<1>2. PICK s \in Store : s = r.st
  BY DEF Outcome, Good
<1>3. f \in Namings /\ Agree(f)
  BY DEF Named, Follows, Extends
<1>4. PICK g : g = [i \in Ids |-> IF i < st.size THEN f[i] ELSE s.idmap[i]]
  OBVIOUS
<1>5. /\ s.idmap \in Namings /\ st.size \in Nat /\ s.size \in Nat /\ st.size <= s.size
      /\ \A i \in Ids : s.idmap[i] # NoName =>
           i < s.size /\ (s.idmap[i] = st.idmap[i] \/ i >= st.size)
  BY <1>1, <1>2, StorageAssumption DEF Traced, OldIds, Linked, Store, Namings
<1>6. g \in Namings /\ \A i \in Ids : g[i] = IF i < st.size THEN f[i] ELSE s.idmap[i]
  BY <1>3, <1>4, <1>5 DEF Namings
<1>7. \A i \in Ids : f[i] # NoName => i < st.size
  BY <1>1, <1>3, <1>5, IdsAre DEF Agree
<1>8. \A i \in Ids : st.idmap[i] # NoName => f[i] = st.idmap[i]
  BY <1>1, <1>3 DEF Agree, Means
<1>9. Extends(g, f)
  BY <1>6, <1>7 DEF Extends
<1>10. Means(g, s) /\ Extends(g, s.idmap)
  BY <1>5, <1>6, <1>8, IdsAre DEF Means, Extends
<1>11. \A i \in Ids : i >= s.size => g[i] = NoName
  <2>1. SUFFICES ASSUME NEW i \in Ids, i >= s.size PROVE g[i] = NoName
    OBVIOUS
  <2>2. i \in Nat /\ ~(i < st.size) /\ ~(i < s.size)
    BY <1>5, <2>1, IdsAre
  <2> QED BY <1>5, <1>6, <2>2
<1>12. /\ store'[Server] = s
       /\ \A c \in Clients : store'[c] = store[c]
  BY <1>0, <1>2, PassAt
<1>13. hand'[Server] \in Seq(SaidHeld(g))
  <2>1. hand[Server] \in Seq(SaidHeld(g)) /\ hand \in [Nodes -> Seq(Held)]
    BY <1>0, <1>3, <1>6, <1>9, SaidMore DEF Agree, NodeInv
  <2>2. CASE r.out = <<>>
    BY <2>1, <2>2 DEF Pass
  <2>3. CASE r.out # <<>>
    <3>1. PICK h : h = [thread |-> t, conn |-> conn, out |-> r.out]
      OBVIOUS
    <3>2. r.out \in Seq(SaidSends(g)) /\ r.out \in Seq(Sends)
      BY <1>1, <1>2, <1>5, <1>6, <1>10, SaidMore DEF Traced, Outcome
    <3>3. h \in SaidHeld(g)
      BY <2>3, <3>1, <3>2 DEF SaidHeld, HeldOf, Held
    <3>4. hand' = [hand EXCEPT ![Server] = Append(hand[Server], h)]
      BY <2>3, <3>1 DEF Pass
    <3> QED BY <1>0, <2>1, <3>3, <3>4
  <2> QED BY <2>2, <2>3
<1>14. ASSUME NEW c \in Clients PROVE Heard(g, c)'
  <2>1. Heard(g, c)
    BY <1>3, <1>6, <1>9, HeardMore DEF Agree
  <2> QED BY <1>12, <2>1 DEF Heard, ClientActive
<1>15. Agree(g)'
  BY <1>10, <1>11, <1>12, <1>13, <1>14 DEF Agree
<1> QED BY <1>6, <1>9, <1>12, <1>15 DEF Named, Follows

\* What happens at one client leaves the naming as it is.
LEMMA ClientStepIds ==
  ASSUME NEW f \in Namings, Agree(f), \A d \in Clients : Linked(store[d]),
         NEW c \in Clients, Linked(store[c])', Heard(f, c)',
         store'[Server] = store[Server], hand'[Server] = hand[Server],
         \A d \in Clients \ {c} :
           /\ store'[d] = store[d] /\ pendS'[d] = pendS[d]
           /\ toClient'[d] = toClient[d] /\ link'[d] = link[d]
  PROVE  Follows(f)
<1>1. ASSUME NEW d \in Clients PROVE Heard(f, d)' /\ Linked(store[d])'
  <2>1. CASE d = c
    BY <2>1
  <2>2. CASE d # c
    <3>1. store'[d] = store[d] /\ pendS'[d] = pendS[d] /\ toClient'[d] = toClient[d] /\ link'[d] = link[d]
      BY <2>2
    <3>2. Heard(f, d) /\ Linked(store[d])
      BY DEF Agree
    <3> QED BY <3>1, <3>2 DEF Heard, ClientActive
  <2> QED BY <2>1, <2>2
<1>2. Agree(f)'
  BY <1>1 DEF Agree
<1> QED BY <1>1, <1>2 DEF Named, Follows, Extends

\* A step that concerns neither storages nor what the server says.
LEMMA SameIds ==
  ASSUME NEW f, Named(f), UNCHANGED <<store, pendS, toClient, link>>, hand'[Server] = hand[Server]
  PROVE  Follows(f)
<1>1. f \in Namings /\ Agree(f)
  BY DEF Named, Follows, Extends
<1>2. \A c \in Clients : Heard(f, c)'
  BY <1>1 DEF Agree, Heard, ClientActive
<1>3. Agree(f)'
  BY <1>1, <1>2 DEF Agree
<1> QED BY <1>3 DEF Named, Follows, Extends

\* A client's pass that adds no id to its id map.
LEMMA ClientPassIds ==
  ASSUME TablesInv, NEW f, Named(f), NEW c \in Clients, NEW t, NEW conn,
         NEW r, Traced(store[c], r), Pass(c, t, conn, r), UNCHANGED <<pendS, toClient, link>>
  PROVE  Follows(f)
<1>0. NodeInv /\ c \in Nodes /\ Server \in Nodes /\ Server # c /\ Clients \subseteq Nodes
  BY ServerIsNode DEF TablesInv
<1>1. f \in Namings /\ Agree(f)
  BY DEF Named, Follows, Extends
<1>2. /\ store'[c] = r.st
      /\ \A y \in Nodes : y # c => store'[y] = store[y] /\ hand'[y] = hand[y]
  BY <1>0, PassAt
<1>3. ~IsServer(store[c])
  BY <1>0 DEF NodeInv
<1>4. Linked(r.st) /\ (Means(f, store[c]) => Means(f, r.st))
  BY <1>3 DEF Traced, OldIds, Means
<1>5. Heard(f, c)'
  BY <1>1, <1>2, <1>4 DEF Agree, Heard, ClientActive
<1>6. Linked(store[c])'
  BY <1>2, <1>4
<1> QED BY <1>0, <1>1, <1>2, <1>5, <1>6, ClientStepIds DEF Named, Follows, Extends

\* The programs of either kind of node.
LEMMA UserPassIds ==
  ASSUME TablesInv, NEW f, Named(f), NEW x \in Nodes, NEW r,
         Outcome(store[x], r), Traced(store[x], r), Pass(x, User, "none", r),
         UNCHANGED <<pendS, toClient, link>>
  PROVE  Follows(f)
<1>1. User \in Threads /\ "none" \in Conns
  BY DEF Threads, Conns
<1>2. CASE x = Server
  BY <1>1, <1>2, ServerPassIds
<1>3. CASE x # Server
  <2>1. x \in Clients
    BY <1>3 DEF Nodes
  <2> QED BY <2>1, ClientPassIds
<1> QED BY <1>2, <1>3

LEMMA NodeLinked ==
  ASSUME TablesInv, NEW f, Named(f), NEW x \in Nodes
  PROVE  Good(store[x]) /\ Linked(store[x])
<1>1. Good(store[x]) /\ (IsServer(store[x]) <=> x = Server)
  BY DEF TablesInv, NodeInv
<1>2. CASE x = Server
  BY <1>1, <1>2, ServerLinked
<1>3. CASE x # Server
  BY <1>1, <1>3 DEF Named, Follows, Nodes
<1> QED BY <1>1, <1>2, <1>3

LEMMA ChangeIds ==
  ASSUME TablesInv, NEW f, Named(f), NEW x \in Nodes, Change(x)
  PROVE  Follows(f)
<1>1. HasRoom(store[Server]) /\ NodeInv /\ UNCHANGED <<pendS, toClient, link>>
  BY DEF Change, TablesInv, net
<1>2. Good(store[x]) /\ Linked(store[x]) /\ (HasRoom(store[x]) \/ ~IsServer(store[x]))
  BY <1>1, RoomFor, NodeLinked
<1>3. PICK n \in Names :
        \/ \E v \in Writes[n] :
             \/ Pass(x, User, "none", SetDefaultEntryValue(store[x], n, v))
             \/ Pass(x, User, "none", SetEntryValue(store[x], n, v))
             \/ Pass(x, User, "none", SetEntryTypeValue(store[x], n, v))
        \/ Pass(x, User, "none", DeleteEntry(store[x], n))
  BY DEF Change
<1>4. ASSUME NEW v \in Writes[n], Pass(x, User, "none", SetDefaultEntryValue(store[x], n, v))
      PROVE  Follows(f)
  <2>1. v \in Values
    BY TablesAssumption
  <2>2. Outcome(store[x], SetDefaultEntryValue(store[x], n, v))
    BY <1>2, <2>1, DefaultOutcome
  <2>3. Traced(store[x], SetDefaultEntryValue(store[x], n, v))
    BY <1>2, <2>1, DefaultIds
  <2> QED BY <1>1, <1>4, <2>2, <2>3, UserPassIds
<1>5. ASSUME NEW v \in Writes[n], Pass(x, User, "none", SetEntryValue(store[x], n, v))
      PROVE  Follows(f)
  <2>1. v \in Values
    BY TablesAssumption
  <2>2. Outcome(store[x], SetEntryValue(store[x], n, v))
    BY <1>2, <2>1, ValueOutcome
  <2>3. Traced(store[x], SetEntryValue(store[x], n, v))
    BY <1>2, <2>1, SetValueIds
  <2> QED BY <1>1, <1>5, <2>2, <2>3, UserPassIds
<1>6. ASSUME NEW v \in Writes[n], Pass(x, User, "none", SetEntryTypeValue(store[x], n, v))
      PROVE  Follows(f)
  <2>1. v \in Values
    BY TablesAssumption
  <2>2. Outcome(store[x], SetEntryTypeValue(store[x], n, v))
    BY <1>2, <2>1, TypeValueOutcome
  <2>3. Traced(store[x], SetEntryTypeValue(store[x], n, v))
    BY <1>2, <2>1, SetTypeValueIds
  <2> QED BY <1>1, <1>6, <2>2, <2>3, UserPassIds
<1>7. ASSUME Pass(x, User, "none", DeleteEntry(store[x], n))
      PROVE  Follows(f)
  <2>1. Outcome(store[x], DeleteEntry(store[x], n)) /\ Traced(store[x], DeleteEntry(store[x], n))
    BY <1>2, DeleteOutcome, DeleteIds
  <2> QED BY <1>1, <1>7, <2>1, UserPassIds
<1> QED BY <1>3, <1>4, <1>5, <1>6, <1>7

LEMMA ChangeFlagsIds ==
  ASSUME TablesInv, NEW f, Named(f), NEW x \in Nodes, ChangeFlags(x)
  PROVE  Follows(f)
<1>1. PICK n \in Names, b \in {0, 1} : Pass(x, User, "none", SetEntryFlags(store[x], n, b))
  BY DEF ChangeFlags
<1>2. Outcome(store[x], SetEntryFlags(store[x], n, b)) /\ Traced(store[x], SetEntryFlags(store[x], n, b))
  BY NodeLinked, FlagsOutcome, SetFlagsIds
<1>3. UNCHANGED <<pendS, toClient, link>>
  BY DEF ChangeFlags, net
<1> QED BY <1>1, <1>2, <1>3, UserPassIds

LEMMA ClearIds ==
  ASSUME TablesInv, NEW f, Named(f), NEW x \in Nodes, Clear(x)
  PROVE  Follows(f)
<1>1. Outcome(store[x], DeleteAllEntries(store[x])) /\ Traced(store[x], DeleteAllEntries(store[x]))
  BY NodeLinked, AllOutcome, DeleteAllIds
<1>2. Pass(x, User, "none", DeleteAllEntries(store[x])) /\ UNCHANGED <<pendS, toClient, link>>
  BY DEF Clear, net
<1> QED BY <1>1, <1>2, UserPassIds

\* The server's messages reach the queues of the clients as they are.
LEMMA QueueIds ==
  ASSUME TablesInv, NEW f, Named(f), NEW x \in Nodes, NEW k \in DOMAIN hand[x], Queue(x, k)
  PROVE  Follows(f)
<1>0. NodeInv /\ NetInv /\ hand \in [Nodes -> Seq(Held)] /\ Server \in Nodes
  BY ServerIsNode DEF TablesInv, NodeInv
<1>1. f \in Namings /\ Agree(f)
  BY DEF Named, Follows, Extends
<1>2. /\ hand' = [hand EXCEPT ![x] = WithoutFirst(hand[x], k)]
      /\ QueueAt(x, hand[x][k]) /\ UNCHANGED <<store, toClient, link>>
  BY DEF Queue
<1>3. CASE x # Server
  <2>1. UNCHANGED pendS
    BY <1>2, <1>3 DEF QueueAt
  <2>2. hand'[Server] = hand[Server]
    BY <1>0, <1>2, <1>3
  <2> QED BY <1>2, <2>1, <2>2, SameIds
<1>4. CASE x = Server
  <2>1. PICK held \in Seq(SaidHeld(f)) : held = hand[Server]
    BY <1>1 DEF Agree
  <2>2. k \in 1 .. Len(held)
    BY <1>4, <2>1
  <2>3. PICK h \in SaidHeld(f) : h = held[k]
    BY <2>1, <2>2
  <2>4. hand'[Server] \in Seq(SaidHeld(f))
    <3>1. WithoutFirst(held, k) \in Seq(SaidHeld(f))
      BY <2>2, WithoutFirstSays
    <3> QED BY <1>0, <1>2, <1>4, <2>1, <3>1
  <2>5. PICK s \in SaidSends(f) : s = Head(h.out)
    <3>1. PICK o \in Seq(SaidSends(f)) : o = h.out /\ o # <<>>
      BY DEF SaidHeld, HeldOf, Held
    <3>2. Head(o) \in SaidSends(f)
      BY <3>1, HeadTailProperties
    <3> QED BY <3>1, <3>2
  <2>6. PICK m \in Msgs : m = s.msg /\ Says(f, m)
    BY DEF SaidSends, Sends
  <2>7. pendS' = [c \in Clients |->
                    IF Synchronized(c) /\ ~(s.forward /\ h.conn = c)
                    THEN Q!QueueOutgoing(pendS[c], m) ELSE pendS[c]]
    BY <1>2, <1>4, <2>1, <2>3, <2>5, <2>6 DEF QueueAt
  <2>8. ASSUME NEW c \in Clients PROVE Heard(f, c)'
    <3>1. Heard(f, c) /\ pendS[c] \in Pending
      BY <1>0, <1>1 DEF Agree, NetInv
    <3>2. Q!QueueOutgoing(pendS[c], m).msgs \in Seq(Said(f))
      BY <2>6, <3>1, QueueSays DEF Heard
    <3>3. pendS'[c].msgs \in Seq(Said(f))
      BY <2>7, <3>1, <3>2 DEF Heard
    <3> QED BY <1>2, <3>1, <3>3 DEF Heard, ClientActive
  <2>9. Agree(f)'
    BY <1>1, <1>2, <2>4, <2>8 DEF Agree
  <2> QED BY <1>2, <2>9 DEF Named, Follows, Extends
<1> QED BY <1>3, <1>4

LEMMA SaidIsWire == ASSUME NEW f PROVE Said(f) \subseteq SaidWires(f)
<1>1. ASSUME NEW m \in Said(f) PROVE m \in SaidWires(f)
  <2>1. m \in Posts /\ Says(f, m) /\ m.type # "initial"
    BY PostTypes DEF Said
  <2> QED BY <2>1 DEF SaidWires, Wires
<1> QED BY <1>1

LEMMA ServerPostsIds ==
  ASSUME TablesInv, NEW f, Named(f), NEW c \in Clients, ServerPosts(c)
  PROVE  Follows(f)
<1>0. NetInv /\ toClient \in [Clients -> Seq(Wires)] /\ pendS \in [Clients -> Pending]
  BY DEF TablesInv, NetInv
<1>1. f \in Namings /\ Agree(f)
  BY DEF Named, Follows, Extends
<1>2. /\ toClient' = [toClient EXCEPT ![c] = toClient[c] \o pendS[c].msgs]
      /\ pendS' = [pendS EXCEPT ![c] = Q!NoPending]
      /\ UNCHANGED <<store, hand, link>>
  BY DEF ServerPosts, Q!Posted
<1>3. pendS[c].msgs \in Seq(SaidWires(f)) /\ toClient[c] \in Seq(SaidWires(f))
  BY <1>1, SaidIsWire, SeqMore DEF Agree, Heard
<1>4. toClient'[c] \in Seq(SaidWires(f))
  <2>1. toClient[c] \o pendS[c].msgs \in Seq(SaidWires(f))
    BY <1>3, Concat
  <2> QED BY <1>0, <1>2, <2>1
<1>5. pendS'[c].msgs \in Seq(Said(f))
  BY <1>0, <1>2, NothingPends, EmptySeq
<1>6. Heard(f, c)'
  BY <1>1, <1>2, <1>4, <1>5 DEF Agree, Heard, ClientActive
<1>7. \A d \in Clients \ {c} : pendS'[d] = pendS[d] /\ toClient'[d] = toClient[d]
  BY <1>0, <1>2
<1>8. \A d \in Clients : Linked(store[d])
  BY DEF Named, Follows, Extends
<1>9. Linked(store[c])'
  BY <1>2, <1>8
<1> QED BY <1>1, <1>2, <1>6, <1>7, <1>8, <1>9, ClientStepIds

LEMMA ConnectIds ==
  ASSUME TablesInv, NEW f, Named(f), NEW c \in Clients, Connect(c)
  PROVE  Follows(f)
<1>0. link \in [Clients -> {"down", "hello", "sent", "applied", "up"}]
  BY DEF TablesInv, NetInv
<1>1. f \in Namings /\ Agree(f)
  BY DEF Named, Follows, Extends
<1>2. link' = [link EXCEPT ![c] = "hello"] /\ UNCHANGED <<store, hand, pendS, toClient>>
  BY DEF Connect
<1>3. link'[c] = "hello" /\ \A d \in Clients \ {c} : link'[d] = link[d]
  BY <1>0, <1>2
<1>4. Heard(f, c)'
  BY <1>1, <1>2, <1>3 DEF Agree, Heard, ClientActive
<1>5. \A d \in Clients : Linked(store[d])
  BY DEF Named, Follows, Extends
<1>6. Linked(store[c])'
  BY <1>2, <1>5
<1> QED BY <1>1, <1>2, <1>3, <1>4, <1>5, <1>6, ClientStepIds

\* The snapshot tells the ids the server has, which the naming has too.
LEMMA SendInitialIds ==
  ASSUME TablesInv, NEW f, Named(f), NEW c \in Clients, SendInitial(c)
  PROVE  Follows(f)
<1>0. /\ NodeInv /\ toClient \in [Clients -> Seq(Wires)] /\ Server \in Nodes
      /\ link \in [Clients -> {"down", "hello", "sent", "applied", "up"}]
  BY ServerIsNode DEF TablesInv, NetInv
<1>1. f \in Namings /\ Agree(f)
  BY DEF Named, Follows, Extends
<1>2. Good(store[Server]) /\ IsServer(store[Server])
  BY <1>0 DEF NodeInv
<1>3. PICK msgs \in Seq(Answers) : msgs = GetInitialAssignments(store[Server])
  BY <1>2, InitialFacts
<1>4. ASSUME NEW k \in DOMAIN msgs PROVE Says(f, msgs[k])
  <2>1. PICK m \in Answers : m = msgs[k]
    OBVIOUS
  <2>2. m \in Posts
    BY DEF Answers, Posts, Msgs
  <2>3. Says(store[Server].idmap, m)
    BY <1>2, <1>3, <2>1, InitialSays
  <2>4. store[Server].idmap \in Namings
    BY <1>2 DEF Good, Store, Namings
  <2>5. Extends(f, store[Server].idmap)
    BY <1>1 DEF Agree, Means, Extends
  <2> QED BY <1>1, <2>1, <2>2, <2>3, <2>4, <2>5, SaysMore
<1>5. PICK w : w = Initial(msgs)
  OBVIOUS
<1>6. w \in SaidWires(f)
  <2>1. w.type = "initial" /\ w.msgs = msgs /\ w \in Initials
    BY <1>5 DEF Initial, Initials
  <2> QED BY <1>4, <2>1 DEF SaidWires, Wires, Says
<1>7. /\ link' = [link EXCEPT ![c] = "sent"]
      /\ toClient' = [toClient EXCEPT ![c] = <<w>>]
      /\ UNCHANGED <<store, hand, pendS>>
  BY <1>3, <1>5 DEF SendInitial
<1>8. PICK s \in Seq(SaidWires(f)) : s = <<w>>
  BY <1>6, OneMessage
<1>9. /\ link'[c] = "sent" /\ toClient'[c] = s
      /\ \A d \in Clients \ {c} : link'[d] = link[d] /\ toClient'[d] = toClient[d]
  BY <1>0, <1>7, <1>8
<1>10. Heard(f, c)'
  BY <1>1, <1>7, <1>9 DEF Agree, Heard, ClientActive
<1>11. \A d \in Clients : Linked(store[d])
  BY DEF Named, Follows, Extends
<1>12. Linked(store[c])'
  BY <1>7, <1>11
<1> QED BY <1>1, <1>7, <1>9, <1>10, <1>11, <1>12, ClientStepIds

\* A client that joins takes its ids from the snapshot alone.
LEMMA ApplyInitialIds ==
  ASSUME TablesInv, NEW f, Named(f), NEW c \in Clients, ApplyInitial(c)
  PROVE  Follows(f)
<1>0. /\ NodeInv /\ NetInv /\ toClient \in [Clients -> Seq(Wires)]
      /\ link \in [Clients -> {"down", "hello", "sent", "applied", "up"}]
      /\ c \in Nodes /\ c # Server /\ link[c] = "sent" /\ Server \in Nodes /\ Clients \subseteq Nodes
  BY ServerIsNode DEF TablesInv, NetInv, ApplyInitial
<1>1. f \in Namings /\ Agree(f)
  BY DEF Named, Follows, Extends
<1>2. Head(toClient[c]) \in Initials /\ Tail(toClient[c]) = <<>> /\ toClient[c] # <<>>
  BY <1>0 DEF NetInv, StreamsAgree
<1>3. PICK w \in Initials : w = Head(toClient[c])
  BY <1>2
<1>4. w \in SaidWires(f)
  <2>1. PICK s \in Seq(SaidWires(f)) : s = toClient[c] /\ s # <<>>
    BY <1>1, <1>2 DEF Agree, Heard
  <2>2. Head(s) \in SaidWires(f)
    BY <2>1, HeadTailProperties
  <2> QED BY <1>3, <2>1, <2>2
<1>5. PICK msgs \in Seq(Answers) : msgs = w.msgs
  BY DEF Initials
<1>6. \A k \in DOMAIN msgs : Says(f, msgs[k])
  BY <1>4, <1>5 DEF SaidWires, Initials
<1>7. PICK r : r = ApplyInitialAssignments(store[c], msgs, NewServer)
  OBVIOUS
<1>8. Linked(r.st) /\ Means(f, r.st)
  <2>1. Good(store[c]) /\ ~IsServer(store[c])
    BY <1>0 DEF NodeInv
  <2> QED BY <1>6, <1>7, <2>1, ApplyIds DEF NewServer
<1>9. /\ Pass(c, "reader", "none", r)
      /\ link' = [link EXCEPT ![c] = "applied"]
      /\ toClient' = [toClient EXCEPT ![c] = <<>>]
      /\ UNCHANGED pendS
  BY <1>2, <1>3, <1>5, <1>7 DEF ApplyInitial
<1>10. /\ store'[c] = r.st
       /\ \A y \in Nodes : y # c => store'[y] = store[y] /\ hand'[y] = hand[y]
  BY <1>0, <1>9, PassAt
<1>11. /\ link'[c] = "applied" /\ toClient'[c] = <<>>
       /\ \A d \in Clients \ {c} : link'[d] = link[d] /\ toClient'[d] = toClient[d]
  BY <1>0, <1>9
<1>12. Heard(f, c)'
  <2>1. toClient'[c] \in Seq(SaidWires(f))
    BY <1>11, EmptySeq
  <2>2. pendS'[c].msgs \in Seq(Said(f))
    BY <1>1, <1>9 DEF Agree, Heard
  <2>3. Means(f, store'[c])
    BY <1>8, <1>10
  <2> QED BY <2>1, <2>2, <2>3 DEF Heard
<1>13. \A d \in Clients : Linked(store[d])
  BY DEF Named, Follows, Extends
<1>14. Linked(store[c])'
  BY <1>8, <1>10
<1> QED BY <1>0, <1>1, <1>9, <1>10, <1>11, <1>12, <1>13, <1>14, ClientStepIds

\* The server takes one message of a client.
LEMMA ServerTakesIds ==
  ASSUME TablesInv, NEW f, Named(f), HasRoom(store[Server]), NEW c \in Clients, NEW m \in Msgs,
         Pass(Server, c, c, ProcessIncoming(store[Server], m)), UNCHANGED <<pendS, toClient, link>>
  PROVE  Follows(f)
<1>1. /\ Good(store[Server]) /\ IsServer(store[Server]) /\ Server \in Nodes
      /\ c \in Threads /\ c \in Conns
  BY ServerIsNode DEF TablesInv, NodeInv, Threads, Conns
<1>2. Outcome(store[Server], ProcessIncoming(store[Server], m))
  BY <1>1, IncomingOutcome
<1>3. Traced(store[Server], ProcessIncoming(store[Server], m))
  BY <1>1, ServerIncomingIds
<1> QED BY <1>1, <1>2, <1>3, ServerPassIds

LEMMA FinishHandshakeIds ==
  ASSUME TablesInv, NEW f, Named(f), NEW c \in Clients, FinishHandshake(c)
  PROVE  Follows(f)
<1>0. /\ NetInv /\ link[c] = "applied"
      /\ link \in [Clients -> {"down", "hello", "sent", "applied", "up"}]
  BY DEF TablesInv, NetInv, FinishHandshake
<1>1. PICK h \in Replies : h = Head(toServer[c])
  BY <1>0 DEF NetInv, StreamsAgree
<1>2. PICK todo \in Seq(Msgs) : todo = h.msgs
  BY DEF Replies
<1>3. UNCHANGED <<pendS, toClient>>
  BY DEF FinishHandshake
<1>4. \/ /\ todo # <<>> /\ HasRoom(store[Server])
         /\ Pass(Server, c, c, ProcessIncoming(store[Server], Head(todo)))
         /\ UNCHANGED link
      \/ link' = [link EXCEPT ![c] = "up"] /\ UNCHANGED <<store, hand>>
  BY <1>1, <1>2 DEF FinishHandshake
<1>5. CASE /\ todo # <<>> /\ HasRoom(store[Server])
           /\ Pass(Server, c, c, ProcessIncoming(store[Server], Head(todo)))
           /\ UNCHANGED link
  <2>1. Head(todo) \in Msgs
    BY <1>5, HeadTailProperties
  <2> QED BY <1>3, <1>5, <2>1, ServerTakesIds
<1>6. CASE link' = [link EXCEPT ![c] = "up"] /\ UNCHANGED <<store, hand>>
  <2>1. f \in Namings /\ Agree(f)
    BY DEF Named, Follows, Extends
  <2>2. link'[c] = "up" /\ \A d \in Clients \ {c} : link'[d] = link[d]
    BY <1>0, <1>6
  <2>3. Heard(f, c)'
    BY <1>0, <1>3, <1>6, <2>1, <2>2 DEF Agree, Heard, ClientActive
  <2>4. \A d \in Clients : Linked(store[d])
    BY DEF Named, Follows, Extends
  <2>5. Linked(store[c])'
    BY <1>6, <2>4
  <2> QED BY <1>3, <1>6, <2>1, <2>2, <2>3, <2>4, <2>5, ClientStepIds
<1> QED BY <1>4, <1>5, <1>6

LEMMA ServerReadsIds ==
  ASSUME TablesInv, NEW f, Named(f), NEW c \in Clients, ServerReads(c)
  PROVE  Follows(f)
<1>0. NetInv /\ link[c] = "up" /\ toServer[c] # <<>> /\ HasRoom(store[Server])
  BY DEF TablesInv, ServerReads
<1>1. PICK s \in Seq(Posts) : s = toServer[c] /\ s # <<>>
  BY <1>0 DEF NetInv, StreamsAgree
<1>2. Head(s) \in Posts
  BY <1>1, HeadTailProperties
<1>3. UNCHANGED <<pendS, toClient, link>>
  BY DEF ServerReads
<1>4. CASE Head(s) = Q!None
  <2>1. UNCHANGED <<store, hand>>
    BY <1>1, <1>4 DEF ServerReads
  <2> QED BY <1>3, <2>1, SameIds
<1>5. CASE Head(s) # Q!None
  <2>1. Head(s) \in Msgs
    BY <1>2, <1>5 DEF Posts
  <2>2. Pass(Server, c, c, ProcessIncoming(store[Server], Head(s)))
    BY <1>1, <1>5 DEF ServerReads
  <2> QED BY <1>0, <1>3, <2>1, <2>2, ServerTakesIds
<1> QED BY <1>4, <1>5

\* A client learns from a message no other id than the naming has.
LEMMA ClientReadsIds ==
  ASSUME TablesInv, NEW f, Named(f), NEW c \in Clients, ClientReads(c)
  PROVE  Follows(f)
<1>0. /\ NodeInv /\ NetInv /\ toClient \in [Clients -> Seq(Wires)]
      /\ link[c] \in {"applied", "up"} /\ toClient[c] # <<>>
      /\ c \in Nodes /\ c # Server /\ Server \in Nodes /\ Clients \subseteq Nodes
  BY ServerIsNode DEF TablesInv, NetInv, ClientReads, ClientActive
<1>1. f \in Namings /\ Agree(f)
  BY DEF Named, Follows, Extends
<1>2. PICK s \in Seq(SaidWires(f)) : s = toClient[c] /\ s # <<>>
  BY <1>0, <1>1 DEF Agree, Heard
<1>3. PICK m \in SaidWires(f) : m = Head(s)
  BY <1>2, HeadTailProperties
<1>4. m \in Posts
  <2>1. PICK p \in Seq(Posts) : p = toClient[c] /\ p # <<>>
    BY <1>0 DEF NetInv, StreamsAgree
  <2>2. Head(p) \in Posts
    BY <2>1, HeadTailProperties
  <2> QED BY <1>2, <1>3, <2>1, <2>2
<1>5. PICK u \in Seq(SaidWires(f)) : u = Tail(s)
  BY <1>2, HeadTailProperties
<1>6. toClient' = [toClient EXCEPT ![c] = u] /\ UNCHANGED <<pendS, link>>
  BY <1>2, <1>5 DEF ClientReads
<1>7. /\ toClient'[c] = u
      /\ \A d \in Clients \ {c} : toClient'[d] = toClient[d]
  BY <1>0, <1>6
<1>8. Linked(store[c]) /\ Means(f, store[c]) /\ \A d \in Clients : Linked(store[d])
  BY <1>0, <1>1 DEF Named, Follows, Agree, Heard, ClientActive
<1>9. /\ Linked(store'[c]) /\ Means(f, store'[c])
      /\ \A y \in Nodes : y # c => store'[y] = store[y] /\ hand'[y] = hand[y]
  <2>1. CASE m = Q!None
    <3>1. UNCHANGED <<store, hand>>
      BY <1>2, <1>3, <2>1 DEF ClientReads
    <3> QED BY <1>8, <3>1
  <2>2. CASE m # Q!None
    <3>1. m \in Msgs
      BY <1>4, <2>2 DEF Posts
    <3>2. PICK r : r = ProcessIncoming(store[c], m)
      OBVIOUS
    <3>3. Pass(c, "reader", "none", r)
      BY <1>2, <1>3, <2>2, <3>2 DEF ClientReads
    <3>4. Good(store[c]) /\ ~IsServer(store[c])
      BY <1>0 DEF NodeInv
    <3>5. Linked(r.st) /\ Learns(store[c], r.st, m)
      BY <1>8, <3>1, <3>2, <3>4, ClientIncomingIds
    <3>6. Says(f, m)
      BY <1>3 DEF SaidWires
    <3>7. Means(f, r.st)
      BY <1>8, <3>5, <3>6 DEF Means, Learns, Says
    <3>8. /\ store'[c] = r.st
          /\ \A y \in Nodes : y # c => store'[y] = store[y] /\ hand'[y] = hand[y]
      BY <1>0, <3>3, PassAt
    <3> QED BY <3>5, <3>7, <3>8
  <2> QED BY <2>1, <2>2
<1>10. Heard(f, c)'
  <2>1. pendS'[c].msgs \in Seq(Said(f))
    BY <1>1, <1>6 DEF Agree, Heard
  <2> QED BY <1>7, <1>9, <2>1 DEF Heard
<1>11. Linked(store[c])'
  BY <1>9
<1> QED BY <1>0, <1>1, <1>6, <1>7, <1>8, <1>9, <1>10, <1>11, ClientStepIds

\* A lost connection says nothing any more.
LEMMA LostHears ==
  ASSUME NEW f, NEW c \in Clients, NEW C, Lost(C), Heard(f, c), UNCHANGED store
  PROVE  Heard(f, c)'
<1>1. CASE c \in C
  <2>1. link'[c] = "down" /\ pendS'[c] = Q!NoPending /\ toClient'[c] = <<>>
    BY <1>1 DEF Lost
  <2> QED BY <2>1, NothingPends, EmptySeq DEF Heard, ClientActive
<1>2. CASE c \notin C
  <2>1. link'[c] = link[c] /\ pendS'[c] = pendS[c] /\ toClient'[c] = toClient[c]
    BY <1>2 DEF Lost
  <2> QED BY <2>1 DEF Heard, ClientActive
<1> QED BY <1>1, <1>2

LEMMA DisconnectIds ==
  ASSUME NEW f, Named(f), NEW c \in Clients, Disconnect(c)
  PROVE  Follows(f)
<1>1. f \in Namings /\ Agree(f)
  BY DEF Named, Follows, Extends
<1>2. Lost({c}) /\ UNCHANGED <<store, hand>>
  BY DEF Disconnect
<1>3. \A d \in Clients : Heard(f, d)'
  BY <1>1, <1>2, LostHears DEF Agree
<1>4. Agree(f)'
  BY <1>1, <1>2, <1>3 DEF Agree
<1> QED BY <1>2, <1>4 DEF Named, Follows, Extends

LEMMA SavePersistentIds ==
  ASSUME TablesInv, NEW f, Named(f), SavePersistent
  PROVE  Follows(f)
<1>0. NodeInv /\ store \in [Nodes -> Store] /\ Server \in Nodes /\ Clients \subseteq Nodes
      /\ Server \notin Clients
  BY ServerIsNode DEF TablesInv, NodeInv
<1>1. f \in Namings /\ Agree(f)
  BY DEF Named, Follows, Extends
<1>2. store' = [store EXCEPT ![Server].dirty = FALSE] /\ UNCHANGED <<hand, pendS, toClient, link>>
  BY DEF SavePersistent, net
<1>3. /\ \A c \in Clients : store'[c] = store[c]
      /\ store'[Server].idmap = store[Server].idmap
      /\ store'[Server].size = store[Server].size
  BY <1>0, <1>2 DEF Store
<1>4. Means(f, store'[Server]) /\ \A i \in Ids : i >= store'[Server].size => f[i] = NoName
  BY <1>1, <1>3 DEF Agree, Means
<1>5. \A c \in Clients : Heard(f, c)'
  BY <1>1, <1>2, <1>3 DEF Agree, Heard, ClientActive
<1>6. Agree(f)'
  BY <1>1, <1>2, <1>4, <1>5 DEF Agree
<1>7. \A c \in Clients : Linked(store[c])'
  BY <1>3 DEF Named, Follows, Extends
<1> QED BY <1>6, <1>7 DEF Named, Follows, Extends

\* A new server gives its ids anew, and nobody listens to it yet.
LEMMA ServerRestartsIds ==
  ASSUME TablesInv, IdsInv, ServerRestarts
  PROVE  IdsInv'
<1>0. /\ NodeInv /\ FileInv /\ store \in [Nodes -> Store] /\ hand \in [Nodes -> Seq(Held)]
      /\ Server \in Nodes /\ Clients \subseteq Nodes /\ Server \notin Clients
  BY ServerIsNode DEF TablesInv, NodeInv
<1>1. PICK s : s = Loaded(file)
  OBVIOUS
<1>2. Good(s) /\ IsServer(s)
  BY <1>0, <1>1, LoadedFacts DEF FileInv
<1>3. /\ store' = [store EXCEPT ![Server] = s] /\ hand' = [hand EXCEPT ![Server] = <<>>]
      /\ Lost(Clients)
  BY <1>1 DEF ServerRestarts
<1>4. /\ store'[Server] = s /\ hand'[Server] = <<>>
      /\ \A c \in Clients : store'[c] = store[c]
  BY <1>0, <1>3
<1>5. PICK g \in Namings : g = s.idmap
  BY <1>2 DEF Good, Store, Namings
<1>6. Means(g, s) /\ \A i \in Ids : i >= s.size => g[i] = NoName
  <2>1. \A i \in Ids : s.idmap[i] # NoName => i < s.size
    BY <1>2, ServerLinked DEF Linked
  <2>2. s.size \in Nat
    BY <1>2, StorageAssumption DEF Good, Store
  <2> QED BY <1>5, <2>1, <2>2, IdsAre DEF Means
<1>7. ASSUME NEW c \in Clients PROVE Heard(g, c)'
  <2>1. link'[c] = "down" /\ pendS'[c] = Q!NoPending /\ toClient'[c] = <<>>
    BY <1>3 DEF Lost
  <2> QED BY <2>1, NothingPends, EmptySeq DEF Heard, ClientActive
<1>8. hand'[Server] \in Seq(SaidHeld(g))
  BY <1>4, EmptySeq
<1>9. Agree(g)'
  BY <1>4, <1>6, <1>7, <1>8 DEF Agree
<1>10. \A c \in Clients : Linked(store[c])'
  BY <1>4 DEF IdsInv
<1> QED BY <1>9, <1>10 DEF IdsInv

LEMMA IdsInit == Init => IdsInv
<1> SUFFICES ASSUME Init PROVE IdsInv
  OBVIOUS
<1>1. PICK f : f = [i \in Ids |-> NoName]
  OBVIOUS
<1>2. f \in Namings /\ \A i \in Ids : f[i] = NoName
  BY <1>1 DEF Namings
<1>3. ASSUME NEW x \in Nodes
      PROVE  /\ \A i \in Ids : store[x].idmap[i] = NoName
             /\ Linked(store[x]) /\ hand[x] = <<>>
  <2>1. store[x].entries = [n \in Names |-> Fresh] /\ store[x].idmap = [i \in Ids |-> NoName]
    BY DEF Init, EmptyStore
  <2>2. hand[x] = <<>>
    BY DEF Init
  <2> QED BY <2>1, <2>2 DEF Linked, Fresh
<1>4. \A x \in Nodes : Means(f, store[x])
  BY <1>3 DEF Means
<1>5. ASSUME NEW c \in Clients PROVE Heard(f, c)
  <2>1. pendS[c] = Q!NoPending /\ toClient[c] = <<>>
    BY DEF Init
  <2> QED BY <1>4, <2>1, NothingPends, EmptySeq, ServerIsNode DEF Heard
<1>6. hand[Server] \in Seq(SaidHeld(f))
  BY <1>3, EmptySeq, ServerIsNode
<1>7. Agree(f)
  BY <1>2, <1>4, <1>5, <1>6, ServerIsNode DEF Agree
<1> QED BY <1>2, <1>3, <1>7, ServerIsNode DEF IdsInv

\* Every step but a restart of the server keeps the names the naming has.
LEMMA NamingStep ==
  ASSUME TablesInv, NEW f, Named(f), [Next]_vars, ~ServerRestarts
  PROVE  Follows(f)
<1>1. ASSUME NEW x \in Nodes, Change(x) \/ ChangeFlags(x) \/ Queueing(x) PROVE Follows(f)
  <2>1. CASE Change(x)
    BY <2>1, ChangeIds
  <2>2. CASE ChangeFlags(x)
    BY <2>2, ChangeFlagsIds
  <2>3. CASE Queueing(x)
    BY <2>3, QueueIds DEF Queueing
  <2> QED BY <1>1, <2>1, <2>2, <2>3
<1>2. ASSUME NEW x \in Clearers, Clear(x) PROVE Follows(f)
  BY <1>2, ClearIds, TablesAssumption
<1>3. ASSUME NEW c \in Clients, ClientStep(c) PROVE Follows(f)
  <2>1. CASE Connect(c)
    BY <2>1, ConnectIds
  <2>2. CASE SendInitial(c)
    BY <2>2, SendInitialIds
  <2>3. CASE ApplyInitial(c)
    BY <2>3, ApplyInitialIds
  <2>4. CASE FinishHandshake(c)
    BY <2>4, FinishHandshakeIds
  <2>5. CASE ServerPosts(c)
    BY <2>5, ServerPostsIds
  <2>6. CASE ClientPosts(c)
    BY <2>6, SameIds DEF ClientPosts
  <2>7. CASE ServerReads(c)
    BY <2>7, ServerReadsIds
  <2>8. CASE ClientReads(c)
    BY <2>8, ClientReadsIds
  <2> QED BY <1>3, <2>1, <2>2, <2>3, <2>4, <2>5, <2>6, <2>7, <2>8 DEF ClientStep
<1>4. ASSUME NEW c \in Clients, Disconnect(c) PROVE Follows(f)
  BY <1>4, DisconnectIds
<1>5. CASE UNCHANGED vars
  BY <1>5, SameIds DEF vars, net
<1> QED BY <1>1, <1>2, <1>3, <1>4, <1>5, SavePersistentIds DEF Next

LEMMA IdsStep == TablesInv /\ IdsInv /\ [Next]_vars => IdsInv'
<1> SUFFICES ASSUME TablesInv, IdsInv, [Next]_vars PROVE IdsInv'
  OBVIOUS
<1>1. PICK f : Named(f)
  BY DEF IdsInv, Named
<1>2. CASE ServerRestarts
  BY <1>2, ServerRestartsIds
<1>3. CASE ~ServerRestarts
  <2>1. Follows(f)
    BY <1>1, <1>3, NamingStep
  <2> QED BY <2>1 DEF Follows, IdsInv
<1> QED BY <1>2, <1>3

\* Two id maps that agree with one naming agree with each other.
LEMMA OneNaming ==
  ASSUME TablesInv, IdsInv
  PROVE  ServerMapSound /\ ClientsLinked /\ IdsAgree
<1>1. PICK f \in Namings : Agree(f)
  BY DEF IdsInv
<1>2. ServerMapSound
  BY InvIsExact
<1>3. ClientsLinked
  BY DEF IdsInv, ClientsLinked
<1>4. IdsAgree
  <2>1. SUFFICES ASSUME NEW c \in Clients, NEW i \in Ids, ClientActive(c),
                        store[c].idmap[i] # NoName, store[Server].idmap[i] # NoName
                 PROVE  store[c].idmap[i] = store[Server].idmap[i]
    BY DEF IdsAgree
  <2>2. Means(f, store[Server]) /\ Means(f, store[c])
    BY <1>1, <2>1 DEF Agree, Heard
  <2> QED BY <2>1, <2>2 DEF Means
<1> QED BY <1>2, <1>3, <1>4

\* Whatever overtakes what, whenever connections are lost and the server restarts:
\* the server's id map is exact, a client finds by an id the entry that has it, and
\* a client that is connected means by an id the entry that the server means.
THEOREM IdsAlwaysAgree == Spec => [](ServerMapSound /\ ClientsLinked /\ IdsAgree)
<1>1. Init => IdsInv
  BY IdsInit
<1>2. TablesInv /\ IdsInv /\ [Next]_vars => IdsInv'
  BY IdsStep
<1>3. TablesInv /\ IdsInv => ServerMapSound /\ ClientsLinked /\ IdsAgree
  BY OneNaming
<1> QED BY <1>1, <1>2, <1>3, TablesSafe, PTL DEF Spec
-----------------------------------------------------------------------------
(***************************************************************************)
(* What queueing a message does to those that wait.                        *)
(***************************************************************************)

\* A message gives an id: an assignment names it, an update takes it for known.
NamesId(m, i) == m.type = "assign" /\ m.id = i
Gives(m, i)  == m.type \in {"assign", "update"} /\ m.id = i

\* The positions that are kept for an id are those of messages of that id.
PendOK(p) ==
  \A i \in Ids :
    /\ p.value[i] # 0 => p.value[i] \in DOMAIN p.msgs /\ Gives(p.msgs[p.value[i]], i)
    /\ p.flags[i] # 0 => /\ p.flags[i] \in DOMAIN p.msgs
                         /\ p.msgs[p.flags[i]].type = "flags" /\ p.msgs[p.flags[i]].id = i

Keeper(m) == m.type \notin {"delete", "clear"}

MergedIn(X, Y, m) ==
  /\ Keeper(m) /\ Len(Y) = Len(X)
  /\ \A r \in 1 .. Len(X) : \/ Y[r] = X[r]
                            \/ /\ Keeper(X[r])
                               /\ \A i \in Ids : Gives(Y[r], i) => Gives(X[r], i)
                               /\ \A i \in Ids : NamesId(Y[r], i) =>
                                    NamesId(X[r], i) \/ (NamesId(m, i) /\ Gives(X[r], i))

Struck(X, Y, m) ==
  /\ Len(Y) = Len(X) + 1 /\ Y[Len(X) + 1] = m
  /\ \A r \in 1 .. Len(X) : Y[r] = X[r] \/ (Y[r] = Q!None /\ Keeper(X[r]))

Wiped(X, Y, m) ==
  /\ m.type = "clear" /\ Len(Y) = Len(X) + 1 /\ Y[Len(X) + 1] = m
  /\ \A r \in 1 .. Len(X) : Y[r] = Q!None

Queued(X, Y, m) == Y = Append(X, m) \/ MergedIn(X, Y, m) \/ Struck(X, Y, m) \/ Wiped(X, Y, m)

LEMMA GivesPosts ==
  ASSUME NEW m \in Posts, NEW i
  PROVE  /\ Gives(m, i) <=> m \in Assigns \cup Updates /\ m.id = i
         /\ NamesId(m, i) <=> m \in Assigns /\ m.id = i
BY PostTypes DEF Gives, NamesId

LEMMA MergeGives ==
  ASSUME NEW old \in Posts, NEW m \in Assigns \cup Updates, Gives(old, m.id),
         NEW x, x = Q!MergeInto(old, m)
  PROVE  /\ Gives(x, m.id) /\ x.id = m.id
         /\ x.type = "assign" => old.type = "assign" \/ m.type = "assign"
<1>1. m \in Posts /\ m.type \in {"assign", "update"}
  BY DEF Posts, Msgs, Assigns, Updates
<1>2. CASE old.type = "assign" /\ m.type = "update"
  <2>1. old \in Assigns /\ old.id = m.id
    BY <1>2, PostTypes DEF Gives
  <2>2. x = [old EXCEPT !.seq = m.seq, !.value = m.value]
    BY <1>2 DEF Q!MergeInto
  <2>3. x.type = "assign" /\ x.id = m.id
    BY <1>2, <2>1, <2>2 DEF Assigns
  <2> QED BY <1>2, <2>3 DEF Gives
<1>3. CASE ~(old.type = "assign" /\ m.type = "update")
  <2>1. x = m
    BY <1>3 DEF Q!MergeInto
  <2> QED BY <1>1, <2>1 DEF Gives
<1> QED BY <1>2, <1>3

LEMMA QueueValueOutcome ==
  ASSUME NEW p \in Pending, PendOK(p), NEW m \in Assigns \cup Updates, m.id \in Ids,
         NEW q, q = Q!QueueValue(p, m)
  PROVE  PendOK(q) /\ Queued(p.msgs, q.msgs, m)
<1>0. m \in Posts /\ m.type \in {"assign", "update"} /\ Gives(m, m.id)
  BY DEF Posts, Msgs, Assigns, Updates, Gives
<1>1. p.msgs \in Seq(Posts) /\ p.value \in [Ids -> Nat] /\ p.flags \in [Ids -> Nat]
  BY DEF Pending
<1>2. CASE p.value[m.id] # 0
  <2>1. PICK k \in 1 .. Len(p.msgs) : k = p.value[m.id]
    BY <1>1, <1>2 DEF PendOK
  <2>2. PICK old \in Posts : old = p.msgs[k]
    BY <1>1
  <2>3. PICK x : x = Q!MergeInto(old, m)
    OBVIOUS
  <2>4. Gives(old, m.id)
    BY <1>2, <2>1, <2>2 DEF PendOK
  <2>5. Gives(x, m.id) /\ x.id = m.id
        /\ (x.type = "assign" => old.type = "assign" \/ m.type = "assign")
    BY <2>3, <2>4, MergeGives
  <2>6. PICK Y : Y = [p.msgs EXCEPT ![k] = x]
    OBVIOUS
  <2>7. q = [p EXCEPT !.msgs = Y]
    BY <1>2, <2>1, <2>2, <2>3, <2>6 DEF Q!QueueValue, Pending
  <2>8. q.msgs = Y /\ q.value = p.value /\ q.flags = p.flags
    BY <2>7 DEF Pending
  <2>9. /\ DOMAIN Y = 1 .. Len(p.msgs) /\ Len(Y) = Len(p.msgs)
        /\ Y[k] = x /\ \A r \in 1 .. Len(p.msgs) : r # k => Y[r] = p.msgs[r]
    BY <1>1, <2>1, <2>6
  <2>10. MergedIn(p.msgs, Y, m)
    <3>1. Keeper(m)
      BY <1>0 DEF Keeper
    <3>2. Keeper(old)
      BY <2>4 DEF Gives, Keeper
    <3>3. \A i \in Ids : Gives(x, i) => Gives(old, i)
      BY <2>4, <2>5 DEF Gives
    <3>4. \A i \in Ids : NamesId(x, i) => NamesId(old, i) \/ (NamesId(m, i) /\ Gives(old, i))
      BY <2>4, <2>5 DEF NamesId, Gives
    <3> QED BY <2>2, <2>9, <3>1, <3>2, <3>3, <3>4 DEF MergedIn
  <2>11. PendOK(q)
    <3>1. SUFFICES ASSUME NEW i \in Ids
                   PROVE  /\ q.value[i] # 0 => q.value[i] \in DOMAIN Y /\ Gives(Y[q.value[i]], i)
                          /\ q.flags[i] # 0 => /\ q.flags[i] \in DOMAIN Y
                                               /\ Y[q.flags[i]].type = "flags" /\ Y[q.flags[i]].id = i
      BY <2>8 DEF PendOK
    <3>2. ASSUME p.value[i] # 0 PROVE p.value[i] \in DOMAIN Y /\ Gives(Y[p.value[i]], i)
      <4>1. p.value[i] \in 1 .. Len(p.msgs) /\ Gives(p.msgs[p.value[i]], i)
        BY <1>1, <3>2 DEF PendOK
      <4>2. CASE p.value[i] = k
        <5>1. i = m.id
          BY <2>2, <2>4, <4>1, <4>2 DEF Gives
        <5> QED BY <2>5, <2>9, <4>1, <4>2, <5>1
      <4>3. CASE p.value[i] # k
        BY <2>9, <4>1, <4>3
      <4> QED BY <4>2, <4>3
    <3>3. ASSUME p.flags[i] # 0
          PROVE  p.flags[i] \in DOMAIN Y /\ Y[p.flags[i]].type = "flags" /\ Y[p.flags[i]].id = i
      <4>1. p.flags[i] \in 1 .. Len(p.msgs) /\ p.msgs[p.flags[i]].type = "flags"
            /\ p.msgs[p.flags[i]].id = i
        BY <1>1, <3>3 DEF PendOK
      <4>2. p.flags[i] # k
        BY <2>2, <2>4, <4>1 DEF Gives
      <4> QED BY <2>9, <4>1, <4>2
    <3> QED BY <2>8, <3>2, <3>3
  <2> QED BY <2>8, <2>10, <2>11 DEF Queued
<1>3. CASE p.value[m.id] = 0
  <2>1. PICK n \in Nat : n = Len(p.msgs) + 1
    BY <1>1
  <2>2. PICK Y : Y = Append(p.msgs, m)
    OBVIOUS
  <2>3. q = [[p EXCEPT !.msgs = Y] EXCEPT !.value[m.id] = n]
    BY <1>3, <2>1, <2>2 DEF Q!QueueValue, Q!Push
  <2>4. q.msgs = Y /\ q.value = [p.value EXCEPT ![m.id] = n] /\ q.flags = p.flags
    BY <2>3 DEF Pending
  <2>5. DOMAIN Y = 1 .. n /\ Y[n] = m /\ n # 0 /\ \A r \in 1 .. Len(p.msgs) : Y[r] = p.msgs[r] /\ r \in 1 .. n
    BY <1>1, <2>1, <2>2
  <2>6. PendOK(q)
    <3>1. SUFFICES ASSUME NEW i \in Ids
                   PROVE  /\ q.value[i] # 0 => q.value[i] \in DOMAIN Y /\ Gives(Y[q.value[i]], i)
                          /\ q.flags[i] # 0 => /\ q.flags[i] \in DOMAIN Y
                                               /\ Y[q.flags[i]].type = "flags" /\ Y[q.flags[i]].id = i
      BY <2>4 DEF PendOK
    <3>2. q.flags[i] # 0 => /\ q.flags[i] \in DOMAIN Y
                           /\ Y[q.flags[i]].type = "flags" /\ Y[q.flags[i]].id = i
      BY <1>1, <2>4, <2>5 DEF PendOK
    <3>3. CASE i = m.id
      <4>1. q.value[i] = n
        BY <1>1, <2>4, <3>3
      <4> QED BY <1>0, <2>5, <3>2, <3>3, <4>1
    <3>4. CASE i # m.id
      <4>1. q.value[i] = p.value[i]
        BY <1>1, <2>4, <3>4
      <4>2. q.value[i] # 0 => q.value[i] \in 1 .. Len(p.msgs) /\ Gives(p.msgs[q.value[i]], i)
        BY <1>1, <4>1 DEF PendOK
      <4> QED BY <2>5, <3>2, <4>2
    <3> QED BY <3>3, <3>4
  <2> QED BY <2>2, <2>4, <2>6 DEF Queued
<1> QED BY <1>2, <1>3

LEMMA QueueFlagsOutcome ==
  ASSUME NEW p \in Pending, PendOK(p), NEW m \in FlagMsgs, NEW q, q = Q!QueueFlags(p, m)
  PROVE  PendOK(q) /\ Queued(p.msgs, q.msgs, m)
<1>0. m \in Posts /\ m.type = "flags" /\ m.id \in Ids
  BY DEF Posts, Msgs, FlagMsgs
<1>1. p.msgs \in Seq(Posts) /\ p.value \in [Ids -> Nat] /\ p.flags \in [Ids -> Nat]
  BY DEF Pending
<1>2. CASE p.flags[m.id] # 0
  <2>1. PICK k \in 1 .. Len(p.msgs) : k = p.flags[m.id]
    BY <1>0, <1>1, <1>2 DEF PendOK
  <2>2. p.msgs[k].type = "flags" /\ p.msgs[k].id = m.id
    BY <1>0, <1>2, <2>1 DEF PendOK
  <2>6. PICK Y : Y = [p.msgs EXCEPT ![k] = m]
    OBVIOUS
  <2>7. q = [p EXCEPT !.msgs = Y]
    BY <1>2, <2>1, <2>6 DEF Q!QueueFlags, Pending
  <2>8. q.msgs = Y /\ q.value = p.value /\ q.flags = p.flags
    BY <2>7 DEF Pending
  <2>9. /\ DOMAIN Y = 1 .. Len(p.msgs) /\ Len(Y) = Len(p.msgs)
        /\ Y[k] = m /\ \A r \in 1 .. Len(p.msgs) : r # k => Y[r] = p.msgs[r]
    BY <1>1, <2>1, <2>6
  <2>10. MergedIn(p.msgs, Y, m)
    <3>1. Keeper(m) /\ Keeper(p.msgs[k]) /\ \A i \in Ids : ~Gives(m, i) /\ ~NamesId(m, i)
      BY <1>0, <2>2 DEF Keeper, Gives, NamesId
    <3> QED BY <2>9, <3>1 DEF MergedIn
  <2>11. PendOK(q)
    <3>1. SUFFICES ASSUME NEW i \in Ids
                   PROVE  /\ q.value[i] # 0 => q.value[i] \in DOMAIN Y /\ Gives(Y[q.value[i]], i)
                          /\ q.flags[i] # 0 => /\ q.flags[i] \in DOMAIN Y
                                               /\ Y[q.flags[i]].type = "flags" /\ Y[q.flags[i]].id = i
      BY <2>8 DEF PendOK
    <3>2. ASSUME p.value[i] # 0 PROVE p.value[i] \in DOMAIN Y /\ Gives(Y[p.value[i]], i)
      <4>1. p.value[i] \in 1 .. Len(p.msgs) /\ Gives(p.msgs[p.value[i]], i)
        BY <1>1, <3>2 DEF PendOK
      <4>2. p.value[i] # k
        BY <2>2, <4>1 DEF Gives
      <4> QED BY <2>9, <4>1, <4>2
    <3>3. ASSUME p.flags[i] # 0
          PROVE  p.flags[i] \in DOMAIN Y /\ Y[p.flags[i]].type = "flags" /\ Y[p.flags[i]].id = i
      <4>1. p.flags[i] \in 1 .. Len(p.msgs) /\ p.msgs[p.flags[i]].type = "flags"
            /\ p.msgs[p.flags[i]].id = i
        BY <1>1, <3>3 DEF PendOK
      <4>2. CASE p.flags[i] = k
        <5>1. i = m.id
          BY <2>2, <4>1, <4>2
        <5> QED BY <1>0, <2>9, <4>1, <4>2, <5>1
      <4>3. CASE p.flags[i] # k
        BY <2>9, <4>1, <4>3
      <4> QED BY <4>2, <4>3
    <3> QED BY <2>8, <3>2, <3>3
  <2> QED BY <2>8, <2>10, <2>11 DEF Queued
<1>3. CASE p.flags[m.id] = 0
  <2>1. PICK n \in Nat : n = Len(p.msgs) + 1
    BY <1>1
  <2>2. PICK Y : Y = Append(p.msgs, m)
    OBVIOUS
  <2>3. q = [[p EXCEPT !.msgs = Y] EXCEPT !.flags[m.id] = n]
    BY <1>3, <2>1, <2>2 DEF Q!QueueFlags, Q!Push
  <2>4. q.msgs = Y /\ q.flags = [p.flags EXCEPT ![m.id] = n] /\ q.value = p.value
    BY <2>3 DEF Pending
  <2>5. DOMAIN Y = 1 .. n /\ Y[n] = m /\ n # 0 /\ \A r \in 1 .. Len(p.msgs) : Y[r] = p.msgs[r] /\ r \in 1 .. n
    BY <1>1, <2>1, <2>2
  <2>6. PendOK(q)
    <3>1. SUFFICES ASSUME NEW i \in Ids
                   PROVE  /\ q.value[i] # 0 => q.value[i] \in DOMAIN Y /\ Gives(Y[q.value[i]], i)
                          /\ q.flags[i] # 0 => /\ q.flags[i] \in DOMAIN Y
                                               /\ Y[q.flags[i]].type = "flags" /\ Y[q.flags[i]].id = i
      BY <2>4 DEF PendOK
    <3>2. q.value[i] # 0 => q.value[i] \in DOMAIN Y /\ Gives(Y[q.value[i]], i)
      BY <1>1, <2>4, <2>5 DEF PendOK
    <3>3. CASE i = m.id
      <4>1. q.flags[i] = n
        BY <1>1, <2>4, <3>3
      <4> QED BY <1>0, <2>5, <3>2, <3>3, <4>1
    <3>4. CASE i # m.id
      <4>1. q.flags[i] = p.flags[i]
        BY <1>1, <2>4, <3>4
      <4>2. q.flags[i] # 0 => /\ q.flags[i] \in 1 .. Len(p.msgs)
                             /\ p.msgs[q.flags[i]].type = "flags" /\ p.msgs[q.flags[i]].id = i
        BY <1>1, <4>1 DEF PendOK
      <4> QED BY <2>5, <3>2, <4>2
    <3> QED BY <3>3, <3>4
  <2> QED BY <2>2, <2>4, <2>6 DEF Queued
<1> QED BY <1>2, <1>3

LEMMA QueueDeleteOutcome ==
  ASSUME NEW p \in Pending, PendOK(p), NEW m \in Deletes, NEW q, q = Q!QueueDelete(p, m)
  PROVE  PendOK(q) /\ Queued(p.msgs, q.msgs, m)
<1> DEFINE gone == {p.value[m.id], p.flags[m.id]}
           kept == [k \in DOMAIN p.msgs |-> IF k \in gone THEN Q!None ELSE p.msgs[k]]
<1>0. m \in Posts /\ m.type = "delete" /\ m.id \in Ids
  BY DEF Posts, Msgs, Deletes
<1>1. p.msgs \in Seq(Posts) /\ p.value \in [Ids -> Nat] /\ p.flags \in [Ids -> Nat]
      /\ Q!None \in Posts
  BY DEF Pending, Posts
<1>2. PICK v : v = [p.value EXCEPT ![m.id] = 0]
  OBVIOUS
<1>3. PICK f : f = [p.flags EXCEPT ![m.id] = 0]
  OBVIOUS
<1>4. PICK X : X = kept
  OBVIOUS
<1>5. /\ X \in Seq(Posts) /\ Len(X) = Len(p.msgs) /\ Len(X) \in Nat
      /\ \A k \in 1 .. Len(p.msgs) : X[k] = IF k \in gone THEN Q!None ELSE p.msgs[k]
  <2> HIDE DEF gone
  <2>1. DOMAIN p.msgs = 1 .. Len(p.msgs) /\ Len(p.msgs) \in Nat
    BY <1>1
  <2>2. X \in [1 .. Len(p.msgs) -> Posts]
    BY <1>1, <1>4, <2>1
  <2>3. \A k \in 1 .. Len(p.msgs) : X[k] = IF k \in gone THEN Q!None ELSE p.msgs[k]
    BY <1>4, <2>1
  <2> QED BY <2>1, <2>2, <2>3
<1>6. q.msgs = Append(X, m) /\ q.value = v /\ q.flags = f
  BY <1>2, <1>3, <1>4 DEF Q!QueueDelete
<1> HIDE DEF kept
<1>7. PICK Y : Y = Append(X, m)
  OBVIOUS
<1>8. /\ DOMAIN Y = 1 .. (Len(p.msgs) + 1) /\ Len(Y) = Len(p.msgs) + 1 /\ Y[Len(p.msgs) + 1] = m
      /\ \A r \in 1 .. Len(p.msgs) : Y[r] = X[r]
  BY <1>0, <1>5, <1>7
<1>9. Struck(p.msgs, Y, m)
  <2>1. ASSUME NEW r \in 1 .. Len(p.msgs), r \in gone PROVE Keeper(p.msgs[r])
    <3>1. CASE r = p.value[m.id]
      <4>1. Gives(p.msgs[r], m.id)
        BY <1>0, <3>1 DEF PendOK
      <4> QED BY <4>1 DEF Gives, Keeper
    <3>2. CASE r = p.flags[m.id]
      <4>1. p.msgs[r].type = "flags"
        BY <1>0, <3>2 DEF PendOK
      <4> QED BY <4>1 DEF Keeper
    <3> QED BY <2>1, <3>1, <3>2
  <2> HIDE DEF gone
  <2> QED BY <1>5, <1>8, <2>1 DEF Struck
<1>10. \A i \in Ids : i # m.id => v[i] = p.value[i] /\ f[i] = p.flags[i]
  BY <1>1, <1>2, <1>3
<1>11. v[m.id] = 0 /\ f[m.id] = 0
  BY <1>0, <1>1, <1>2, <1>3
<1>12. ASSUME NEW i \in Ids, i # m.id, NEW k \in 1 .. Len(p.msgs),
             Gives(p.msgs[k], i) \/ (p.msgs[k].type = "flags" /\ p.msgs[k].id = i)
       PROVE  k \in DOMAIN Y /\ Y[k] = p.msgs[k]
  <2>1. k # p.value[m.id]
    <3>1. SUFFICES ASSUME k = p.value[m.id] PROVE FALSE
      OBVIOUS
    <3>2. Gives(p.msgs[k], m.id)
      BY <1>0, <3>1 DEF PendOK
    <3> QED BY <1>12, <3>2 DEF Gives
  <2>2. k # p.flags[m.id]
    <3>1. SUFFICES ASSUME k = p.flags[m.id] PROVE FALSE
      OBVIOUS
    <3>2. p.msgs[k].type = "flags" /\ p.msgs[k].id = m.id
      BY <1>0, <3>1 DEF PendOK
    <3> QED BY <1>12, <3>2 DEF Gives
  <2>3. k \notin gone
    BY <2>1, <2>2
  <2> HIDE DEF gone
  <2> QED BY <1>5, <1>8, <2>3
<1>13. PendOK(q)
  <2>1. SUFFICES ASSUME NEW i \in Ids
                 PROVE  /\ v[i] # 0 => v[i] \in DOMAIN Y /\ Gives(Y[v[i]], i)
                        /\ f[i] # 0 => f[i] \in DOMAIN Y /\ Y[f[i]].type = "flags" /\ Y[f[i]].id = i
    BY <1>6, <1>7 DEF PendOK
  <2>2. CASE i = m.id
    BY <1>11, <2>2
  <2>3. CASE i # m.id
    <3>1. v[i] = p.value[i] /\ f[i] = p.flags[i]
      BY <1>10, <2>3
    <3>2. ASSUME v[i] # 0 PROVE v[i] \in DOMAIN Y /\ Gives(Y[v[i]], i)
      <4>1. v[i] \in 1 .. Len(p.msgs) /\ Gives(p.msgs[v[i]], i)
        BY <1>1, <3>1, <3>2 DEF PendOK
      <4> QED BY <1>12, <2>3, <4>1
    <3>3. ASSUME f[i] # 0 PROVE f[i] \in DOMAIN Y /\ Y[f[i]].type = "flags" /\ Y[f[i]].id = i
      <4>1. f[i] \in 1 .. Len(p.msgs) /\ p.msgs[f[i]].type = "flags" /\ p.msgs[f[i]].id = i
        BY <1>1, <3>1, <3>3 DEF PendOK
      <4> QED BY <1>12, <2>3, <4>1
    <3> QED BY <3>2, <3>3
  <2> QED BY <2>2, <2>3
<1> QED BY <1>6, <1>7, <1>9, <1>13 DEF Queued

LEMMA QueueClearOutcome ==
  ASSUME NEW p \in Pending, NEW m \in Clears, NEW q, q = Q!QueueClear(p, m)
  PROVE  PendOK(q) /\ Queued(p.msgs, q.msgs, m)
<1> DEFINE kept == [k \in DOMAIN p.msgs |->
                      IF p.msgs[k].type \in Q!EntryMessages THEN Q!None ELSE p.msgs[k]]
<1>0. m \in Posts /\ m.type = "clear"
  BY DEF Posts, Msgs, Clears
<1>1. p.msgs \in Seq(Posts) /\ Q!None \in Posts
  BY DEF Pending, Posts
<1>2. PICK X : X = kept
  OBVIOUS
<1>3. \A x \in Posts : x.type \in Q!EntryMessages \/ x = Q!None
  BY PostTypes DEF Posts, Q!EntryMessages
<1>4. /\ X \in Seq(Posts) /\ Len(X) = Len(p.msgs) /\ Len(X) \in Nat
      /\ \A k \in 1 .. Len(p.msgs) : X[k] = Q!None
  <2>1. DOMAIN p.msgs = 1 .. Len(p.msgs) /\ Len(p.msgs) \in Nat
    BY <1>1
  <2>2. X \in [1 .. Len(p.msgs) -> Posts]
    BY <1>1, <1>2, <2>1
  <2>3. \A k \in 1 .. Len(p.msgs) : X[k] = Q!None
    BY <1>1, <1>2, <1>3, <2>1
  <2> QED BY <2>1, <2>2, <2>3
<1>5. q = [Q!NoPending EXCEPT !.msgs = Append(X, m)]
  BY <1>2 DEF Q!QueueClear
<1> HIDE DEF kept
<1>6. q.msgs = Append(X, m) /\ \A i \in Ids : q.value[i] = 0 /\ q.flags[i] = 0
  BY <1>5 DEF Q!NoPending
<1>7. Wiped(p.msgs, Append(X, m), m)
  BY <1>0, <1>4 DEF Wiped
<1>8. PendOK(q)
  BY <1>6 DEF PendOK
<1> QED BY <1>6, <1>7, <1>8 DEF Queued

LEMMA PushOutcome ==
  ASSUME NEW p \in Pending, PendOK(p), NEW m \in Msgs, NEW q, q = Q!Push(p, m)
  PROVE  PendOK(q) /\ Queued(p.msgs, q.msgs, m)
<1>1. p.msgs \in Seq(Posts) /\ m \in Posts /\ p.value \in [Ids -> Nat] /\ p.flags \in [Ids -> Nat]
  BY DEF Pending, Posts
<1>2. PICK Y : Y = Append(p.msgs, m)
  OBVIOUS
<1>3. q.msgs = Y /\ q.value = p.value /\ q.flags = p.flags
  BY <1>2 DEF Q!Push, Pending
<1>4. \A r \in 1 .. Len(p.msgs) : Y[r] = p.msgs[r] /\ r \in DOMAIN Y
  BY <1>1, <1>2
<1>5. PendOK(q)
  BY <1>1, <1>3, <1>4 DEF PendOK
<1> QED BY <1>2, <1>3, <1>5 DEF Queued

LEMMA QueueOutcome ==
  ASSUME NEW p \in Pending, PendOK(p), NEW m \in Msgs, NEW q, q = Q!QueueOutgoing(p, m)
  PROVE  PendOK(q) /\ Queued(p.msgs, q.msgs, m)
<1>1. CASE m \in Assigns \cup Updates
  <2>1. m.type \in {"assign", "update"} /\ m.id \in NewIds
    BY <1>1 DEF Assigns, Updates
  <2>2. CASE m.id = NoId
    <3>1. q = Q!Push(p, m)
      BY <2>1, <2>2 DEF Q!QueueOutgoing, Q!EntryMessages
    <3> QED BY <3>1, PushOutcome
  <2>3. CASE m.id # NoId
    <3>1. q = Q!QueueValue(p, m) /\ m.id \in Ids
      BY <2>1, <2>3 DEF Q!QueueOutgoing, Q!EntryMessages, NewIds
    <3> QED BY <1>1, <3>1, QueueValueOutcome
  <2> QED BY <2>2, <2>3
<1>2. CASE m \in FlagMsgs
  <2>1. m.type = "flags" /\ m.id # NoId
    BY <1>2, IdsAre DEF FlagMsgs
  <2>2. q = Q!QueueFlags(p, m)
    BY <2>1 DEF Q!QueueOutgoing, Q!EntryMessages
  <2> QED BY <1>2, <2>2, QueueFlagsOutcome
<1>3. CASE m \in Deletes
  <2>1. m.type = "delete" /\ m.id # NoId
    BY <1>3, IdsAre DEF Deletes
  <2>2. q = Q!QueueDelete(p, m)
    BY <2>1 DEF Q!QueueOutgoing, Q!EntryMessages
  <2> QED BY <1>3, <2>2, QueueDeleteOutcome
<1>4. CASE m \in Clears
  <2>1. m.type = "clear"
    BY <1>4 DEF Clears
  <2>2. q = Q!QueueClear(p, m)
    BY <2>1 DEF Q!QueueOutgoing, Q!EntryMessages
  <2> QED BY <1>4, <2>2, QueueClearOutcome
<1> QED BY <1>1, <1>2, <1>3, <1>4 DEF Msgs, Updates, FlagMsgs, Deletes, Clears

-----------------------------------------------------------------------------
(***************************************************************************)
(* Values.  A value is known by the id it comes with.  So where an id is   *)
(* used it has to mean the entry the value was written to: a message is    *)
(* apt when the naming says so.  A server that starts anew names its ids   *)
(* anew, and then nothing that is under way may come from the time before. *)
(***************************************************************************)
Apt(f, m) ==
  /\ m.type = "assign" => m.value \in Writes[m.name] /\ (m.id # NoId => f[m.id] = m.name)
  /\ m.type = "update" /\ m.id # NoId => f[m.id] \in Names /\ m.value \in Writes[f[m.id]]

AptSends(f) == {s \in Sends : Apt(f, s.msg)}

\* No entry has a value that was not written to it.
OwnValues(st) == \A n \in Names : st.entries[n].value \in Writes[n] \cup {NoValue}

\* What an operation makes of a storage, and what it tells when its ids mean what
\* the naming says.
AptResult(f, r) == OwnValues(r.st) /\ (Means(f, r.st) => r.out \in Seq(AptSends(f)))

\* What is told of an entry that is there.
LEMMA AptEntry ==
  ASSUME NEW f, NEW s, s \in Store, Linked(s), OwnValues(s), Means(f, s),
         NEW n \in Names, Has(s, n)
  PROVE  /\ Apt(f, AssignOf(n, s.entries[n]))
         /\ \A q : Apt(f, EntryUpdate(s.entries[n].id, q, s.entries[n].value))
<1>1. s.entries[n].id \in NewIds /\ s.entries[n].value \in Writes[n]
  BY EntryTypes DEF OwnValues, Has
<1>2. ASSUME s.entries[n].id # NoId PROVE f[s.entries[n].id] = n
  <2>1. s.entries[n].id \in Ids /\ s.idmap[s.entries[n].id] = n /\ n # NoName
    BY <1>1, <1>2, StorageAssumption DEF NewIds, Linked
  <2> QED BY <2>1 DEF Means
<1>3. Apt(f, AssignOf(n, s.entries[n]))
  BY <1>1, <1>2 DEF Apt, AssignOf, EntryAssign
<1>4. \A q : Apt(f, EntryUpdate(s.entries[n].id, q, s.entries[n].value))
  BY <1>1, <1>2 DEF Apt, EntryUpdate
<1> QED BY <1>3, <1>4

\* What carries no value brings none.
LEMMA AptOther ==
  ASSUME NEW f
  PROVE  /\ \A i, g : Apt(f, FlagsUpdate(i, g))
         /\ \A i : Apt(f, EntryDelete(i))
         /\ Apt(f, ClearEntries)
         /\ \A m \in FlagMsgs \cup Deletes \cup Clears \cup {Q!None} : Apt(f, m)
BY DEF Apt, FlagsUpdate, EntryDelete, ClearEntries, FlagMsgs, Deletes, Clears, Q!None

LEMMA AptSend ==
  ASSUME NEW f, NEW m \in Msgs, Apt(f, m)
  PROVE  ToAll(m) \in AptSends(f) /\ Onward(m) \in AptSends(f)
<1>1. ToAll(m) \in Sends /\ Onward(m) \in Sends
  BY SendIsSends
<1> QED BY <1>1 DEF AptSends, ToAll, Onward

LEMMA OwnPut ==
  ASSUME NEW st, st \in Store, OwnValues(st), NEW n \in Names, NEW s, OnlyAt(n, s, st),
         s.entries[n].value \in Writes[n] \cup {NoValue}
  PROVE  OwnValues(s)
<1>1. st.entries \in [Names -> Entry]
  BY DEF Store
<1>2. \A k \in Names : k # n => s.entries[k] = st.entries[k]
  BY <1>1 DEF OnlyAt
<1> QED BY <1>2 DEF OwnValues

LEMMA AptFrom ==
  ASSUME NEW f, NEW s, s \in Store, OwnValues(s), NEW b \in BOOLEAN, NEW notes, NEW out,
         Means(f, s) => out \in Seq(AptSends(f))
  PROVE  AptResult(f, Result(MarkDirty(s, b), notes, out)) /\ AptResult(f, Result(s, notes, out))
<1>1. PICK d : d = MarkDirty(s, b)
  OBVIOUS
<1>2. d.entries = s.entries /\ d.idmap = s.idmap
  BY <1>1, DirtyIds
<1>3. OwnValues(d) /\ (Means(f, d) => out \in Seq(AptSends(f)))
  BY <1>2 DEF OwnValues, Means
<1>4. AptResult(f, Result(d, notes, out)) /\ AptResult(f, Result(s, notes, out))
  BY <1>3 DEF AptResult, Result
<1> QED BY <1>1, <1>4

LEMMA AptIgnored ==
  ASSUME NEW f, NEW st, st \in Store, OwnValues(st)
  PROVE  AptResult(f, Ignored(st))
<1>1. <<>> \in Seq(AptSends(f))
  OBVIOUS
<1> QED BY <1>1, AptFrom DEF Ignored

\* An entry is given a value of its own and told of, as an assignment or an update.
LEMMA AptTold ==
  ASSUME NEW f, NEW s, Good(s), Linked(s), OwnValues(s), NEW n \in Names, Has(s, n),
         NEW v, v = s.entries[n].value, NEW a, NEW b, NEW d \in BOOLEAN, NEW notes
  PROVE  AptResult(f, Result(MarkDirty(s, d), notes,
                             If(a, <<ToAll(AssignOf(n, s.entries[n]))>>)
                               \o If(b, <<ToAll(EntryUpdate(s.entries[n].id, s.entries[n].seq, v))>>)))
<1>0. s \in Store
  BY DEF Good
<1>1. PICK x, y : /\ x = If(a, <<ToAll(AssignOf(n, s.entries[n]))>>)
                  /\ y = If(b, <<ToAll(EntryUpdate(s.entries[n].id, s.entries[n].seq, v))>>)
  OBVIOUS
<1>2. ASSUME Means(f, s) PROVE x \o y \in Seq(AptSends(f))
  <2>1. s.entries[n] \in Entry /\ v \in Values /\ s.entries[n].id \in NewIds /\ s.entries[n].seq \in SeqNums
    BY <1>0, EntryTypes
  <2>2. AssignOf(n, s.entries[n]) \in Msgs
    BY <2>1, AssignIsMsg
  <2>3. EntryUpdate(s.entries[n].id, s.entries[n].seq, v) \in Msgs
    BY <2>1 DEF EntryUpdate, Msgs, Updates
  <2>4. /\ Apt(f, AssignOf(n, s.entries[n]))
        /\ Apt(f, EntryUpdate(s.entries[n].id, s.entries[n].seq, v))
    BY <1>0, <1>2, AptEntry
  <2>5. ToAll(AssignOf(n, s.entries[n])) \in AptSends(f)
    BY <2>2, <2>4, AptSend
  <2>6. ToAll(EntryUpdate(s.entries[n].id, s.entries[n].seq, v)) \in AptSends(f)
    BY <2>3, <2>4, AptSend
  <2>7. x \in Seq(AptSends(f))
    BY <1>1, <2>5, IfInSeq
  <2>8. y \in Seq(AptSends(f))
    BY <1>1, <2>6, IfInSeq
  <2> QED BY <2>7, <2>8, Concat
<1>3. AptResult(f, Result(MarkDirty(s, d), notes, x \o y))
  BY <1>0, <1>2, AptFrom
<1> QED BY <1>1, <1>3
-----------------------------------------------------------------------------
(* The operations of the program, one by one.                              *)

\* An entry is set to one of its values.
LEMMA PutOwn ==
  ASSUME NEW st, Good(st), Linked(st), OwnValues(st), HasRoom(st) \/ ~IsServer(st),
         NEW n \in Names, NEW v \in Writes[n], NEW e \in Entry, e.value = v, e.id = st.entries[n].id,
         NEW s, s = IfServerGiveId(PutEntry(st, n, e), n)
  PROVE  Good(s) /\ Linked(s) /\ OwnValues(s) /\ Has(s, n) /\ s.entries[n].value = v
<1>0. v \in Values /\ st \in Store /\ (IsServer(st) /\ ~Has(st, n) => e.id = NoId)
  BY TablesAssumption DEF Good, Linked
<1>1. Good(s) /\ Linked(s)
  BY <1>0, LocalIds
<1>2. OnlyAt(n, s, st) /\ s.entries[n].value = e.value
  BY <1>0, LocalPut
<1>3. OwnValues(s) /\ Has(s, n)
  BY <1>0, <1>2, OwnPut, NoValueIsNone DEF Has
<1> QED BY <1>1, <1>2, <1>3

LEMMA DefaultApt ==
  ASSUME NEW f, NEW st, Good(st), Linked(st), OwnValues(st), HasRoom(st) \/ ~IsServer(st),
         NEW n \in Names, NEW v \in Writes[n]
  PROVE  AptResult(f, SetDefaultEntryValue(st, n, v))
<1>0. v \in Values /\ st \in Store
  BY TablesAssumption DEF Good
<1>1. CASE Has(st, n)
  BY <1>0, <1>1, AptIgnored DEF SetDefaultEntryValue
<1>2. CASE ~Has(st, n)
  <2>1. PICK e \in Entry : e = [Fresh EXCEPT !.value = v]
    BY <1>0, FreshTypes
  <2>2. e.value = v /\ e.id = st.entries[n].id
    BY <1>2, <2>1 DEF Fresh, Linked
  <2>3. PICK s : s = IfServerGiveId(PutEntry(st, n, e), n)
    OBVIOUS
  <2>4. Good(s) /\ Linked(s) /\ OwnValues(s) /\ Has(s, n) /\ s.entries[n].value = v
    BY <2>2, <2>3, PutOwn
  <2>5. PICK out : out = <<ToAll(AssignOf(n, s.entries[n]))>>
    OBVIOUS
  <2>6. ASSUME Means(f, s) PROVE out \in Seq(AptSends(f))
    <3>1. s \in Store /\ s.entries[n] \in Entry
      BY <2>4, EntryTypes DEF Good
    <3>2. AssignOf(n, s.entries[n]) \in Msgs
      BY <1>0, <2>4, <3>1, AssignIsMsg
    <3>3. Apt(f, AssignOf(n, s.entries[n]))
      BY <2>4, <2>6, <3>1, AptEntry
    <3>4. ToAll(AssignOf(n, s.entries[n])) \in AptSends(f)
      BY <3>2, <3>3, AptSend
    <3> QED BY <2>5, <3>4
  <2>7. SetDefaultEntryValue(st, n, v) = Result(s, <<Note(n, v, {"new", "local"})>>, out)
    BY <1>2, <2>1, <2>3, <2>5 DEF SetDefaultEntryValue
  <2> QED BY <2>4, <2>6, <2>7, AptFrom DEF Good
<1> QED BY <1>1, <1>2

LEMMA SetValueApt ==
  ASSUME NEW f, NEW st, Good(st), Linked(st), OwnValues(st), HasRoom(st) \/ ~IsServer(st),
         NEW n \in Names, NEW v \in Writes[n]
  PROVE  AptResult(f, SetEntryValue(st, n, v))
<1> DEFINE e == st.entries[n]
           isNew == ~Has(st, n)
           changed == ~isNew /\ e.value # v
           q == IF changed THEN Inc(e.seq) ELSE e.seq
           new == [e EXCEPT !.value = v, !.seq = q]
           s == IfServerGiveId(PutEntry(st, n, new), n)
           now == s.entries[n]
           notes == If(isNew, <<Note(n, v, {"new", "local"})>>)
                      \o If(changed, <<Note(n, v, {"update", "local"})>>)
           d == IsPersistent(e) /\ changed
           two == changed /\ now.id # NoId
           out == If(isNew, <<ToAll(AssignOf(n, now))>>)
                    \o If(two, <<ToAll(EntryUpdate(now.id, now.seq, v))>>)
<1>1. new \in Entry /\ new.value = v /\ new.id = e.id
  <2>1. e.seq \in SeqNums /\ e \in Entry /\ v \in Values
    BY EntryTypes, TablesAssumption DEF Good
  <2>2. q \in SeqNums
    BY <2>1, IncType
  <2> HIDE DEF q
  <2> QED BY <2>1, <2>2 DEF Entry
<1>2. d \in BOOLEAN
  OBVIOUS
<1>3. CASE ~isNew /\ TypeOf(e.value) # TypeOf(v)
  <2>1. SetEntryValue(st, n, v) = Ignored(st)
    BY <1>3 DEF SetEntryValue
  <2> QED BY <2>1, AptIgnored DEF Good
<1>4. CASE ~(~isNew /\ TypeOf(e.value) # TypeOf(v))
  <2>1. SetEntryValue(st, n, v) = Result(MarkDirty(s, d), notes, out)
    BY <1>4 DEF SetEntryValue
  <2> HIDE DEF new
  <2>2. Good(s) /\ Linked(s) /\ OwnValues(s) /\ Has(s, n) /\ s.entries[n].value = v
    BY <1>1, PutOwn
  <2> HIDE DEF isNew, changed, q, notes, d, two, s
  <2>3. AptResult(f, Result(MarkDirty(s, d), notes, out))
    BY <1>2, <2>2, AptTold
  <2> QED BY <2>1, <2>3
<1> QED BY <1>3, <1>4

LEMMA SetTypeValueApt ==
  ASSUME NEW f, NEW st, Good(st), Linked(st), OwnValues(st), HasRoom(st) \/ ~IsServer(st),
         NEW n \in Names, NEW v \in Writes[n]
  PROVE  AptResult(f, SetEntryTypeValue(st, n, v))
<1> DEFINE e == st.entries[n]
           isNew == ~Has(st, n)
           retyped == TypeOf(e.value) # TypeOf(v)
           q == Inc(e.seq)
           new == [e EXCEPT !.value = v, !.seq = q]
           s == IfServerGiveId(PutEntry(st, n, new), n)
           now == s.entries[n]
           notes == <<Note(n, v, {IF isNew THEN "new" ELSE "update", "local"})>>
           d == IsPersistent(e)
           two == ~retyped /\ now.id # NoId
           out == If(retyped, <<ToAll(AssignOf(n, now))>>)
                    \o If(two, <<ToAll(EntryUpdate(now.id, now.seq, v))>>)
<1>1. new \in Entry /\ new.value = v /\ new.id = e.id
  <2>1. e.seq \in SeqNums /\ e \in Entry /\ v \in Values
    BY EntryTypes, TablesAssumption DEF Good
  <2>2. q \in SeqNums
    BY <2>1, IncType
  <2> HIDE DEF q
  <2> QED BY <2>1, <2>2 DEF Entry
<1>2. d \in BOOLEAN
  BY DEF IsPersistent
<1>3. CASE e.value = v
  <2>1. SetEntryTypeValue(st, n, v) = Ignored(st)
    BY <1>3 DEF SetEntryTypeValue
  <2> QED BY <2>1, AptIgnored DEF Good
<1>4. CASE e.value # v
  <2>1. SetEntryTypeValue(st, n, v) = Result(MarkDirty(s, d), notes, out)
    BY <1>4 DEF SetEntryTypeValue
  <2> HIDE DEF new
  <2>2. Good(s) /\ Linked(s) /\ OwnValues(s) /\ Has(s, n) /\ s.entries[n].value = v
    BY <1>1, PutOwn
  <2> HIDE DEF isNew, retyped, q, notes, d, two, s
  <2>3. AptResult(f, Result(MarkDirty(s, d), notes, out))
    BY <1>2, <2>2, AptTold
  <2> QED BY <2>1, <2>3
<1> QED BY <1>3, <1>4

\* A step that gives no entry another value, or none, and tells no value.
LEMMA AptSilent ==
  ASSUME NEW f, NEW st, OwnValues(st), NEW s,
         \A n \in Names : s.entries[n].value \in {st.entries[n].value, NoValue},
         NEW out \in Seq(AptSends(f)), NEW notes
  PROVE  AptResult(f, Result(s, notes, out))
<1>1. OwnValues(s)
  BY DEF OwnValues
<1> QED BY <1>1 DEF AptResult, Result

LEMMA SetFlagsApt ==
  ASSUME NEW f, NEW st, Good(st), OwnValues(st), NEW n \in Names, NEW g \in {0, 1}
  PROVE  AptResult(f, SetEntryFlags(st, n, g))
<1> DEFINE e == st.entries[n]
           new == [e EXCEPT !.flags = g]
           out == If(e.id # NoId, <<ToAll(FlagsUpdate(e.id, g))>>)
           notes == <<Note(n, e.value, {"flags", "local"})>>
<1>1. CASE ~Has(st, n) \/ e.flags = g
  <2>1. SetEntryFlags(st, n, g) = Ignored(st)
    BY <1>1 DEF SetEntryFlags
  <2> QED BY <2>1, AptIgnored DEF Good
<1>2. CASE Has(st, n) /\ e.flags # g
  <2>1. e \in Entry /\ st \in Store
    BY EntryTypes DEF Good
  <2>2. new \in Entry /\ new.value = e.value
    BY <2>1 DEF Entry
  <2>3. out \in Seq(AptSends(f))
    <3>1. e.id # NoId => FlagsUpdate(e.id, g) \in Msgs
      BY <2>1 DEF FlagsUpdate, Msgs, Entry, FlagMsgs
    <3>2. e.id # NoId => ToAll(FlagsUpdate(e.id, g)) \in AptSends(f)
      BY <3>1, AptSend, AptOther
    <3> HIDE DEF e
    <3> QED BY <3>2, IfInSeq
  <2>4. SetEntryFlags(st, n, g) = Result(MarkDirty(PutEntry(st, n, new), TRUE), notes, out)
    BY <1>2 DEF SetEntryFlags
  <2>5. PICK p, s : p = PutEntry(st, n, new) /\ s = MarkDirty(p, TRUE)
    OBVIOUS
  <2>6. p \in Store /\ p.entries = [st.entries EXCEPT ![n] = new]
    <3> HIDE DEF new
    <3> QED BY <2>1, <2>2, <2>5, PutFacts
  <2>7. s.entries = p.entries
    BY <2>5, <2>6, DirtyIds
  <2>8. \A k \in Names : s.entries[k].value \in {st.entries[k].value, NoValue}
    <3>1. st.entries \in [Names -> Entry]
      BY <2>1 DEF Store
    <3> HIDE DEF new
    <3> QED BY <2>2, <2>6, <2>7, <3>1
  <2> HIDE DEF new, out, notes
  <2> QED BY <2>3, <2>4, <2>5, <2>8, AptSilent
<1> QED BY <1>1, <1>2

LEMMA DeleteApt ==
  ASSUME NEW f, NEW st, Good(st), OwnValues(st), NEW n \in Names
  PROVE  AptResult(f, DeleteEntry(st, n))
<1> DEFINE e == st.entries[n]
           d == IsPersistent(e)
           notes == <<Note(n, e.value, {"delete", "local"})>>
           out == If(e.id # NoId, <<ToAll(EntryDelete(e.id))>>)
<1>1. CASE ~Has(st, n)
  <2>1. DeleteEntry(st, n) = Ignored(st)
    BY <1>1 DEF DeleteEntry
  <2> QED BY <2>1, AptIgnored DEF Good
<1>2. CASE Has(st, n)
  <2>1. st \in Store /\ st.entries \in [Names -> Entry] /\ e.id \in NewIds
    BY EntryTypes DEF Good, Store
  <2>2. PICK p, s : p = Erase(st, n) /\ s = MarkDirty(p, d)
    OBVIOUS
  <2>3. s.entries = [st.entries EXCEPT ![n] = Fresh]
    BY <2>1, <2>2 DEF Erase, MarkDirty, Store
  <2>4. \A k \in Names : s.entries[k].value \in {st.entries[k].value, NoValue}
    BY <2>1, <2>3 DEF Fresh
  <2>5. out \in Seq(AptSends(f))
    <3>1. e.id # NoId => EntryDelete(e.id) \in Msgs
      BY <2>1 DEF EntryDelete, Msgs, NewIds, Deletes
    <3>2. e.id # NoId => ToAll(EntryDelete(e.id)) \in AptSends(f)
      BY <3>1, AptSend, AptOther
    <3> HIDE DEF e
    <3> QED BY <3>2, IfInSeq
  <2>6. DeleteEntry(st, n) = Result(s, notes, out)
    BY <1>2, <2>2 DEF DeleteEntry
  <2> HIDE DEF d, notes, out
  <2> QED BY <2>4, <2>5, <2>6, AptSilent
<1> QED BY <1>1, <1>2

LEMMA ClearedValues ==
  ASSUME NEW st, st \in Store, NEW s, s = DeleteAllEntriesImpl(st)
  PROVE  \A n \in Names : s.entries[n].value \in {st.entries[n].value, NoValue}
<1> DEFINE gone == {n \in Present(st) : ~IsPersistent(st.entries[n])}
           es == [n \in Names |-> IF n \in gone THEN Fresh ELSE st.entries[n]]
<1>1. PICK im : s = [st EXCEPT !.entries = es, !.idmap = im]
  BY DEF DeleteAllEntriesImpl
<1>2. s.entries = es
  <2> HIDE DEF es
  <2> QED BY <1>1 DEF Store
<1> HIDE DEF gone
<1>3. \A n \in Names : es[n] = Fresh \/ es[n] = st.entries[n]
  OBVIOUS
<1> HIDE DEF es
<1> QED BY <1>2, <1>3 DEF Fresh

LEMMA DeleteAllApt ==
  ASSUME NEW f, NEW st, Good(st), OwnValues(st)
  PROVE  AptResult(f, DeleteAllEntries(st))
<1>1. CASE Present(st) = {}
  BY <1>1, AptIgnored DEF DeleteAllEntries, Good
<1>2. CASE Present(st) # {}
  <2>1. PICK s : s = DeleteAllEntriesImpl(st)
    OBVIOUS
  <2>2. \A n \in Names : s.entries[n].value \in {st.entries[n].value, NoValue}
    BY <2>1, ClearedValues DEF Good
  <2>3. PICK out : out = <<ToAll(ClearEntries)>>
    OBVIOUS
  <2>4. out \in Seq(AptSends(f))
    <3>1. ClearEntries \in Msgs
      BY DEF ClearEntries, Msgs, Clears
    <3>2. ToAll(ClearEntries) \in AptSends(f)
      BY <3>1, AptSend, AptOther
    <3> QED BY <2>3, <3>2
  <2>5. DeleteAllEntries(st) = Result(s, ClearNotes(st), out)
    BY <1>2, <2>1, <2>3 DEF DeleteAllEntries
  <2> QED BY <2>2, <2>4, <2>5, AptSilent
<1> QED BY <1>1, <1>2
-----------------------------------------------------------------------------
(* The messages of another node.                                           *)

LEMMA RequestApt ==
  ASSUME NEW f, NEW st, Good(st), IsServer(st), HasRoom(st), OwnValues(st),
         NEW m \in Assigns, Apt(f, m)
  PROVE  AptResult(f, AssignRequest(st, m))
<1>0. /\ Linked(st) /\ m.name \in Names /\ m.value \in Values /\ m.flags \in {0, 1}
      /\ m.value \in Writes[m.name]
  BY ServerLinked DEF Assigns, Apt
<1>1. CASE Has(st, m.name)
  BY <1>1, AptIgnored DEF AssignRequest, Good
<1>2. CASE ~Has(st, m.name)
  <2>1. PICK e : e = [Fresh EXCEPT !.value = m.value, !.flags = m.flags]
    OBVIOUS
  <2>2. e \in Entry /\ e.value = m.value /\ e.id = NoId
    <3>1. Fresh \in Entry
      BY HalfAssumption DEF Fresh, Entry, SeqNums
    <3>2. e.value = m.value /\ e.id = NoId
      BY <2>1 DEF Fresh
    <3> QED BY <1>0, <2>1, <3>1, <3>2 DEF Entry
  <2>3. PICK s : s = GiveId(PutEntry(st, m.name, e), m.name)
    OBVIOUS
  <2>4. s = IfServerGiveId(PutEntry(st, m.name, e), m.name)
    <3>1. st \in Store /\ st.entries \in [Names -> Entry]
      BY DEF Good, Store
    <3>2. /\ SameRole(PutEntry(st, m.name, e), st)
          /\ PutEntry(st, m.name, e).entries = [st.entries EXCEPT ![m.name] = e]
      BY <1>0, <2>2, <3>1, PutFacts
    <3>3. PutEntry(st, m.name, e).entries[m.name].id = NoId
      BY <1>0, <2>2, <3>1, <3>2
    <3> QED BY <2>3, <3>2, <3>3 DEF IfServerGiveId, SameRole, IsServer
  <2>5. e.id = st.entries[m.name].id
    BY <1>0, <1>2, <2>2 DEF Linked
  <2>6. /\ Good(s) /\ Linked(s) /\ OwnValues(s) /\ Has(s, m.name)
        /\ s.entries[m.name].value = m.value
    BY <1>0, <2>2, <2>4, <2>5, PutOwn
  <2>7. PICK out : out = <<ToAll(AssignOf(m.name, s.entries[m.name]))>>
    OBVIOUS
  <2>8. ASSUME Means(f, s) PROVE out \in Seq(AptSends(f))
    <3>1. s \in Store /\ s.entries[m.name] \in Entry
      BY <1>0, <2>6, EntryTypes DEF Good
    <3>2. AssignOf(m.name, s.entries[m.name]) \in Msgs
      BY <1>0, <2>6, <3>1, AssignIsMsg
    <3>3. Apt(f, AssignOf(m.name, s.entries[m.name]))
      BY <1>0, <2>6, <2>8, <3>1, AptEntry
    <3>4. ToAll(AssignOf(m.name, s.entries[m.name])) \in AptSends(f)
      BY <3>2, <3>3, AptSend
    <3> QED BY <2>7, <3>4
  <2>9. PICK d \in BOOLEAN : d = (m.flags = 1)
    OBVIOUS
  <2>10. AssignRequest(st, m) = Result(MarkDirty(s, d), <<Note(m.name, m.value, {"new"})>>, out)
    BY <1>2, <2>1, <2>3, <2>7, <2>9 DEF AssignRequest
  <2> QED BY <2>6, <2>8, <2>10, AptFrom DEF Good
<1> QED BY <1>1, <1>2

\* A value is put into an entry that is there and keeps its id.
LEMMA AptValuePut ==
  ASSUME NEW f, NEW st, Good(st), OwnValues(st), NEW n \in Names,
         NEW e \in Entry, e.value \in Writes[n], NEW d \in BOOLEAN, NEW notes,
         NEW out \in Seq(AptSends(f))
  PROVE  AptResult(f, Result(MarkDirty(PutEntry(st, n, e), d), notes, out))
<1>0. st \in Store /\ st.entries \in [Names -> Entry]
  BY DEF Good, Store
<1>1. PICK p : p = PutEntry(st, n, e)
  OBVIOUS
<1>2. p \in Store /\ p.entries = [st.entries EXCEPT ![n] = e]
  BY <1>0, <1>1, PutFacts
<1>3. OnlyAt(n, p, st) /\ p.entries[n].value \in Writes[n]
  BY <1>0, <1>2 DEF OnlyAt
<1>4. OwnValues(p)
  BY <1>0, <1>3, OwnPut
<1> QED BY <1>1, <1>2, <1>4, AptFrom

LEMMA TakeAssignApt ==
  ASSUME NEW f, NEW st, Good(st), OwnValues(st), NEW n \in Names,
         NEW m \in Assigns, m.id \in Ids, Apt(f, m),
         NEW mayNeed \in BOOLEAN,
         mayNeed => Has(st, n) /\ m.name = n /\ st.entries[n].id = m.id
  PROVE  AptResult(f, TakeAssign(st, n, m, mayNeed))
<1> DEFINE e == st.entries[n]
           flags == IF mayNeed THEN e.flags ELSE m.flags
           new == [e EXCEPT !.value = m.value, !.seq = m.seq, !.flags = flags]
           kinds == {"update"} \cup (IF flags # e.flags THEN {"flags"} ELSE {})
           tell == EntryUpdate(e.id, e.seq, e.value)
           interim == If(mayNeed /\ m.flags # e.flags, <<ToAll(FlagsUpdate(m.id, e.flags))>>)
           again == If(mayNeed, <<ToAll(tell)>>)
           pass == EntryAssign(n, m.id, m.seq, m.value, flags)
           onward == If(st.server, <<Onward(pass)>>)
           d == flags # e.flags \/ (flags = 1 /\ e.value # m.value)
<1>1. /\ e \in Entry /\ e.flags \in {0, 1} /\ flags \in {0, 1} /\ m.id \in NewIds
      /\ m.value \in Values /\ m.seq \in SeqNums /\ st \in Store
  BY EntryTypes DEF Good, Assigns, NewIds
<1>2. m.value \in Writes[m.name] /\ f[m.id] = m.name
  <2>1. m.type = "assign" /\ m.id # NoId
    BY IdsAre DEF Assigns
  <2> QED BY <2>1 DEF Apt
<1>3. interim \in Seq(AptSends(f))
  <2>1. FlagsUpdate(m.id, e.flags) \in Msgs
    BY <1>1 DEF FlagsUpdate, Msgs, FlagMsgs
  <2>2. ToAll(FlagsUpdate(m.id, e.flags)) \in AptSends(f)
    BY <2>1, AptSend, AptOther
  <2> HIDE DEF e
  <2> QED BY <2>2, IfInSeq
<1>4. again \in Seq(AptSends(f))
  <2>1. ASSUME mayNeed PROVE ToAll(tell) \in AptSends(f)
    <3>1. e.value \in Values /\ e.id = m.id /\ e.seq \in SeqNums /\ e.value \in Writes[n]
      BY <2>1, EntryTypes, <1>1 DEF Has, OwnValues
    <3>2. tell \in Msgs
      BY <1>1, <3>1 DEF EntryUpdate, Msgs, Updates
    <3>3. Apt(f, tell)
      BY <1>2, <2>1, <3>1 DEF Apt, EntryUpdate
    <3> QED BY <3>2, <3>3, AptSend
  <2> HIDE DEF tell
  <2> QED BY <2>1, IfInSeq
<1>5. ASSUME m.name = n PROVE onward \in Seq(AptSends(f))
  <2> HIDE DEF flags
  <2>1. PICK a \in Msgs : a = EntryAssign(n, m.id, m.seq, m.value, flags)
    BY <1>1, MsgTypes
  <2>2. Apt(f, a)
    BY <1>2, <1>5, <2>1 DEF EntryAssign, Apt
  <2>3. Onward(a) \in AptSends(f)
    BY <2>2, AptSend
  <2> QED BY <2>1, <2>3, IfInSeq
<1>6. new \in Entry /\ new.value = m.value
  <2> HIDE DEF flags
  <2> QED BY <1>1 DEF Entry
<1>7. d \in BOOLEAN
  OBVIOUS
<1>8. CASE Lt(m.seq, e.seq)
  <2>1. TakeAssign(st, n, m, mayNeed) = Result(st, <<>>, interim \o again)
    BY <1>8 DEF TakeAssign
  <2> HIDE DEF interim, again
  <2>2. interim \o again \in Seq(AptSends(f))
    BY <1>3, <1>4, Concat
  <2> QED BY <1>1, <2>1, <2>2, AptFrom
<1>9. CASE ~Lt(m.seq, e.seq) /\ m.name # n
  <2>1. TakeAssign(st, n, m, mayNeed) = Result(st, <<>>, interim)
    BY <1>9 DEF TakeAssign
  <2> HIDE DEF interim, again
  <2> QED BY <1>1, <1>3, <2>1, AptFrom
<1>10. CASE ~Lt(m.seq, e.seq) /\ m.name = n
  <2>1. TakeAssign(st, n, m, mayNeed)
          = Result(MarkDirty(PutEntry(st, n, new), d), <<Note(n, m.value, kinds)>>, interim \o onward)
    BY <1>10 DEF TakeAssign
  <2> HIDE DEF interim, onward, new, d, kinds
  <2>2. interim \o onward \in Seq(AptSends(f))
    BY <1>3, <1>5, <1>10, Concat
  <2> QED BY <1>2, <1>6, <1>7, <1>10, <2>1, <2>2, AptValuePut
<1> QED BY <1>8, <1>9, <1>10

LEMMA ServerAssignApt ==
  ASSUME NEW f, NEW st, Good(st), IsServer(st), HasRoom(st), OwnValues(st),
         NEW m \in Assigns, Apt(f, m)
  PROVE  AptResult(f, ServerAssign(st, m))
<1>0. m.id \in NewIds
  BY DEF Assigns
<1>1. CASE m.id = NoId
  BY <1>1, RequestApt DEF ServerAssign
<1>2. CASE m.id # NoId /\ ~KnownId(st, m.id)
  BY <1>2, AptIgnored DEF ServerAssign, Good
<1>3. CASE m.id # NoId /\ KnownId(st, m.id)
  <2>1. m.id \in Ids /\ st.idmap[m.id] \in Names
    BY <1>0, <1>3, KnownFacts
  <2>2. AptResult(f, TakeAssign(st, st.idmap[m.id], m, FALSE))
    BY <2>1, TakeAssignApt
  <2> QED BY <1>3, <2>2 DEF ServerAssign
<1> QED BY <1>1, <1>2, <1>3

LEMMA ClientAssignApt ==
  ASSUME NEW f, NEW st, Good(st), ~IsServer(st), OwnValues(st), NEW m \in Assigns, Apt(f, m)
  PROVE  AptResult(f, ClientAssign(st, m))
<1>0. /\ m.name \in Names /\ m.value \in Values /\ m.flags \in {0, 1} /\ m.id \in NewIds
      /\ m.id # NoId => m.id \in Ids
      /\ st \in Store /\ st.entries \in [Names -> Entry] /\ m.value \in Writes[m.name]
  BY DEF Assigns, NewIds, Good, Store, Apt
<1>1. CASE m.id = NoId
  BY <1>0, <1>1, AptIgnored DEF ClientAssign
<1>2. CASE m.id # NoId /\ KnownId(st, m.id)
  <2>1. m.id \in Ids /\ st.idmap[m.id] \in Names
    BY <1>0, <1>2, KnownFacts
  <2>2. AptResult(f, TakeAssign(st, st.idmap[m.id], m, FALSE))
    BY <2>1, TakeAssignApt
  <2> QED BY <1>2, <2>2 DEF ClientAssign
<1>3. CASE m.id # NoId /\ ~KnownId(st, m.id) /\ Has(st, m.name)
  <2>1. PICK s : s = BindId(st, m.name, m.id)
    OBVIOUS
  <2>2. Good(s) /\ ValuesOf(s) = ValuesOf(st) /\ \A k \in Names : Has(s, k) <=> Has(st, k)
    BY <1>0, <1>3, <2>1, BindFacts
  <2>3. \A k \in Names : s.entries[k].value = st.entries[k].value
    <3>1. \A k \in Names : ValuesOf(s)[k] = s.entries[k].value /\ ValuesOf(st)[k] = st.entries[k].value
      BY DEF ValuesOf
    <3> QED BY <2>2, <3>1
  <2>4. OwnValues(s)
    BY <2>3 DEF OwnValues
  <2>5. s.entries[m.name].id = m.id
    <3>1. s.entries = [st.entries EXCEPT ![m.name] = [st.entries[m.name] EXCEPT !.id = m.id]]
      BY <1>0, <2>1 DEF BindId, Store
    <3>2. s.entries[m.name] = [st.entries[m.name] EXCEPT !.id = m.id]
      BY <1>0, <3>1
    <3>3. st.entries[m.name] \in Entry
      BY <1>0
    <3> QED BY <3>2, <3>3 DEF Entry
  <2>6. AptResult(f, TakeAssign(s, m.name, m, TRUE))
    BY <1>0, <1>3, <2>2, <2>4, <2>5, TakeAssignApt
  <2> QED BY <1>3, <2>1, <2>6 DEF ClientAssign
<1>4. CASE m.id # NoId /\ ~KnownId(st, m.id) /\ ~Has(st, m.name)
  <2>1. PICK e : e = [Fresh EXCEPT !.value = m.value, !.flags = m.flags]
    OBVIOUS
  <2>2. e \in Entry /\ e.value = m.value
    <3>1. Fresh \in Entry
      BY HalfAssumption DEF Fresh, Entry, SeqNums
    <3>2. e.value = m.value
      BY <2>1 DEF Fresh
    <3> QED BY <1>0, <2>1, <3>1, <3>2 DEF Entry
  <2>3. PICK p : p = PutEntry(st, m.name, e)
    OBVIOUS
  <2>4. p \in Store /\ p.entries = [st.entries EXCEPT ![m.name] = e] /\ SameRole(p, st)
    BY <1>0, <2>2, <2>3, PutFacts
  <2>5. PICK s : s = BindId(p, m.name, m.id)
    OBVIOUS
  <2>6. s.entries = [p.entries EXCEPT ![m.name] = [p.entries[m.name] EXCEPT !.id = m.id]]
    BY <2>4, <2>5 DEF BindId, Store
  <2>7. /\ \A k \in Names : k # m.name => s.entries[k] = st.entries[k]
        /\ s.entries[m.name] = [e EXCEPT !.id = m.id]
    BY <1>0, <2>4, <2>6
  <2>8. s.entries[m.name].value = m.value
    BY <2>2, <2>7 DEF Entry
  <2>9. OwnValues(s)
    BY <1>0, <2>7, <2>8 DEF OwnValues
  <2>10. ClientAssign(st, m) = Result(s, <<Note(m.name, m.value, {"new"})>>, <<>>)
    BY <1>4, <2>1, <2>3, <2>5 DEF ClientAssign
  <2>11. <<>> \in Seq(AptSends(f))
    OBVIOUS
  <2> QED BY <2>9, <2>10, <2>11 DEF AptResult, Result
<1> QED BY <1>1, <1>2, <1>3, <1>4

\* An update goes to the entry its id means.
LEMMA UpdateApt ==
  ASSUME NEW f, NEW st, Good(st), OwnValues(st), Means(f, st), NEW m \in Updates, Apt(f, m)
  PROVE  AptResult(f, TakeUpdate(st, m))
<1> DEFINE n == st.idmap[m.id]
           e == st.entries[n]
           new == [e EXCEPT !.value = m.value, !.seq = m.seq]
           d == IsPersistent(e)
           notes == <<Note(n, m.value, {"update"})>>
           out == If(st.server, <<Onward(m)>>)
<1>0. m.id \in NewIds /\ m.seq \in SeqNums /\ m.value \in Values /\ m \in Msgs /\ m.type = "update"
  BY DEF Updates, Msgs
<1>1. CASE ~KnownId(st, m.id) \/ Leq(m.seq, e.seq)
  <2>1. TakeUpdate(st, m) = Ignored(st)
    BY <1>1 DEF TakeUpdate
  <2> QED BY <2>1, AptIgnored DEF Good
<1>2. CASE KnownId(st, m.id) /\ ~Leq(m.seq, e.seq)
  <2>1. n \in Names /\ m.id \in Ids
    BY <1>0, <1>2, KnownFacts
  <2>2. e \in Entry
    <3> HIDE DEF n
    <3> QED BY <2>1, EntryTypes DEF Good
  <2>3. new \in Entry /\ new.value = m.value
    BY <1>0, <2>2 DEF Entry
  <2>4. m.value \in Writes[n]
    <3>1. f[m.id] = n /\ m.id # NoId
      BY <2>1, IdsAre, StorageAssumption DEF Means
    <3> QED BY <1>0, <3>1 DEF Apt
  <2>5. out \in Seq(AptSends(f))
    <3>1. Onward(m) \in AptSends(f)
      BY <1>0, AptSend
    <3> QED BY <3>1, IfInSeq
  <2>6. d \in BOOLEAN
    BY DEF IsPersistent
  <2>7. TakeUpdate(st, m) = Result(MarkDirty(PutEntry(st, n, new), d), notes, out)
    BY <1>2 DEF TakeUpdate
  <2> HIDE DEF d, notes, out, n, new
  <2> QED BY <2>1, <2>3, <2>4, <2>5, <2>6, <2>7, AptValuePut
<1> QED BY <1>1, <1>2

LEMMA TakeFlagsApt ==
  ASSUME NEW f, NEW st, Good(st), OwnValues(st), NEW m \in FlagMsgs
  PROVE  AptResult(f, TakeFlags(st, m))
<1> DEFINE n == st.idmap[m.id]
           e == st.entries[n]
           new == [e EXCEPT !.flags = m.flags]
           notes == <<Note(n, e.value, {"flags"})>>
           out == If(st.server, <<Onward(m)>>)
<1>0. m.id \in NewIds /\ m.flags \in {0, 1} /\ m \in Msgs
  BY DEF FlagMsgs, Msgs, NewIds
<1>1. CASE ~KnownId(st, m.id) \/ e.flags = m.flags
  <2>1. TakeFlags(st, m) = Ignored(st)
    BY <1>1 DEF TakeFlags
  <2> QED BY <2>1, AptIgnored DEF Good
<1>2. CASE KnownId(st, m.id) /\ e.flags # m.flags
  <2>1. n \in Names
    BY <1>0, <1>2, KnownFacts
  <2>2. e \in Entry /\ st \in Store /\ st.entries \in [Names -> Entry]
    <3> HIDE DEF n
    <3> QED BY <2>1, EntryTypes DEF Good, Store
  <2>3. new \in Entry /\ new.value = e.value
    BY <1>0, <2>2 DEF Entry
  <2>4. out \in Seq(AptSends(f))
    <3>1. Onward(m) \in AptSends(f)
      BY <1>0, AptSend, AptOther
    <3> QED BY <3>1, IfInSeq
  <2>5. PICK p, s : p = PutEntry(st, n, new) /\ s = MarkDirty(p, TRUE)
    OBVIOUS
  <2>6. p \in Store /\ p.entries = [st.entries EXCEPT ![n] = new]
    <3> HIDE DEF new, n
    <3> QED BY <2>1, <2>2, <2>3, <2>5, PutFacts
  <2>7. s.entries = p.entries
    BY <2>5, <2>6, DirtyIds
  <2>8. \A k \in Names : s.entries[k].value \in {st.entries[k].value, NoValue}
    <3>1. \A k \in Names : k # n => s.entries[k] = st.entries[k]
      <4> HIDE DEF new, n
      <4> QED BY <2>2, <2>6, <2>7
    <3>2. s.entries[n] = new
      <4> HIDE DEF new, n
      <4> QED BY <2>1, <2>2, <2>6, <2>7
    <3> HIDE DEF new
    <3> QED BY <2>3, <3>1, <3>2
  <2>9. TakeFlags(st, m) = Result(s, notes, out)
    BY <1>2, <2>5 DEF TakeFlags
  <2> HIDE DEF new, out, notes
  <2> QED BY <2>4, <2>8, <2>9, AptSilent
<1> QED BY <1>1, <1>2

LEMMA TakeDeleteApt ==
  ASSUME NEW f, NEW st, Good(st), OwnValues(st), NEW m \in Deletes
  PROVE  AptResult(f, TakeDelete(st, m))
<1> DEFINE n == st.idmap[m.id]
           e == st.entries[n]
           d == IsPersistent(e)
           notes == <<Note(n, e.value, {"delete"})>>
           out == If(st.server, <<Onward(m)>>)
<1>0. m.id \in NewIds /\ m \in Msgs
  BY DEF Deletes, Msgs, NewIds
<1>1. CASE ~KnownId(st, m.id)
  <2>1. TakeDelete(st, m) = Ignored(st)
    BY <1>1 DEF TakeDelete
  <2> QED BY <2>1, AptIgnored DEF Good
<1>2. CASE KnownId(st, m.id)
  <2>1. n \in Names /\ st \in Store /\ st.entries \in [Names -> Entry]
    BY <1>0, <1>2, KnownFacts DEF Good, Store
  <2>2. Fresh \in Entry /\ Fresh.value = NoValue
    BY HalfAssumption DEF Fresh, Entry, SeqNums
  <2>3. PICK p, s : /\ p = PutEntry(st, n, Fresh)
                    /\ s = [MarkDirty(p, d) EXCEPT !.idmap[m.id] = NoName]
    OBVIOUS
  <2>4. p \in Store /\ p.entries = [st.entries EXCEPT ![n] = Fresh]
    <3> HIDE DEF n
    <3> QED BY <2>1, <2>2, <2>3, PutFacts
  <2>5. s.entries = p.entries
    <3> HIDE DEF d
    <3> QED BY <2>3, <2>4 DEF MarkDirty, Store
  <2>6. \A k \in Names : s.entries[k].value \in {st.entries[k].value, NoValue}
    <3> HIDE DEF n
    <3> QED BY <2>1, <2>2, <2>4, <2>5
  <2>7. out \in Seq(AptSends(f))
    <3>1. Onward(m) \in AptSends(f)
      BY <1>0, AptSend, AptOther
    <3> QED BY <3>1, IfInSeq
  <2>8. TakeDelete(st, m) = Result(s, notes, out)
    BY <1>2, <2>3 DEF TakeDelete
  <2> HIDE DEF d, notes, out, n
  <2> QED BY <2>6, <2>7, <2>8, AptSilent
<1> QED BY <1>1, <1>2

LEMMA TakeClearApt ==
  ASSUME NEW f, NEW st, Good(st), OwnValues(st), NEW m \in Clears
  PROVE  AptResult(f, TakeClear(st, m))
<1>1. PICK s, out : s = DeleteAllEntriesImpl(st) /\ out = If(st.server, <<Onward(m)>>)
  OBVIOUS
<1>2. m \in Msgs
  BY DEF Clears, Msgs
<1>3. out \in Seq(AptSends(f))
  <2>1. Onward(m) \in AptSends(f)
    BY <1>2, AptSend, AptOther
  <2> QED BY <1>1, <2>1, IfInSeq
<1>4. \A n \in Names : s.entries[n].value \in {st.entries[n].value, NoValue}
  BY <1>1, ClearedValues DEF Good
<1>5. TakeClear(st, m) = Result(s, ClearNotes(st), out)
  BY <1>1 DEF TakeClear
<1> QED BY <1>3, <1>4, <1>5, AptSilent

\* A message that is apt changes no entry but to a value of its own.
LEMMA IncomingApt ==
  ASSUME NEW f, NEW st, Good(st), HasRoom(st) \/ ~IsServer(st), OwnValues(st), Means(f, st),
         NEW m \in Msgs, Apt(f, m)
  PROVE  AptResult(f, ProcessIncoming(st, m))
<1>1. CASE m \in Assigns /\ IsServer(st)
  <2>1. ProcessIncoming(st, m) = ServerAssign(st, m)
    BY <1>1 DEF Assigns, ProcessIncoming, IsServer
  <2> QED BY <1>1, <2>1, ServerAssignApt
<1>2. CASE m \in Assigns /\ ~IsServer(st)
  <2>1. ProcessIncoming(st, m) = ClientAssign(st, m)
    BY <1>2 DEF Assigns, ProcessIncoming, IsServer
  <2> QED BY <1>2, <2>1, ClientAssignApt
<1>3. CASE m \in Updates
  <2>1. ProcessIncoming(st, m) = TakeUpdate(st, m)
    BY <1>3 DEF Updates, ProcessIncoming
  <2> QED BY <1>3, <2>1, UpdateApt
<1>4. CASE m \in FlagMsgs
  <2>1. ProcessIncoming(st, m) = TakeFlags(st, m)
    BY <1>4 DEF FlagMsgs, ProcessIncoming
  <2> QED BY <1>4, <2>1, TakeFlagsApt
<1>5. CASE m \in Deletes
  <2>1. ProcessIncoming(st, m) = TakeDelete(st, m)
    BY <1>5 DEF Deletes, ProcessIncoming
  <2> QED BY <1>5, <2>1, TakeDeleteApt
<1>6. CASE m \in Clears
  <2>1. ProcessIncoming(st, m) = TakeClear(st, m)
    BY <1>6 DEF Clears, ProcessIncoming
  <2> QED BY <1>6, <2>1, TakeClearApt
<1> QED BY <1>1, <1>2, <1>3, <1>4, <1>5, <1>6 DEF Msgs

\* A snapshot tells what is there.
LEMMA InitialApt ==
  ASSUME NEW f, NEW st, Good(st), IsServer(st), OwnValues(st), Means(f, st)
  PROVE  \A k \in DOMAIN GetInitialAssignments(st) : Apt(f, GetInitialAssignments(st)[k])
<1> DEFINE S == {AssignOf(n, st.entries[n]) : n \in Present(st)}
           g == [n \in Present(st) |-> AssignOf(n, st.entries[n])]
<1>1. IsFiniteSet(S)
  <2>1. g \in [Present(st) -> S] /\ \A x \in S : \E n \in Present(st) : g[n] = x
    OBVIOUS
  <2>2. Present(st) \subseteq Names
    BY DEF Present
  <2> HIDE DEF g, S
  <2> QED BY <2>1, <2>2, FiniteOver
<1>2. \A x \in S : Apt(f, x)
  <2>1. Linked(st) /\ st \in Store
    BY ServerLinked DEF Good
  <2>2. ASSUME NEW n \in Present(st) PROVE Apt(f, AssignOf(n, st.entries[n]))
    <3>1. n \in Names /\ Has(st, n)
      BY DEF Present
    <3> QED BY <2>1, <3>1, AptEntry
  <2> QED BY <2>2
<1>3. PICK msgs : msgs = SetToSeq(S)
  OBVIOUS
<1>4. msgs = GetInitialAssignments(st)
  BY <1>3 DEF GetInitialAssignments
<1> HIDE DEF S
<1>5. \A k \in DOMAIN msgs : msgs[k] \in S
  BY <1>1, <1>3, SetSeq
<1> QED BY <1>2, <1>4, <1>5

\* A client that applies a snapshot takes the values of the server's entries, and
\* tells of its own without ids.
LEMMA ApplyApt ==
  ASSUME NEW f, NEW st, Good(st), ~IsServer(st), OwnValues(st),
         NEW msgs \in Seq(Answers), \A k \in DOMAIN msgs : Apt(f, msgs[k]),
         NEW newServer \in BOOLEAN,
         NEW r, r = ApplyInitialAssignments(st, msgs, newServer)
  PROVE  /\ OwnValues(r.st)
         /\ \A g : r.out \in Seq(AptSends(g)) /\ \A k \in DOMAIN r.requests : Apt(g, r.requests[k])
<1> DEFINE theirs(n) == CHOOSE m \in InitialFor(msgs, n) : TRUE
           known == {n \in Names : InitialFor(msgs, n) # {}}
           unassigned == Present(st) \ known
           won == {k \in known : TheirsWins(st.entries[k], theirs(k), newServer)}
           kept == {k \in known : ~TheirsWins(st.entries[k], theirs(k), newServer)}
           es == [n \in Names |->
                    IF n \in known THEN Merged(st.entries[n], theirs(n), newServer)
                    ELSE [st.entries[n] EXCEPT !.id = NoId]]
           upd(n) == ToAll(EntryUpdate(NoId, st.entries[n].seq, st.entries[n].value))
           out == SetToSeq({upd(n) : n \in kept})
           asked == {AssignOf(n, es[n]) : n \in unassigned}
           requests == SetToSeq(asked)
<1>0. r.out = out /\ r.requests = requests
  BY DEF ApplyInitialAssignments
<1>a. r.st.entries = es
  <2>1. PICK im, z : r.st = [st EXCEPT !.entries = es, !.idmap = im, !.size = z]
    BY DEF ApplyInitialAssignments
  <2> HIDE DEF es
  <2> QED BY <2>1 DEF Good, Store
<1>1. st \in Store /\ st.entries \in [Names -> Entry]
  BY DEF Good, Store
<1>2. \A m \in ToSet(msgs) : m \in Answers /\ Apt(f, m)
  BY DEF ToSet
<1>3. ASSUME NEW n \in known PROVE theirs(n).value \in Writes[n]
  <2>1. theirs(n) \in InitialFor(msgs, n)
    OBVIOUS
  <2>2. theirs(n) \in Answers /\ Apt(f, theirs(n)) /\ theirs(n).name = n
    BY <1>2, <2>1 DEF InitialFor
  <2> HIDE DEF theirs
  <2> QED BY <2>2 DEF Answers, Assigns, Apt
<1>4. /\ known \subseteq Names /\ unassigned \subseteq Names /\ kept \subseteq Names
      /\ \A n \in unassigned : Has(st, n) /\ n \notin known
  BY DEF Present
<1>5. \A n \in Names : es[n] = IF n \in known THEN Merged(st.entries[n], theirs(n), newServer)
                               ELSE [st.entries[n] EXCEPT !.id = NoId]
  OBVIOUS
<1>6. \A n \in kept : ~TheirsWins(st.entries[n], theirs(n), newServer)
  OBVIOUS
<1>k. \A n \in unassigned : AssignOf(n, es[n]) \in asked
  OBVIOUS
<1>l. \A x \in asked : \E n \in unassigned : x = AssignOf(n, es[n])
  OBVIOUS
<1>m. IsFiniteSet(asked)
  <2> DEFINE g == [n \in unassigned |-> AssignOf(n, es[n])]
  <2>1. g \in [unassigned -> asked] /\ \A x \in asked : \E n \in unassigned : g[n] = x
    BY <1>k, <1>l
  <2> HIDE DEF g, asked
  <2> QED BY <1>4, <2>1, FiniteOver
<1>7. out \in Seq({upd(n) : n \in kept})
  <2> DEFINE S == {upd(n) : n \in kept}
             g == [n \in kept |-> upd(n)]
  <2>1. IsFiniteSet(S)
    <3>1. g \in [kept -> S] /\ \A x \in S : \E n \in kept : g[n] = x
      OBVIOUS
    <3> HIDE DEF g, S
    <3> QED BY <1>4, <3>1, FiniteOver
  <2> HIDE DEF S
  <2>2. SetToSeq(S) \in Seq(S)
    BY <2>1, SetSeq
  <2> QED BY <2>2 DEF S
<1> HIDE DEF theirs, known, unassigned, es
<1>8. ASSUME NEW n \in Names PROVE es[n].value \in Writes[n] \cup {NoValue}
  <2>1. st.entries[n] \in Entry /\ st.entries[n].value \in Writes[n] \cup {NoValue}
    BY <1>1 DEF OwnValues
  <2>2. CASE n \notin known
    BY <1>5, <2>1, <2>2 DEF Entry
  <2>3. CASE n \in known /\ TheirsWins(st.entries[n], theirs(n), newServer)
    <3>1. es[n] = [value |-> theirs(n).value, flags |-> theirs(n).flags,
                   id |-> theirs(n).id, seq |-> theirs(n).seq]
      BY <1>5, <2>3 DEF Merged
    <3> QED BY <1>3, <2>3, <3>1
  <2>4. CASE n \in known /\ ~TheirsWins(st.entries[n], theirs(n), newServer)
    <3>1. es[n] = [st.entries[n] EXCEPT !.id = theirs(n).id]
      BY <1>5, <2>4 DEF Merged
    <3> QED BY <2>1, <3>1 DEF Entry
  <2> QED BY <2>2, <2>3, <2>4
<1>9. OwnValues(r.st)
  BY <1>8, <1>a DEF OwnValues
<1>10. ASSUME NEW g PROVE r.out \in Seq(AptSends(g))
  <2>1. ASSUME NEW n \in kept PROVE upd(n) \in AptSends(g)
    <3>1. n \in Names /\ st.entries[n].value # NoValue /\ st.entries[n] \in Entry
      BY <1>1, <1>4, <1>6 DEF TheirsWins
    <3>2. PICK m : m = EntryUpdate(NoId, st.entries[n].seq, st.entries[n].value)
      OBVIOUS
    <3>3. m \in Msgs /\ Apt(g, m)
      BY <3>1, <3>2 DEF Entry, EntryUpdate, Msgs, NewIds, Updates, Apt
    <3> QED BY <3>2, <3>3, AptSend
  <2>2. {upd(n) : n \in kept} \subseteq AptSends(g)
    BY <2>1
  <2> QED BY <1>0, <1>7, <2>2, SeqMore
<1>11. ASSUME NEW g, NEW x \in asked PROVE Apt(g, x)
  <2>1. PICK n \in unassigned : x = AssignOf(n, es[n])
    BY <1>l
  <2>2. /\ n \in Names /\ n \notin known /\ Has(st, n)
        /\ st.entries[n] \in Entry /\ st.entries[n].value \in Writes[n] \cup {NoValue}
    BY <1>1, <1>4 DEF OwnValues
  <2>3. es[n] = [st.entries[n] EXCEPT !.id = NoId]
    BY <1>5, <2>2
  <2>4. es[n].id = NoId /\ es[n].value = st.entries[n].value
    BY <2>2, <2>3 DEF Entry
  <2>5. x.id = NoId /\ x.name = n /\ x.type = "assign" /\ x.value = es[n].value
    BY <2>1, <2>4 DEF AssignOf, EntryAssign
  <2> QED BY <2>2, <2>4, <2>5 DEF Apt, Has
<1>12. \A k \in DOMAIN requests : requests[k] \in asked
  <2> HIDE DEF asked
  <2> QED BY <1>m, SetSeq
<1>13. ASSUME NEW g PROVE \A k \in DOMAIN r.requests : Apt(g, r.requests[k])
  <2> HIDE DEF asked, requests
  <2> QED BY <1>0, <1>11, <1>12
<1> QED BY <1>9, <1>10, <1>13
-----------------------------------------------------------------------------
(* The invariant: all that is held, queued and under way is apt.           *)

AptPosts(f) == {m \in Posts : Apt(f, m)}
AptHeld(f)  == HeldOf(AptSends(f))
AptWires(f) == {w \in Wires : /\ Apt(f, w)
                              /\ w.type \in {"initial", "reply"} =>
                                   \A k \in DOMAIN w.msgs : Apt(f, w.msgs[k])}

\* The server's threads, and those of a client whose connection takes messages; and
\* those of all nodes, as long as nothing has failed.
Engaged(x) == x = Server \/ faults = 0 \/ (x \in Clients /\ ClientActive(x))

NodeFits(f, x) == Engaged(x) => Means(f, store[x]) /\ hand[x] \in Seq(AptHeld(f))

WiresFit(f, c) ==
  /\ pendC[c].msgs \in Seq(AptPosts(f)) /\ PendOK(pendC[c])
  /\ pendS[c].msgs \in Seq(AptPosts(f)) /\ PendOK(pendS[c])
  /\ toServer[c] \in Seq(AptWires(f)) /\ toClient[c] \in Seq(AptWires(f))

TablesFit ==
  /\ \A x \in Nodes : OwnValues(store[x])
  /\ \A n \in Names : file[n] \in Writes[n] \cup {NoValue}

Fitting(f) ==
  /\ TablesFit
  /\ \A x \in Nodes : NodeFits(f, x)
  /\ \A c \in Clients : WiresFit(f, c)

\* What a thread held across a restart of the server has old ids, and once it is
\* overtaken it may be queued with them.
Orderly == ~Overtaken \/ faults = 0

ValuesInv == Orderly => \E f : Named(f) /\ Fitting(f)

LEMMA AptMore ==
  ASSUME NEW f \in Namings, NEW g \in Namings, Extends(g, f), NEW m \in Posts, Apt(f, m)
  PROVE  Apt(g, m)
<1>1. CASE m.type \in {"assign", "update"} /\ m.id # NoId
  <2>1. m.id \in Ids /\ f[m.id] \in Names
    <3>1. m \in Assigns \cup Updates
      BY <1>1, PostTypes
    <3> QED BY <1>1, <3>1 DEF Assigns, Updates, NewIds, Apt
  <2>2. g[m.id] = f[m.id]
    BY <2>1, StorageAssumption DEF Extends
  <2> QED BY <1>1, <2>2 DEF Apt
<1>2. CASE ~(m.type \in {"assign", "update"} /\ m.id # NoId)
  BY <1>2 DEF Apt
<1> QED BY <1>1, <1>2

LEMMA AptSetsMore ==
  ASSUME NEW f \in Namings, NEW g \in Namings, Extends(g, f)
  PROVE  /\ AptPosts(f) \subseteq AptPosts(g) /\ AptSends(f) \subseteq AptSends(g)
         /\ AptHeld(f) \subseteq AptHeld(g) /\ AptWires(f) \subseteq AptWires(g)
<1>1. AptPosts(f) \subseteq AptPosts(g)
  BY AptMore DEF AptPosts
<1>2. AptSends(f) \subseteq AptSends(g)
  <2>1. \A s \in Sends : s.msg \in Posts
    BY DEF Sends, Posts
  <2> QED BY <2>1, AptMore DEF AptSends
<1>3. AptHeld(f) \subseteq AptHeld(g)
  BY <1>2, SeqMore DEF AptHeld, HeldOf
<1>4. ASSUME NEW w \in AptWires(f) PROVE w \in AptWires(g)
  <2>1. w \in Wires /\ Apt(f, w)
    BY DEF AptWires
  <2>2. CASE w \in Posts
    <3>1. Apt(g, w) /\ w.type \notin {"initial", "reply"}
      BY <2>1, <2>2, AptMore, PostTypes
    <3> QED BY <2>1, <3>1 DEF AptWires
  <2>3. CASE w \in Initials \cup Replies
    <3>1. w.type \in {"initial", "reply"} /\ w.msgs \in Seq(Posts)
      <4>1. Answers \subseteq Posts /\ Msgs \subseteq Posts
        BY DEF Answers, Posts, Msgs
      <4> QED BY <2>3, <4>1, SeqMore DEF Initials, Replies
    <3>2. ASSUME NEW k \in DOMAIN w.msgs PROVE Apt(g, w.msgs[k])
      <4>1. PICK m \in Posts : m = w.msgs[k]
        BY <3>1
      <4>2. Apt(f, m)
        BY <3>1, <4>1 DEF AptWires
      <4> QED BY <4>1, <4>2, AptMore
    <3>3. Apt(g, w)
      BY <3>1 DEF Apt
    <3> QED BY <2>1, <3>2, <3>3 DEF AptWires
  <2> QED BY <2>1, <2>2, <2>3 DEF Wires
<1> QED BY <1>1, <1>2, <1>3, <1>4

\* What fits a naming fits one that names more.
LEMMA FittingMore ==
  ASSUME NEW f \in Namings, NEW g \in Namings, Extends(g, f), Fitting(f)
  PROVE  Fitting(g)
<1>1. /\ Seq(AptPosts(f)) \subseteq Seq(AptPosts(g)) /\ Seq(AptHeld(f)) \subseteq Seq(AptHeld(g))
      /\ Seq(AptWires(f)) \subseteq Seq(AptWires(g))
  BY AptSetsMore, SeqMore
<1>2. ASSUME NEW x \in Nodes PROVE NodeFits(g, x)
  <2>1. NodeFits(f, x)
    BY DEF Fitting
  <2>2. Means(f, store[x]) => Means(g, store[x])
    BY MeansMore
  <2> QED BY <1>1, <2>1, <2>2 DEF NodeFits
<1>3. ASSUME NEW c \in Clients PROVE WiresFit(g, c)
  BY <1>1 DEF Fitting, WiresFit
<1> QED BY <1>2, <1>3 DEF Fitting

\* Nothing is known of messages that are not there.
LEMMA NothingFits ==
  /\ PendOK(Q!NoPending)
  /\ \A f : Q!NoPending.msgs \in Seq(AptPosts(f)) /\ <<>> \in Seq(AptWires(f)) /\ <<>> \in Seq(AptHeld(f))
<1>1. \A i \in Ids : Q!NoPending.value[i] = 0 /\ Q!NoPending.flags[i] = 0
  BY DEF Q!NoPending
<1>2. Q!NoPending.msgs = <<>>
  BY NothingPends
<1> QED BY <1>1, <1>2, EmptySeq DEF PendOK

LEMMA AptIsWire == ASSUME NEW f PROVE AptPosts(f) \subseteq AptWires(f)
<1>1. ASSUME NEW m \in AptPosts(f) PROVE m \in AptWires(f)
  <2>1. m \in Posts /\ Apt(f, m) /\ m.type \notin {"initial", "reply"}
    BY PostTypes DEF AptPosts
  <2> QED BY <2>1 DEF AptWires, Wires
<1> QED BY <1>1

\* An update that is merged into an assignment brings it a value of its own.
LEMMA MergeApt ==
  ASSUME NEW f, NEW old \in AptPosts(f), NEW m \in Assigns \cup Updates, Apt(f, m),
         m.id # NoId, Gives(old, m.id)
  PROVE  Q!MergeInto(old, m) \in AptPosts(f)
<1>1. old \in Posts /\ m \in Posts /\ Apt(f, old) /\ Q!MergeInto(old, m) \in Posts
  <2>1. m \in Posts
    BY DEF Posts, Msgs
  <2> QED BY <2>1, MergeType DEF AptPosts
<1>2. CASE old.type = "assign" /\ m.type = "update"
  <2>1. old \in Assigns /\ old.id = m.id
    BY <1>1, <1>2, PostTypes DEF Gives
  <2>2. PICK x : x = [old EXCEPT !.seq = m.seq, !.value = m.value]
    OBVIOUS
  <2>3. x.type = "assign" /\ x.id = m.id /\ x.name = old.name /\ x.value = m.value
    BY <1>2, <2>1, <2>2 DEF Assigns
  <2>4. m.value \in Writes[old.name] /\ f[m.id] = old.name
    BY <1>1, <1>2, <2>1 DEF Apt
  <2>5. Apt(f, x)
    BY <2>3, <2>4 DEF Apt
  <2>6. Q!MergeInto(old, m) = x
    BY <1>2, <2>2 DEF Q!MergeInto
  <2> QED BY <1>1, <2>5, <2>6 DEF AptPosts
<1>3. CASE ~(old.type = "assign" /\ m.type = "update")
  <2>1. Q!MergeInto(old, m) = m
    BY <1>3 DEF Q!MergeInto
  <2> QED BY <1>1, <2>1 DEF AptPosts
<1> QED BY <1>2, <1>3

LEMMA QueueApt ==
  ASSUME NEW f, NEW p \in Pending, p.msgs \in Seq(AptPosts(f)), PendOK(p), NEW m \in Msgs, Apt(f, m),
         NEW q, q = Q!QueueOutgoing(p, m)
  PROVE  q.msgs \in Seq(AptPosts(f)) /\ PendOK(q)
<1>1. m \in AptPosts(f) /\ Q!None \in AptPosts(f)
  <2>1. Q!None \in Posts /\ m \in Posts
    BY DEF Posts
  <2>2. Apt(f, Q!None)
    BY AptOther
  <2> QED BY <2>1, <2>2 DEF AptPosts
<1>2. ASSUME m \in Assigns \cup Updates, m.id \in Ids, NEW k \in DOMAIN p.msgs, k = p.value[m.id]
      PROVE  Q!MergeInto(p.msgs[k], m) \in AptPosts(f)
  <2>1. PICK old \in AptPosts(f) : old = p.msgs[k]
    OBVIOUS
  <2>2. k # 0
    OBVIOUS
  <2>3. Gives(old, m.id) /\ m.id # NoId
    BY <1>2, <2>1, <2>2, IdsAre DEF PendOK
  <2> QED BY <1>2, <2>1, <2>3, MergeApt
<1>3. q.msgs \in Seq(AptPosts(f))
  BY <1>1, <1>2, QueueWithinAt
<1> QED BY <1>3, QueueOutcome
-----------------------------------------------------------------------------
(* The steps of the system and the values.  g is the naming after the step, *)
(* which fits before it too.                                               *)

\* A connection that nothing happens to.
LEMMA WiresStay ==
  ASSUME NEW g, NEW c \in Clients, WiresFit(g, c), pendC'[c] = pendC[c], pendS'[c] = pendS[c],
         toServer'[c] = toServer[c], toClient'[c] = toClient[c]
  PROVE  WiresFit(g, c)'
BY DEF WiresFit

\* A thread's pass.
LEMMA PassFits ==
  ASSUME NodeInv, NEW g, Fitting(g), NEW x \in Nodes, NEW t \in Threads, NEW conn \in Conns,
         NEW r, r.out \in Seq(Sends), AptResult(g, r), Pass(x, t, conn, r), UNCHANGED file,
         Engaged(x)' => hand[x] \in Seq(AptHeld(g)) /\ Means(g, r.st),
         \A y \in Nodes : y # x /\ Engaged(y)' => Engaged(y),
         \A c \in Clients : WiresFit(g, c)'
  PROVE  Fitting(g)'
<1>1. /\ store'[x] = r.st
      /\ \A y \in Nodes : y # x => store'[y] = store[y] /\ hand'[y] = hand[y]
  BY PassAt
<1>2. TablesFit'
  <2>1. ASSUME NEW y \in Nodes PROVE OwnValues(store'[y])
    BY <1>1 DEF AptResult, Fitting, TablesFit
  <2> QED BY <2>1 DEF Fitting, TablesFit
<1>3. ASSUME NEW y \in Nodes, y # x PROVE NodeFits(g, y)'
  <2>1. NodeFits(g, y)
    BY DEF Fitting
  <2>2. Engaged(y)' => Engaged(y)
    BY <1>3
  <2>3. store'[y] = store[y] /\ hand'[y] = hand[y]
    BY <1>1, <1>3
  <2> HIDE DEF Engaged
  <2> QED BY <2>1, <2>2, <2>3 DEF NodeFits
<1>4. ASSUME Engaged(x)' PROVE hand'[x] \in Seq(AptHeld(g))
  <2>1. hand[x] \in Seq(AptHeld(g)) /\ r.out \in Seq(AptSends(g)) /\ hand \in [Nodes -> Seq(Held)]
    BY <1>4 DEF AptResult, NodeInv
  <2>2. CASE r.out = <<>>
    BY <2>1, <2>2 DEF Pass
  <2>3. CASE r.out # <<>>
    <3>1. PICK h : h = [thread |-> t, conn |-> conn, out |-> r.out]
      OBVIOUS
    <3>2. h \in AptHeld(g)
      BY <2>1, <2>3, <3>1 DEF AptHeld, HeldOf, Held
    <3>3. hand' = [hand EXCEPT ![x] = Append(hand[x], h)]
      BY <2>3, <3>1 DEF Pass
    <3> QED BY <2>1, <3>2, <3>3
  <2> QED BY <2>2, <2>3
<1>5. NodeFits(g, x)'
  BY <1>1, <1>4 DEF NodeFits
<1> QED BY <1>2, <1>3, <1>5 DEF Fitting

\* A step of a program.
LEMMA LocalFits ==
  ASSUME TablesInv, NEW g, Fitting(g), Agree(g)', NEW x \in Nodes, NEW r,
         Outcome(store[x], r), Traced(store[x], r), AptResult(g, r),
         Pass(x, User, "none", r), UNCHANGED <<net, file, faults>>
  PROVE  Fitting(g)'
<1>1. NodeInv /\ User \in Threads /\ "none" \in Conns
  BY DEF TablesInv, Threads, Conns
<1>2. \A y \in Nodes : Engaged(y)' => Engaged(y)
  BY DEF net, Engaged, ClientActive
<1>3. \A c \in Clients : WiresFit(g, c)'
  BY WiresStay DEF Fitting, net
<1>4. r.out \in Seq(Sends)
  BY DEF Outcome
<1>5. ASSUME Engaged(x)' PROVE hand[x] \in Seq(AptHeld(g)) /\ Means(g, r.st)
  <2>1. Means(g, store[x]) /\ hand[x] \in Seq(AptHeld(g))
    BY <1>2, <1>5 DEF Fitting, NodeFits
  <2>2. CASE x = Server
    <3>1. Means(g, store'[Server]) /\ store'[x] = r.st
      BY <1>1, PassAt DEF Agree
    <3> QED BY <2>1, <2>2, <3>1
  <2>3. CASE x # Server
    <3>1. ~IsServer(store[x])
      BY <1>1, <2>3 DEF NodeInv
    <3> QED BY <2>1, <3>1 DEF Traced, OldIds, Means
  <2> QED BY <2>2, <2>3
<1>6. UNCHANGED file
  OBVIOUS
<1> QED BY <1>1, <1>2, <1>3, <1>4, <1>5, <1>6, PassFits

LEMMA ChangeFits ==
  ASSUME TablesInv, NEW f, Named(f), NEW g, Fitting(g), Agree(g)', NEW x \in Nodes, Change(x)
  PROVE  Fitting(g)'
<1>1. HasRoom(store[Server]) /\ NodeInv /\ UNCHANGED <<net, file, faults>>
  BY DEF Change, TablesInv
<1>2. Good(store[x]) /\ Linked(store[x]) /\ (HasRoom(store[x]) \/ ~IsServer(store[x]))
  BY <1>1, RoomFor, NodeLinked
<1>3. OwnValues(store[x])
  BY DEF Fitting, TablesFit
<1>4. PICK n \in Names :
        \/ \E v \in Writes[n] :
             \/ Pass(x, User, "none", SetDefaultEntryValue(store[x], n, v))
             \/ Pass(x, User, "none", SetEntryValue(store[x], n, v))
             \/ Pass(x, User, "none", SetEntryTypeValue(store[x], n, v))
        \/ Pass(x, User, "none", DeleteEntry(store[x], n))
  BY DEF Change
<1>5. ASSUME NEW v \in Writes[n], Pass(x, User, "none", SetDefaultEntryValue(store[x], n, v))
      PROVE  Fitting(g)'
  <2>1. v \in Values
    BY TablesAssumption
  <2>2. PICK r : r = SetDefaultEntryValue(store[x], n, v)
    OBVIOUS
  <2>3. Outcome(store[x], r)
    BY <1>2, <2>1, <2>2, DefaultOutcome
  <2>4. Traced(store[x], r)
    BY <1>2, <2>1, <2>2, DefaultIds
  <2>5. AptResult(g, r)
    BY <1>2, <1>3, <2>2, DefaultApt
  <2> QED BY <1>1, <1>5, <2>2, <2>3, <2>4, <2>5, LocalFits
<1>6. ASSUME NEW v \in Writes[n], Pass(x, User, "none", SetEntryValue(store[x], n, v))
      PROVE  Fitting(g)'
  <2>1. v \in Values
    BY TablesAssumption
  <2>2. PICK r : r = SetEntryValue(store[x], n, v)
    OBVIOUS
  <2>3. Outcome(store[x], r)
    BY <1>2, <2>1, <2>2, ValueOutcome
  <2>4. Traced(store[x], r)
    BY <1>2, <2>1, <2>2, SetValueIds
  <2>5. AptResult(g, r)
    BY <1>2, <1>3, <2>2, SetValueApt
  <2> QED BY <1>1, <1>6, <2>2, <2>3, <2>4, <2>5, LocalFits
<1>7. ASSUME NEW v \in Writes[n], Pass(x, User, "none", SetEntryTypeValue(store[x], n, v))
      PROVE  Fitting(g)'
  <2>1. v \in Values
    BY TablesAssumption
  <2>2. PICK r : r = SetEntryTypeValue(store[x], n, v)
    OBVIOUS
  <2>3. Outcome(store[x], r)
    BY <1>2, <2>1, <2>2, TypeValueOutcome
  <2>4. Traced(store[x], r)
    BY <1>2, <2>1, <2>2, SetTypeValueIds
  <2>5. AptResult(g, r)
    BY <1>2, <1>3, <2>2, SetTypeValueApt
  <2> QED BY <1>1, <1>7, <2>2, <2>3, <2>4, <2>5, LocalFits
<1>8. ASSUME Pass(x, User, "none", DeleteEntry(store[x], n))
      PROVE  Fitting(g)'
  <2>1. PICK r : r = DeleteEntry(store[x], n)
    OBVIOUS
  <2>2. Outcome(store[x], r) /\ Traced(store[x], r)
    BY <1>2, <2>1, DeleteOutcome, DeleteIds
  <2>3. AptResult(g, r)
    BY <1>2, <1>3, <2>1, DeleteApt
  <2> QED BY <1>1, <1>8, <2>1, <2>2, <2>3, LocalFits
<1> QED BY <1>4, <1>5, <1>6, <1>7, <1>8

LEMMA ChangeFlagsFits ==
  ASSUME TablesInv, NEW f, Named(f), NEW g, Fitting(g), Agree(g)', NEW x \in Nodes, ChangeFlags(x)
  PROVE  Fitting(g)'
<1>1. PICK n \in Names, b \in {0, 1} : Pass(x, User, "none", SetEntryFlags(store[x], n, b))
  BY DEF ChangeFlags
<1>2. Good(store[x]) /\ Linked(store[x]) /\ OwnValues(store[x])
  BY NodeLinked DEF Fitting, TablesFit
<1>3. PICK r : r = SetEntryFlags(store[x], n, b)
  OBVIOUS
<1>4. Outcome(store[x], r) /\ Traced(store[x], r)
  BY <1>2, <1>3, FlagsOutcome, SetFlagsIds
<1>5. AptResult(g, r)
  BY <1>2, <1>3, SetFlagsApt
<1>6. UNCHANGED <<net, file, faults>>
  BY DEF ChangeFlags
<1> QED BY <1>1, <1>3, <1>4, <1>5, <1>6, LocalFits

LEMMA ClearFits ==
  ASSUME TablesInv, NEW f, Named(f), NEW g, Fitting(g), Agree(g)', NEW x \in Nodes, Clear(x)
  PROVE  Fitting(g)'
<1>1. Good(store[x]) /\ Linked(store[x]) /\ OwnValues(store[x])
  BY NodeLinked DEF Fitting, TablesFit
<1>2. PICK r : r = DeleteAllEntries(store[x])
  OBVIOUS
<1>3. Outcome(store[x], r) /\ Traced(store[x], r)
  BY <1>1, <1>2, AllOutcome, DeleteAllIds
<1>4. AptResult(g, r)
  BY <1>1, <1>2, DeleteAllApt
<1>5. Pass(x, User, "none", r) /\ UNCHANGED <<net, file, faults>>
  BY <1>2 DEF Clear
<1> QED BY <1>3, <1>4, <1>5, LocalFits

\* A message reaches the queues as it is, or merged into one that gives its id.
LEMMA QueueFits ==
  ASSUME TablesInv, NEW g, Fitting(g), NEW x \in Nodes, NEW k \in DOMAIN hand[x], Queue(x, k)
  PROVE  Fitting(g)'
<1>0. /\ NodeInv /\ NetInv /\ hand \in [Nodes -> Seq(Held)] /\ Server \in Nodes /\ Clients \subseteq Nodes
      /\ pendC \in [Clients -> Pending] /\ pendS \in [Clients -> Pending]
  BY ServerIsNode DEF TablesInv, NodeInv, NetInv
<1>1. /\ hand' = [hand EXCEPT ![x] = WithoutFirst(hand[x], k)]
      /\ QueueAt(x, hand[x][k]) /\ UNCHANGED <<store, toServer, toClient, link, file, faults>>
  BY DEF Queue
<1>2. \A y \in Nodes : Engaged(y)' => Engaged(y)
  BY <1>1 DEF Engaged, ClientActive
<1>3. ASSUME Engaged(x)
      PROVE  /\ hand'[x] \in Seq(AptHeld(g))
             /\ hand[x][k] \in AptHeld(g)
             /\ Head(hand[x][k].out) \in AptSends(g)
  <2>1. PICK held \in Seq(AptHeld(g)) : held = hand[x]
    BY <1>3 DEF Fitting, NodeFits
  <2>2. k \in 1 .. Len(held)
    BY <2>1
  <2>3. WithoutFirst(held, k) \in Seq(AptHeld(g))
    BY <2>2, WithoutFirstWithin DEF AptHeld, AptSends
  <2>4. hand'[x] \in Seq(AptHeld(g))
    BY <1>0, <1>1, <2>1, <2>3
  <2>5. PICK h \in AptHeld(g) : h = held[k]
    BY <2>2
  <2>6. PICK o \in Seq(AptSends(g)) : o = h.out /\ o # <<>>
    BY DEF AptHeld, HeldOf, Held
  <2>7. Head(o) \in AptSends(g)
    BY <2>6, HeadTailProperties
  <2> QED BY <2>1, <2>4, <2>5, <2>6, <2>7
<1>4. ASSUME NEW y \in Nodes PROVE NodeFits(g, y)'
  <2>1. NodeFits(g, y) /\ (Engaged(y)' => Engaged(y))
    BY <1>2 DEF Fitting
  <2>2. y # x => hand'[y] = hand[y]
    BY <1>0, <1>1
  <2>3. Engaged(y) => hand'[y] \in Seq(AptHeld(g))
    BY <1>3, <2>1, <2>2 DEF NodeFits
  <2>4. store'[y] = store[y]
    BY <1>1
  <2> HIDE DEF Engaged
  <2> QED BY <2>1, <2>3, <2>4 DEF NodeFits
<1>5. ASSUME NEW c \in Clients PROVE WiresFit(g, c)'
  <2>1. WiresFit(g, c) /\ pendC[c] \in Pending /\ pendS[c] \in Pending
    BY <1>0 DEF Fitting
  <2>2. toServer'[c] = toServer[c] /\ toClient'[c] = toClient[c]
    BY <1>1
  <2>3. CASE x = Server
    <3>1. PICK s \in AptSends(g) : s = Head(hand[x][k].out)
      BY <1>3, <2>3 DEF Engaged
    <3>2. PICK m \in Msgs : m = s.msg /\ Apt(g, m)
      BY DEF AptSends, Sends
    <3>3. UNCHANGED pendC
      BY <1>1, <2>3 DEF QueueAt
    <3>4. PICK q : q = Q!QueueOutgoing(pendS[c], m)
      OBVIOUS
    <3>5. pendS'[c] \in {q, pendS[c]}
      BY <1>1, <2>3, <3>1, <3>2, <3>4 DEF QueueAt
    <3>6. q.msgs \in Seq(AptPosts(g)) /\ PendOK(q)
      BY <2>1, <3>2, <3>4, QueueApt DEF WiresFit
    <3> QED BY <2>1, <2>2, <3>3, <3>5, <3>6 DEF WiresFit
  <2>4. CASE x # Server /\ (x # c \/ ~ClientActive(x))
    <3>1. UNCHANGED pendS
      BY <1>1, <2>4 DEF QueueAt
    <3>2. pendC'[c] = pendC[c]
      BY <1>0, <1>1, <2>4 DEF QueueAt
    <3> QED BY <2>1, <2>2, <3>1, <3>2, WiresStay
  <2>5. CASE x # Server /\ x = c /\ ClientActive(x)
    <3>1. PICK s \in AptSends(g) : s = Head(hand[x][k].out)
      BY <1>3, <2>5 DEF Engaged
    <3>2. PICK m \in Msgs : m = s.msg /\ Apt(g, m)
      BY DEF AptSends, Sends
    <3>3. UNCHANGED pendS
      BY <1>1, <2>5 DEF QueueAt
    <3>4. PICK q : q = Q!QueueOutgoing(pendC[c], m)
      OBVIOUS
    <3>5. pendC' = [pendC EXCEPT ![c] = q]
      BY <1>1, <2>5, <3>1, <3>2, <3>4 DEF QueueAt
    <3>6. q.msgs \in Seq(AptPosts(g)) /\ PendOK(q)
      BY <2>1, <3>2, <3>4, QueueApt DEF WiresFit
    <3>7. pendC'[c] = q
      BY <1>0, <3>5
    <3> QED BY <2>1, <2>2, <3>3, <3>6, <3>7 DEF WiresFit
  <2> QED BY <2>3, <2>4, <2>5
<1>6. TablesFit'
  BY <1>1 DEF Fitting, TablesFit
<1> QED BY <1>4, <1>5, <1>6 DEF Fitting

\* A step between the storages.
LEMMA BetweenFits ==
  ASSUME NEW g, Fitting(g), UNCHANGED <<store, hand, file>>,
         \A y \in Nodes : Engaged(y)' => Engaged(y),
         \A c \in Clients : WiresFit(g, c)'
  PROVE  Fitting(g)'
<1>1. ASSUME NEW y \in Nodes PROVE NodeFits(g, y)'
  <2>1. NodeFits(g, y) /\ (Engaged(y)' => Engaged(y))
    BY DEF Fitting
  <2>2. store'[y] = store[y] /\ hand'[y] = hand[y]
    OBVIOUS
  <2> HIDE DEF Engaged
  <2> QED BY <2>1, <2>2 DEF NodeFits
<1>2. TablesFit'
  BY DEF Fitting, TablesFit
<1> QED BY <1>1, <1>2 DEF Fitting

LEMMA ServerPostsFits ==
  ASSUME TablesInv, NEW g, Fitting(g), NEW c \in Clients, ServerPosts(c)
  PROVE  Fitting(g)'
<1>0. toClient \in [Clients -> Seq(Wires)] /\ pendS \in [Clients -> Pending]
  BY DEF TablesInv, NetInv
<1>1. /\ toClient' = [toClient EXCEPT ![c] = toClient[c] \o pendS[c].msgs]
      /\ pendS' = [pendS EXCEPT ![c] = Q!NoPending]
      /\ UNCHANGED <<store, hand, pendC, toServer, link, file, faults>>
  BY DEF ServerPosts, Q!Posted
<1>2. WiresFit(g, c)'
  <2>1. WiresFit(g, c)
    BY DEF Fitting
  <2>2. pendS[c].msgs \in Seq(AptWires(g)) /\ toClient[c] \in Seq(AptWires(g))
    BY <2>1, AptIsWire, SeqMore DEF WiresFit
  <2>3. toClient'[c] \in Seq(AptWires(g))
    <3>1. toClient[c] \o pendS[c].msgs \in Seq(AptWires(g))
      BY <2>2, Concat
    <3> QED BY <1>0, <1>1, <3>1
  <2>4. pendS'[c] = Q!NoPending
    BY <1>0, <1>1
  <2> QED BY <1>1, <2>1, <2>3, <2>4, NothingFits DEF WiresFit
<1>3. ASSUME NEW d \in Clients, d # c PROVE WiresFit(g, d)'
  <2>1. /\ toClient'[d] = toClient[d] /\ pendS'[d] = pendS[d]
        /\ pendC'[d] = pendC[d] /\ toServer'[d] = toServer[d]
    BY <1>0, <1>1, <1>3
  <2> QED BY <2>1, WiresStay DEF Fitting
<1>4. \A y \in Nodes : Engaged(y)' => Engaged(y)
  BY <1>1 DEF Engaged, ClientActive
<1> QED BY <1>1, <1>2, <1>3, <1>4, BetweenFits

LEMMA ClientPostsFits ==
  ASSUME TablesInv, NEW g, Fitting(g), NEW c \in Clients, ClientPosts(c)
  PROVE  Fitting(g)'
<1>0. toServer \in [Clients -> Seq(Wires)] /\ pendC \in [Clients -> Pending]
  BY DEF TablesInv, NetInv
<1>1. /\ toServer' = [toServer EXCEPT ![c] = toServer[c] \o pendC[c].msgs]
      /\ pendC' = [pendC EXCEPT ![c] = Q!NoPending]
      /\ UNCHANGED <<store, hand, pendS, toClient, link, file, faults>>
  BY DEF ClientPosts, Q!Posted
<1>2. WiresFit(g, c)'
  <2>1. WiresFit(g, c)
    BY DEF Fitting
  <2>2. pendC[c].msgs \in Seq(AptWires(g)) /\ toServer[c] \in Seq(AptWires(g))
    BY <2>1, AptIsWire, SeqMore DEF WiresFit
  <2>3. toServer'[c] \in Seq(AptWires(g))
    <3>1. toServer[c] \o pendC[c].msgs \in Seq(AptWires(g))
      BY <2>2, Concat
    <3> QED BY <1>0, <1>1, <3>1
  <2>4. pendC'[c] = Q!NoPending
    BY <1>0, <1>1
  <2> QED BY <1>1, <2>1, <2>3, <2>4, NothingFits DEF WiresFit
<1>3. ASSUME NEW d \in Clients, d # c PROVE WiresFit(g, d)'
  <2>1. /\ toServer'[d] = toServer[d] /\ pendC'[d] = pendC[d]
        /\ pendS'[d] = pendS[d] /\ toClient'[d] = toClient[d]
    BY <1>0, <1>1, <1>3
  <2> QED BY <2>1, WiresStay DEF Fitting
<1>4. \A y \in Nodes : Engaged(y)' => Engaged(y)
  BY <1>1 DEF Engaged, ClientActive
<1> QED BY <1>1, <1>2, <1>3, <1>4, BetweenFits

LEMMA ConnectFits ==
  ASSUME TablesInv, NEW g, Fitting(g), NEW c \in Clients, Connect(c)
  PROVE  Fitting(g)'
<1>0. link \in [Clients -> {"down", "hello", "sent", "applied", "up"}]
  BY DEF TablesInv, NetInv
<1>1. /\ link' = [link EXCEPT ![c] = "hello"]
      /\ UNCHANGED <<store, hand, pendC, pendS, toServer, toClient, file, faults>>
  BY DEF Connect
<1>2. link'[c] = "hello" /\ \A d \in Clients \ {c} : link'[d] = link[d]
  BY <1>0, <1>1
<1>3. \A y \in Nodes : Engaged(y)' => Engaged(y)
  BY <1>1, <1>2 DEF Engaged, ClientActive
<1>4. \A d \in Clients : WiresFit(g, d)'
  BY <1>1, WiresStay DEF Fitting
<1> QED BY <1>1, <1>3, <1>4, BetweenFits

LEMMA SendInitialFits ==
  ASSUME TablesInv, NEW g, Fitting(g), NEW c \in Clients, SendInitial(c)
  PROVE  Fitting(g)'
<1>0. /\ NodeInv /\ toClient \in [Clients -> Seq(Wires)] /\ Server \in Nodes
      /\ link \in [Clients -> {"down", "hello", "sent", "applied", "up"}]
  BY ServerIsNode DEF TablesInv, NetInv
<1>1. /\ Good(store[Server]) /\ IsServer(store[Server])
      /\ OwnValues(store[Server]) /\ Means(g, store[Server])
  BY <1>0 DEF NodeInv, Fitting, TablesFit, NodeFits, Engaged
<1>2. PICK msgs \in Seq(Answers) : msgs = GetInitialAssignments(store[Server])
  BY <1>1, InitialFacts
<1>3. \A k \in DOMAIN msgs : Apt(g, msgs[k])
  BY <1>1, <1>2, InitialApt
<1>4. PICK w : w = Initial(msgs)
  OBVIOUS
<1>5. w \in AptWires(g)
  <2>1. w.type = "initial" /\ w.msgs = msgs /\ w \in Initials
    BY <1>4 DEF Initial, Initials
  <2> QED BY <1>3, <2>1 DEF AptWires, Wires, Apt
<1>6. /\ link' = [link EXCEPT ![c] = "sent"]
      /\ toClient' = [toClient EXCEPT ![c] = <<w>>]
      /\ UNCHANGED <<store, hand, pendC, pendS, toServer, file, faults>>
  BY <1>2, <1>4 DEF SendInitial
<1>7. PICK s \in Seq(AptWires(g)) : s = <<w>>
  BY <1>5, OneMessage
<1>8. /\ link'[c] = "sent" /\ toClient'[c] = s
      /\ \A d \in Clients \ {c} : link'[d] = link[d] /\ toClient'[d] = toClient[d]
  BY <1>0, <1>6, <1>7
<1>9. \A y \in Nodes : Engaged(y)' => Engaged(y)
  BY <1>6, <1>8 DEF Engaged, ClientActive
<1>10. WiresFit(g, c)'
  BY <1>6, <1>8 DEF Fitting, WiresFit
<1>11. \A d \in Clients \ {c} : WiresFit(g, d)'
  BY <1>6, <1>8, WiresStay DEF Fitting
<1> QED BY <1>6, <1>9, <1>10, <1>11, BetweenFits

\* A client that joins: unless nothing has failed, its threads hold nothing from
\* before.
LEMMA ApplyInitialFits ==
  ASSUME TablesInv, NEW g, Fitting(g), Agree(g)', Orderly', NEW c \in Clients, ApplyInitial(c)
  PROVE  Fitting(g)'
<1>0. /\ NodeInv /\ NetInv /\ toClient \in [Clients -> Seq(Wires)] /\ toServer \in [Clients -> Seq(Wires)]
      /\ link \in [Clients -> {"down", "hello", "sent", "applied", "up"}]
      /\ c \in Nodes /\ c # Server /\ link[c] = "sent" /\ Server \in Nodes /\ Clients \subseteq Nodes
  BY ServerIsNode DEF TablesInv, NetInv, ApplyInitial
<1>1. Head(toClient[c]) \in Initials /\ Tail(toClient[c]) = <<>> /\ toClient[c] # <<>>
  BY <1>0 DEF NetInv, StreamsAgree
<1>2. PICK w \in Initials : w = Head(toClient[c])
  BY <1>1
<1>3. w \in AptWires(g)
  <2>1. PICK s \in Seq(AptWires(g)) : s = toClient[c] /\ s # <<>>
    BY <1>1 DEF Fitting, WiresFit
  <2>2. Head(s) \in AptWires(g)
    BY <2>1, HeadTailProperties
  <2> QED BY <1>2, <2>1, <2>2
<1>4. PICK msgs \in Seq(Answers) : msgs = w.msgs
  BY DEF Initials
<1>5. \A k \in DOMAIN msgs : Apt(g, msgs[k])
  BY <1>3, <1>4 DEF AptWires, Initials
<1>6. PICK r : r = ApplyInitialAssignments(store[c], msgs, NewServer)
  OBVIOUS
<1>7. Good(store[c]) /\ ~IsServer(store[c]) /\ OwnValues(store[c])
  BY <1>0 DEF NodeInv, Fitting, TablesFit
<1>8. Outcome(store[c], r) /\ r.requests \in Seq(Msgs)
  BY <1>6, <1>7, ApplyFacts DEF NewServer
<1>9. /\ OwnValues(r.st) /\ r.out \in Seq(AptSends(g))
      /\ \A k \in DOMAIN r.requests : Apt(g, r.requests[k])
  BY <1>5, <1>6, <1>7, ApplyApt DEF NewServer
<1>10. PICK a : a = Reply(r.requests)
  OBVIOUS
<1>11. a \in AptWires(g)
  <2>1. a.type = "reply" /\ a.msgs = r.requests /\ a \in Replies
    BY <1>8, <1>10 DEF Reply, Replies
  <2> QED BY <1>9, <2>1 DEF AptWires, Wires, Apt
<1>12. /\ Pass(c, "reader", "none", r)
       /\ link' = [link EXCEPT ![c] = "applied"]
       /\ toClient' = [toClient EXCEPT ![c] = <<>>]
       /\ toServer' = [toServer EXCEPT ![c] = <<a>>]
       /\ seen' = SeenIf(hand[c] # <<>>, "overtaken")
       /\ UNCHANGED <<pendC, pendS, file, faults>>
  BY <1>1, <1>2, <1>4, <1>6, <1>10 DEF ApplyInitial
<1>13. PICK s \in Seq(AptWires(g)) : s = <<a>>
  BY <1>11, OneMessage
<1>14. /\ link'[c] = "applied" /\ toClient'[c] = <<>> /\ toServer'[c] = s
       /\ \A d \in Clients \ {c} :
            link'[d] = link[d] /\ toClient'[d] = toClient[d] /\ toServer'[d] = toServer[d]
  BY <1>0, <1>12, <1>13
<1>15. ASSUME NEW d \in Clients PROVE WiresFit(g, d)'
  <2>1. CASE d = c
    BY <1>12, <1>14, <2>1, NothingFits DEF Fitting, WiresFit
  <2>2. CASE d # c
    BY <1>12, <1>14, <2>2, WiresStay DEF Fitting
  <2> QED BY <2>1, <2>2
<1>16. \A y \in Nodes : y # c /\ Engaged(y)' => Engaged(y)
  BY <1>12, <1>14 DEF Engaged, ClientActive
<1>17. hand[c] \in Seq(AptHeld(g))
  <2>1. CASE faults = 0
    BY <1>0, <2>1 DEF Fitting, NodeFits, Engaged
  <2>2. CASE faults # 0
    <3>1. "overtaken" \notin seen'
      BY <1>12, <2>2 DEF Orderly, Overtaken
    <3>2. hand[c] = <<>>
      BY <1>12, <3>1 DEF SeenIf
    <3> QED BY <3>2, NothingFits
  <2> QED BY <2>1, <2>2
<1>18. Means(g, r.st)
  <2>1. store'[c] = r.st
    BY <1>0, <1>12, PassAt
  <2> QED BY <1>14, <2>1 DEF Agree, Heard, ClientActive
<1>19. AptResult(g, r) /\ r.out \in Seq(Sends)
  BY <1>8, <1>9 DEF AptResult, Outcome
<1>20. "reader" \in Threads /\ "none" \in Conns
  BY DEF Threads, Conns
<1> QED BY <1>0, <1>12, <1>15, <1>16, <1>17, <1>18, <1>19, <1>20, PassFits

\* The server takes one message of a client.
LEMMA ServerTakesFits ==
  ASSUME TablesInv, NEW g, Fitting(g), Agree(g)', HasRoom(store[Server]), NEW c \in Clients,
         NEW m \in Msgs, Apt(g, m),
         Pass(Server, c, c, ProcessIncoming(store[Server], m)), UNCHANGED <<link, file, faults>>,
         \A d \in Clients : WiresFit(g, d)'
  PROVE  Fitting(g)'
<1>0. NodeInv /\ Server \in Nodes /\ c \in Threads /\ c \in Conns
  BY ServerIsNode DEF TablesInv, Threads, Conns
<1>1. /\ Good(store[Server]) /\ OwnValues(store[Server]) /\ Means(g, store[Server])
      /\ hand[Server] \in Seq(AptHeld(g))
  BY <1>0 DEF NodeInv, Fitting, TablesFit, NodeFits, Engaged
<1>2. PICK r : r = ProcessIncoming(store[Server], m)
  OBVIOUS
<1>3. AptResult(g, r)
  BY <1>1, <1>2, IncomingApt
<1>4. r.out \in Seq(Sends)
  BY <1>1, <1>2, IncomingOutcome DEF Outcome
<1>5. Pass(Server, c, c, r)
  BY <1>2
<1>6. Means(g, r.st)
  <2>1. store'[Server] = r.st
    BY <1>0, <1>5, PassAt
  <2> QED BY <2>1 DEF Agree
<1>7. \A y \in Nodes : Engaged(y)' => Engaged(y)
  BY DEF Engaged, ClientActive
<1>8. UNCHANGED file
  OBVIOUS
<1> QED BY <1>0, <1>1, <1>3, <1>4, <1>5, <1>6, <1>7, <1>8, PassFits

LEMMA FinishHandshakeFits ==
  ASSUME TablesInv, NEW g, Fitting(g), Agree(g)', NEW c \in Clients, FinishHandshake(c)
  PROVE  Fitting(g)'
<1>0. /\ NetInv /\ link[c] = "applied" /\ toServer \in [Clients -> Seq(Wires)]
      /\ link \in [Clients -> {"down", "hello", "sent", "applied", "up"}]
  BY DEF TablesInv, NetInv, FinishHandshake
<1>1. PICK s \in Seq(AptWires(g)) : s = toServer[c]
  BY DEF Fitting, WiresFit
<1>2. s # <<>> /\ Head(s) \in Replies
  BY <1>0, <1>1 DEF NetInv, StreamsAgree
<1>3. PICK h \in Replies : h = Head(s)
  BY <1>2
<1>4. PICK todo \in Seq(Msgs) : todo = h.msgs
  BY DEF Replies
<1>5. \A k \in DOMAIN todo : Apt(g, todo[k])
  <2>1. h \in AptWires(g)
    BY <1>2, <1>3, HeadTailProperties
  <2> QED BY <1>4, <2>1 DEF AptWires, Replies
<1>6. UNCHANGED <<pendC, pendS, toClient, file, faults>>
  BY DEF FinishHandshake
<1>7. ASSUME NEW t \in Seq(AptWires(g)), toServer' = [toServer EXCEPT ![c] = t], NEW d \in Clients
      PROVE  WiresFit(g, d)'
  <2>1. toServer'[d] = IF d = c THEN t ELSE toServer[d]
    BY <1>0, <1>7
  <2>2. WiresFit(g, d)
    BY DEF Fitting
  <2> QED BY <1>6, <2>1, <2>2 DEF WiresFit
<1>8. CASE /\ todo # <<>> /\ HasRoom(store[Server])
           /\ Pass(Server, c, c, ProcessIncoming(store[Server], Head(todo)))
           /\ toServer' = [toServer EXCEPT ![c][1] = Reply(Tail(todo))]
           /\ UNCHANGED link
  <2>1. PICK m \in Msgs : m = Head(todo) /\ Apt(g, m)
    <3>1. Head(todo) = todo[1] /\ 1 \in DOMAIN todo /\ todo[1] \in Msgs
      BY <1>8
    <3> QED BY <1>5, <3>1
  <2>2. PICK u \in Seq(Msgs) : /\ u = Tail(todo) /\ Len(u) = Len(todo) - 1
                               /\ \A k \in 1 .. Len(u) : u[k] = todo[k + 1]
    BY <1>8, HeadTailProperties
  <2>3. ASSUME NEW k \in DOMAIN u PROVE Apt(g, u[k])
    <3>1. k \in 1 .. Len(u) /\ k + 1 \in DOMAIN todo
      BY <2>2
    <3> QED BY <1>5, <2>2, <3>1
  <2>4. PICK a : a = Reply(u)
    OBVIOUS
  <2>5. a \in AptWires(g)
    <3>1. a.type = "reply" /\ a.msgs = u /\ a \in Replies
      BY <2>4 DEF Reply, Replies
    <3> QED BY <2>3, <3>1 DEF AptWires, Wires, Apt
  <2>6. PICK t \in Seq(AptWires(g)) : t = [s EXCEPT ![1] = a]
    BY <2>5, SeqExcept
  <2>7. toServer' = [toServer EXCEPT ![c] = t]
    BY <1>1, <1>8, <2>2, <2>4, <2>6
  <2>8. \A d \in Clients : WiresFit(g, d)'
    BY <1>7, <2>7
  <2> QED BY <1>6, <1>8, <2>1, <2>8, ServerTakesFits
<1>9. CASE /\ toServer' = [toServer EXCEPT ![c] = Tail(@)]
           /\ link' = [link EXCEPT ![c] = "up"] /\ UNCHANGED <<store, view, hand>>
  <2>1. PICK t \in Seq(AptWires(g)) : t = Tail(s)
    BY <1>2, HeadTailProperties
  <2>2. toServer' = [toServer EXCEPT ![c] = t]
    BY <1>1, <1>9, <2>1
  <2>3. \A d \in Clients : WiresFit(g, d)'
    BY <1>7, <2>2
  <2>4. \A d \in Clients : ClientActive(d)' => ClientActive(d)
    BY <1>0, <1>9 DEF ClientActive
  <2>5. \A y \in Nodes : Engaged(y)' => Engaged(y)
    BY <1>6, <2>4 DEF Engaged
  <2> QED BY <1>6, <1>9, <2>3, <2>5, BetweenFits
<1> QED BY <1>1, <1>3, <1>4, <1>8, <1>9 DEF FinishHandshake

LEMMA ServerReadsFits ==
  ASSUME TablesInv, NEW g, Fitting(g), Agree(g)', NEW c \in Clients, ServerReads(c)
  PROVE  Fitting(g)'
<1>0. /\ NetInv /\ link[c] = "up" /\ toServer[c] # <<>> /\ HasRoom(store[Server])
      /\ toServer \in [Clients -> Seq(Wires)]
  BY DEF TablesInv, NetInv, ServerReads
<1>1. PICK s \in Seq(AptWires(g)) : s = toServer[c] /\ s # <<>>
  BY <1>0 DEF Fitting, WiresFit
<1>2. Head(s) \in Posts
  <2>1. PICK p \in Seq(Posts) : p = toServer[c] /\ p # <<>>
    BY <1>0 DEF NetInv, StreamsAgree
  <2>2. Head(p) \in Posts
    BY <2>1, HeadTailProperties
  <2> QED BY <1>1, <2>1, <2>2
<1>3. PICK m \in AptWires(g) : m = Head(s)
  BY <1>1, HeadTailProperties
<1>4. PICK u \in Seq(AptWires(g)) : u = Tail(s)
  BY <1>1, HeadTailProperties
<1>5. toServer' = [toServer EXCEPT ![c] = u] /\ UNCHANGED <<pendC, pendS, toClient, link, file, faults>>
  BY <1>1, <1>4 DEF ServerReads
<1>6. ASSUME NEW d \in Clients PROVE WiresFit(g, d)'
  <2>1. toServer'[d] = IF d = c THEN u ELSE toServer[d]
    BY <1>0, <1>5
  <2>2. WiresFit(g, d)
    BY DEF Fitting
  <2> QED BY <1>5, <2>1, <2>2 DEF WiresFit
<1>7. CASE m = Q!None
  <2>1. UNCHANGED <<store, hand>>
    BY <1>1, <1>3, <1>7 DEF ServerReads
  <2>2. \A y \in Nodes : Engaged(y)' => Engaged(y)
    BY <1>5 DEF Engaged, ClientActive
  <2> QED BY <1>5, <1>6, <2>1, <2>2, BetweenFits
<1>8. CASE m # Q!None
  <2>1. m \in Msgs /\ Apt(g, m)
    BY <1>2, <1>3, <1>8 DEF Posts, AptWires
  <2>2. Pass(Server, c, c, ProcessIncoming(store[Server], m))
    BY <1>1, <1>3, <1>8 DEF ServerReads
  <2> QED BY <1>0, <1>5, <1>6, <2>1, <2>2, ServerTakesFits
<1> QED BY <1>7, <1>8

LEMMA ClientReadsFits ==
  ASSUME TablesInv, NEW g, Fitting(g), Agree(g)', NEW c \in Clients, ClientReads(c)
  PROVE  Fitting(g)'
<1>0. /\ NodeInv /\ NetInv /\ toClient \in [Clients -> Seq(Wires)]
      /\ ClientActive(c) /\ link[c] \in {"applied", "up"} /\ toClient[c] # <<>>
      /\ c \in Nodes /\ c # Server
  BY ServerIsNode DEF TablesInv, NetInv, ClientReads, ClientActive
<1>1. PICK s \in Seq(AptWires(g)) : s = toClient[c] /\ s # <<>>
  BY <1>0 DEF Fitting, WiresFit
<1>2. Head(s) \in Posts
  <2>1. PICK p \in Seq(Posts) : p = toClient[c] /\ p # <<>>
    BY <1>0 DEF NetInv, StreamsAgree
  <2>2. Head(p) \in Posts
    BY <2>1, HeadTailProperties
  <2> QED BY <1>1, <2>1, <2>2
<1>3. PICK m \in AptWires(g) : m = Head(s)
  BY <1>1, HeadTailProperties
<1>4. PICK u \in Seq(AptWires(g)) : u = Tail(s)
  BY <1>1, HeadTailProperties
<1>5. toClient' = [toClient EXCEPT ![c] = u] /\ UNCHANGED <<pendC, pendS, toServer, link, file, faults>>
  BY <1>1, <1>4 DEF ClientReads
<1>6. ASSUME NEW d \in Clients PROVE WiresFit(g, d)'
  <2>1. toClient'[d] = IF d = c THEN u ELSE toClient[d]
    BY <1>0, <1>5
  <2>2. WiresFit(g, d)
    BY DEF Fitting
  <2> QED BY <1>5, <2>1, <2>2 DEF WiresFit
<1>7. \A y \in Nodes : Engaged(y)' => Engaged(y)
  BY <1>5 DEF Engaged, ClientActive
<1>8. CASE m = Q!None
  <2>1. UNCHANGED <<store, hand>>
    BY <1>1, <1>3, <1>8 DEF ClientReads
  <2> QED BY <1>5, <1>6, <1>7, <2>1, BetweenFits
<1>9. CASE m # Q!None
  <2>1. m \in Msgs /\ Apt(g, m)
    BY <1>2, <1>3, <1>9 DEF Posts, AptWires
  <2>2. PICK r : r = ProcessIncoming(store[c], m)
    OBVIOUS
  <2>3. Pass(c, "reader", "none", r)
    BY <1>1, <1>3, <1>9, <2>2 DEF ClientReads
  <2>4. /\ Good(store[c]) /\ ~IsServer(store[c]) /\ OwnValues(store[c])
        /\ Means(g, store[c]) /\ hand[c] \in Seq(AptHeld(g))
    BY <1>0 DEF NodeInv, Fitting, TablesFit, NodeFits, Engaged
  <2>5. AptResult(g, r)
    BY <2>1, <2>2, <2>4, IncomingApt
  <2>6. r.out \in Seq(Sends)
    BY <2>1, <2>2, <2>4, IncomingOutcome DEF Outcome
  <2>7. Means(g, r.st)
    <3>1. store'[c] = r.st
      BY <1>0, <2>3, PassAt
    <3> QED BY <1>0, <1>5, <3>1 DEF Agree, Heard, ClientActive
  <2>8. "reader" \in Threads /\ "none" \in Conns
    BY DEF Threads, Conns
  <2>9. UNCHANGED file
    BY <1>5
  <2> QED BY <1>0, <1>6, <1>7, <2>3, <2>4, <2>5, <2>6, <2>7, <2>8, <2>9, PassFits
<1> QED BY <1>8, <1>9

\* What is lost is not told.
LEMMA LostFits ==
  ASSUME NEW g, NEW C, Lost(C), NEW c \in Clients, WiresFit(g, c) \/ c \in C
  PROVE  WiresFit(g, c)'
<1>1. CASE c \in C
  <2>1. /\ pendC'[c] = Q!NoPending /\ pendS'[c] = Q!NoPending
        /\ toServer'[c] = <<>> /\ toClient'[c] = <<>>
    BY <1>1 DEF Lost
  <2> QED BY <2>1, NothingFits DEF WiresFit
<1>2. CASE c \notin C
  <2>1. /\ pendC'[c] = pendC[c] /\ pendS'[c] = pendS[c]
        /\ toServer'[c] = toServer[c] /\ toClient'[c] = toClient[c]
    BY <1>2 DEF Lost
  <2> QED BY <1>2, <2>1, WiresStay
<1> QED BY <1>1, <1>2

LEMMA DisconnectFits ==
  ASSUME TablesInv, NEW g, Fitting(g), NEW c \in Clients, Disconnect(c)
  PROVE  Fitting(g)'
<1>1. Lost({c}) /\ UNCHANGED <<store, hand, file>> /\ faults' = faults + 1 /\ faults \in Nat
  BY TablesAssumption DEF Disconnect, TablesInv, CountInv
<1>2. \A d \in Clients : WiresFit(g, d)'
  BY <1>1, LostFits DEF Fitting
<1>3. ASSUME NEW y \in Nodes, Engaged(y)' PROVE Engaged(y)
  <2>1. faults' # 0
    BY <1>1
  <2>2. \A d \in Clients : link'[d] \in {link[d], "down"}
    BY <1>1 DEF Lost
  <2> QED BY <1>3, <2>1, <2>2 DEF Engaged, ClientActive
<1> QED BY <1>1, <1>2, <1>3, BetweenFits

LEMMA SavePersistentFits ==
  ASSUME TablesInv, NEW g, Fitting(g), SavePersistent
  PROVE  Fitting(g)'
<1>0. store \in [Nodes -> Store] /\ Server \in Nodes
  BY ServerIsNode DEF TablesInv, NodeInv
<1>1. /\ store' = [store EXCEPT ![Server].dirty = FALSE]
      /\ file' = PersistentValues(store[Server])
      /\ UNCHANGED <<hand, net, faults>>
  BY DEF SavePersistent
<1>2. ASSUME NEW x \in Nodes
      PROVE  store'[x].entries = store[x].entries /\ store'[x].idmap = store[x].idmap
  BY <1>0, <1>1 DEF Store
<1>3. TablesFit'
  <2>1. \A x \in Nodes : OwnValues(store'[x])
    BY <1>2 DEF Fitting, TablesFit, OwnValues
  <2>2. \A n \in Names : file'[n] \in Writes[n] \cup {NoValue}
    BY <1>0, <1>1 DEF PersistentValues, Fitting, TablesFit, OwnValues
  <2> QED BY <2>1, <2>2 DEF TablesFit
<1>4. ASSUME NEW x \in Nodes PROVE NodeFits(g, x)'
  <2>1. NodeFits(g, x) /\ (Engaged(x)' => Engaged(x))
    BY <1>1 DEF Fitting, Engaged, ClientActive, net
  <2>2. Means(g, store[x]) => Means(g, store'[x])
    BY <1>2 DEF Means
  <2>3. hand'[x] = hand[x]
    BY <1>1
  <2> HIDE DEF Engaged
  <2> QED BY <2>1, <2>2, <2>3 DEF NodeFits
<1>5. \A c \in Clients : WiresFit(g, c)'
  BY <1>1, WiresStay DEF Fitting, net
<1> QED BY <1>3, <1>4, <1>5 DEF Fitting

\* A new server has the values of its file, and nobody else is engaged.
LEMMA ServerRestartsFits ==
  ASSUME TablesInv, NEW f, Fitting(f), NEW g, Agree(g)', ServerRestarts
  PROVE  Fitting(g)'
<1>0. /\ FileInv /\ store \in [Nodes -> Store] /\ hand \in [Nodes -> Seq(Held)]
      /\ Server \in Nodes /\ Clients \subseteq Nodes /\ faults \in Nat
  BY ServerIsNode, TablesAssumption DEF TablesInv, NodeInv, CountInv
<1>1. PICK s : s = Loaded(file)
  OBVIOUS
<1>2. \A n \in Names : s.entries[n].value = file[n]
  <2>1. ValuesOf(s) = file
    BY <1>0, <1>1, LoadedFacts DEF FileInv
  <2> QED BY <2>1 DEF ValuesOf
<1>3. /\ store' = [store EXCEPT ![Server] = s] /\ hand' = [hand EXCEPT ![Server] = <<>>]
      /\ Lost(Clients) /\ faults' = faults + 1 /\ UNCHANGED file
  BY <1>1 DEF ServerRestarts
<1>4. /\ store'[Server] = s /\ hand'[Server] = <<>>
      /\ \A x \in Nodes : x # Server => store'[x] = store[x]
  BY <1>0, <1>3
<1>5. TablesFit'
  <2>1. ASSUME NEW x \in Nodes PROVE OwnValues(store'[x])
    BY <1>2, <1>4 DEF Fitting, TablesFit, OwnValues
  <2> QED BY <1>3, <2>1 DEF Fitting, TablesFit
<1>6. ASSUME NEW x \in Nodes PROVE NodeFits(g, x)'
  <2>1. CASE x = Server
    BY <1>4, <2>1, NothingFits DEF NodeFits, Agree
  <2>2. CASE x # Server
    <3>1. \A c \in Clients : link'[c] = "down"
      BY <1>3 DEF Lost
    <3>2. ~Engaged(x)'
      BY <1>0, <1>3, <2>2, <3>1 DEF Engaged, ClientActive
    <3> QED BY <3>2 DEF NodeFits
  <2> QED BY <2>1, <2>2
<1>7. \A c \in Clients : WiresFit(g, c)'
  BY <1>3, LostFits
<1> QED BY <1>5, <1>6, <1>7 DEF Fitting

LEMMA ValuesInit == Init => ValuesInv
<1> SUFFICES ASSUME Init PROVE \E f : Named(f) /\ Fitting(f)
  BY DEF ValuesInv
<1>1. PICK f : Named(f)
  BY IdsInit DEF IdsInv, Named
<1>2. ASSUME NEW x \in Nodes
      PROVE  store[x].entries = [n \in Names |-> Fresh] /\ store[x].idmap = [i \in Ids |-> NoName]
             /\ hand[x] = <<>>
  BY DEF Init, EmptyStore
<1>3. TablesFit
  <2>1. \A x \in Nodes : OwnValues(store[x])
    BY <1>2 DEF OwnValues, Fresh
  <2> QED BY <2>1 DEF TablesFit, Init, NoFile
<1>4. \A x \in Nodes : NodeFits(f, x)
  BY <1>2, NothingFits DEF NodeFits, Means
<1>5. ASSUME NEW c \in Clients PROVE WiresFit(f, c)
  <2>1. /\ pendC[c] = Q!NoPending /\ pendS[c] = Q!NoPending
        /\ toServer[c] = <<>> /\ toClient[c] = <<>>
    BY DEF Init
  <2> QED BY <2>1, NothingFits DEF WiresFit
<1> QED BY <1>1, <1>3, <1>4, <1>5 DEF Fitting

\* Once a message has overtaken another, and once something has failed, that stays so.
LEMMA OrderlyBefore ==
  ASSUME TablesInv, [Next]_vars, Orderly'
  PROVE  Orderly
<1>1. faults \in Nat
  BY TablesAssumption DEF TablesInv, CountInv
<1>2. seen \subseteq seen' /\ (faults' = faults \/ faults' = faults + 1)
  BY DEF Next, vars, Change, ChangeFlags, Queueing, Queue, Clear, ClientStep, Connect, SendInitial,
         ApplyInitial, FinishHandshake, ServerPosts, ClientPosts, ServerReads, ClientReads,
         Disconnect, SavePersistent, ServerRestarts, SeenIf
<1> QED BY <1>1, <1>2 DEF Orderly, Overtaken

LEMMA FittingStep ==
  ASSUME TablesInv, NEW f, Named(f), NEW g, Fitting(g), Agree(g)', Orderly', [Next]_vars, ~ServerRestarts
  PROVE  Fitting(g)'
<1>1. ASSUME NEW x \in Nodes, Change(x) \/ ChangeFlags(x) \/ Queueing(x) PROVE Fitting(g)'
  <2>1. CASE Change(x)
    BY <2>1, ChangeFits
  <2>2. CASE ChangeFlags(x)
    BY <2>2, ChangeFlagsFits
  <2>3. CASE Queueing(x)
    BY <2>3, QueueFits DEF Queueing
  <2> QED BY <1>1, <2>1, <2>2, <2>3
<1>2. ASSUME NEW x \in Clearers, Clear(x) PROVE Fitting(g)'
  BY <1>2, ClearFits, TablesAssumption
<1>3. ASSUME NEW c \in Clients, ClientStep(c) PROVE Fitting(g)'
  <2>1. CASE Connect(c)
    BY <2>1, ConnectFits
  <2>2. CASE SendInitial(c)
    BY <2>2, SendInitialFits
  <2>3. CASE ApplyInitial(c)
    BY <2>3, ApplyInitialFits
  <2>4. CASE FinishHandshake(c)
    BY <2>4, FinishHandshakeFits
  <2>5. CASE ServerPosts(c)
    BY <2>5, ServerPostsFits
  <2>6. CASE ClientPosts(c)
    BY <2>6, ClientPostsFits
  <2>7. CASE ServerReads(c)
    BY <2>7, ServerReadsFits
  <2>8. CASE ClientReads(c)
    BY <2>8, ClientReadsFits
  <2> QED BY <1>3, <2>1, <2>2, <2>3, <2>4, <2>5, <2>6, <2>7, <2>8 DEF ClientStep
<1>4. ASSUME NEW c \in Clients, Disconnect(c) PROVE Fitting(g)'
  BY <1>4, DisconnectFits
<1>5. CASE UNCHANGED vars
  <2>1. \A c \in Clients : WiresFit(g, c)'
    BY <1>5, WiresStay DEF vars, net, Fitting
  <2>2. \A y \in Nodes : Engaged(y)' => Engaged(y)
    BY <1>5 DEF vars, net, Engaged, ClientActive
  <2> QED BY <1>5, <2>1, <2>2, BetweenFits DEF vars
<1> QED BY <1>1, <1>2, <1>3, <1>4, <1>5, SavePersistentFits DEF Next

LEMMA ValuesStep == TablesInv /\ IdsInv /\ ValuesInv /\ [Next]_vars => ValuesInv'
<1> SUFFICES ASSUME TablesInv, IdsInv, ValuesInv, [Next]_vars, Orderly' PROVE (\E f : Named(f) /\ Fitting(f))'
  BY DEF ValuesInv
<1>1. PICK f : Named(f) /\ Fitting(f)
  BY OrderlyBefore DEF ValuesInv
<1>2. CASE ServerRestarts
  <2>1. IdsInv'
    BY <1>2, ServerRestartsIds
  <2>2. PICK g : g \in Namings /\ Agree(g)' /\ \A c \in Clients : Linked(store[c])'
    BY <2>1 DEF IdsInv
  <2>3. Fitting(g)'
    BY <1>1, <1>2, <2>2, ServerRestartsFits
  <2> QED BY <2>2, <2>3 DEF Named
<1>3. CASE ~ServerRestarts
  <2>1. Follows(f)
    BY <1>1, <1>3, NamingStep
  <2>2. PICK g \in Namings : Extends(g, f) /\ Agree(g)'
    BY <2>1 DEF Follows
  <2>3. f \in Namings
    BY <1>1 DEF Named
  <2>4. Fitting(g)
    BY <1>1, <2>2, <2>3, FittingMore
  <2>5. Fitting(g)'
    BY <1>1, <1>3, <2>2, <2>4, FittingStep
  <2>6. \A c \in Clients : Linked(store[c])'
    BY <2>1 DEF Follows
  <2> QED BY <2>2, <2>5, <2>6 DEF Named
<1> QED BY <1>2, <1>3

LEMMA ValuesFit == ValuesInv => ValuesOwn
BY DEF ValuesInv, Orderly, ValuesOwn, Fitting, TablesFit, OwnValues

\* As long as no message has overtaken another, or nothing has failed, no entry of
\* any node has a value that was written to another: an id that is used always means
\* the entry that the value was written to.
THEOREM ValuesAreOwn == Spec => []ValuesOwn
<1>1. Init => IdsInv /\ ValuesInv
  BY IdsInit, ValuesInit
<1>2. TablesInv /\ IdsInv /\ ValuesInv /\ [Next]_vars => IdsInv' /\ ValuesInv'
  BY IdsStep, ValuesStep
<1>3. ValuesInv => ValuesOwn
  BY ValuesFit
<1> QED BY <1>1, <1>2, <1>3, TablesSafe, PTL DEF Spec
-----------------------------------------------------------------------------
(***************************************************************************)
(* What the comparisons of SequenceNumber.cpp are good for, whatever the   *)
(* width of the numbers: how far apart two of them may be to be ordered    *)
(* right, and where they are not ordered at all.                           *)
(***************************************************************************)
\* The number k increments after s.
After(s, k) == IF s + k > 2 * Half - 1 THEN s + k - 2 * Half ELSE s + k

\* operator++ stays in the circle, and is one increment.
LEMMA IncIsAfter ==
  ASSUME NEW s \in SeqNums
  PROVE  Inc(s) \in SeqNums /\ Inc(s) = After(s, 1)
BY HalfAssumption DEF Inc, After, SeqNums

\* Increments add up, so After(s, k) is what k of them make of s.
LEMMA AfterIncrement ==
  ASSUME NEW s \in SeqNums, NEW k \in 0 .. (2 * Half - 2)
  PROVE  After(s, k) \in SeqNums /\ Inc(After(s, k)) = After(s, k + 1)
BY HalfAssumption DEF Inc, After, SeqNums

\* operator< and operator> are the same order, seen from both sides, and never
\* hold both: no two nodes each take the other's update for the newer one.
THEOREM LtAsymmetric ==
  ASSUME NEW l \in SeqNums, NEW r \in SeqNums
  PROVE  /\ Gt(l, r) <=> Lt(r, l)
         /\ ~(Lt(l, r) /\ Lt(r, l))
         /\ Leq(l, r) /\ Leq(r, l) => l = r
BY HalfAssumption DEF Lt, Gt, Leq, SeqNums

\* An update is taken for newer than the one it follows by fewer than half of the
\* circle's increments, wherever the numbers wrap: a node may miss that many
\* updates of an entry and still take the next one.
THEOREM LaterIsGreater ==
  ASSUME NEW s \in SeqNums, NEW k \in 1 .. (Half - 1)
  PROVE  Lt(s, After(s, k)) /\ ~Leq(After(s, k), s)
BY HalfAssumption DEF Lt, Leq, After, SeqNums

\* And not one more: half of the circle apart, neither is less than the other; and
\* further apart, the later update is refused as the older one.
THEOREM TooLateIsNotGreater ==
  ASSUME NEW s \in SeqNums
  PROVE  /\ ~Lt(s, After(s, Half)) /\ ~Lt(After(s, Half), s)
         /\ \A k \in (Half + 1) .. (2 * Half - 1) : Lt(After(s, k), s)
BY HalfAssumption DEF Lt, After, SeqNums
=============================================================================
