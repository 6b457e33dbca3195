----------------------------- MODULE HashTables -----------------------------
(***************************************************************************)
(* The hash tables the program keeps its entries in: StringMap             *)
(* (Vision/src/StringMap.cpp, include/llvm/StringMap.h) for the entries    *)
(* by name, DenseMap and SmallDenseMap (include/llvm/DenseMap.h) for the   *)
(* remote calls by id.                                                     *)
(*                                                                         *)
(* A table is its buckets, numbered from 0, each a key, Empty or Tombstone,*)
(* and its two counters.  The values travel with their keys and are left   *)
(* out.  FirstBuckets stands for the 16 and LeastBuckets for the 64 of the *)
(* code, so that a handful of keys fills a table.                          *)
(***************************************************************************)
EXTENDS Integers, Sequences, FiniteSets, FiniteSetsExt, SequencesExt

CONSTANTS TableKeys,     \* keys: natural numbers
          HashOf,        \* the hash of each key
          FirstBuckets,  \* buckets of a StringMap when it is first used
          LeastBuckets,  \* least number of buckets a DenseMap allocates
          InlineBuckets, \* buckets inside a SmallDenseMap
          MaxBuckets     \* bound: no table grows past it

ASSUME TablesAssumption ==
  /\ TableKeys \subseteq Nat /\ HashOf \in [TableKeys -> Nat]
  /\ {FirstBuckets, LeastBuckets, InlineBuckets} \subseteq {2 ^ i : i \in 0 .. 10}

VARIABLES tableKind,  \* which of the three containers it is
          table,
          members,    \* ghost: the keys that should be in it
          place,      \* the key and bucket the last insertion returned
          iterator,   \* an iterator: its bucket, or -1
          visited     \* ghost: the keys it has stood on, and those it owes

tableVars == <<tableKind, table, members, place, iterator, visited>>

Empty == -1
Tombstone == -2
-----------------------------------------------------------------------------
(* Sizes.                                                                  *)

\* The least power of two above n (NextPowerOf2), and not below it.
PowerAbove(n) == CHOOSE p \in {2 ^ i : i \in 0 .. 10} : p > n /\ p <= 2 * n + 1
PowerFrom(n) == IF n = 0 THEN 0 ELSE PowerAbove(n - 1)

MinBucketsToReserve(n) == IF n = 0 THEN 0 ELSE PowerAbove((n * 4) \div 3 + 1)

Blank(n) == [size |-> n, bucket |-> [b \in 0 .. n - 1 |-> Empty], items |-> 0, tombs |-> 0]

Buckets(t) == 0 .. t.size - 1
Holds(t, b) == t.bucket[b] \notin {Empty, Tombstone}
-----------------------------------------------------------------------------
(* Probing.  The i-th bucket looked at is the hash plus 1 + 2 + .. + i.     *)

Probe(t, k, i) == (HashOf[k] + (i * (i + 1)) \div 2) % t.size

Ends(t, k, i) == t.bucket[Probe(t, k, i)] \in {Empty, k}

\* The loop has no bound of its own: it ends because some bucket ends it.
Terminates(t, k) == t.size = 0 \/ \E i \in Buckets(t) : Ends(t, k, i)

LastProbe(t, k) == Min({i \in Buckets(t) : Ends(t, k, i)})

FindKey(t, k) ==
  IF t.size = 0 \/ t.bucket[Probe(t, k, LastProbe(t, k))] = Empty THEN -1
  ELSE Probe(t, k, LastProbe(t, k))

\* Where k is, or where it is to go: the first tombstone on the way is used again.
LookupBucketFor(t, k) ==
  LET graves == {i \in 0 .. LastProbe(t, k) : t.bucket[Probe(t, k, i)] = Tombstone}
  IN IF FindKey(t, k) # -1 \/ graves = {} THEN Probe(t, k, LastProbe(t, k))
     ELSE Probe(t, k, Min(graves))

Put(t, k, b) == [t EXCEPT !.bucket[b] = k, !.items = @ + 1,
                          !.tombs = IF t.bucket[b] = Tombstone THEN @ - 1 ELSE @]

\* Every key, in the order of the buckets, into a table of n: the tombstones go.
MoveFromOldBuckets(t, n) ==
  FoldLeft(LAMBDA new, b : IF Holds(t, b - 1)
                           THEN Put(new, t.bucket[b - 1], LookupBucketFor(new, t.bucket[b - 1]))
                           ELSE new,
           Blank(n), [b \in 1 .. t.size |-> b])
-----------------------------------------------------------------------------
(* StringMap: inserts, and makes room afterwards.                          *)

RehashWhenFull(t) ==   \* without a count of the tombstones
  IF t.items * 4 > t.size * 3 THEN MoveFromOldBuckets(t, t.size * 2) ELSE t

RehashTable(t) ==
  IF t.items * 4 > t.size * 3 THEN MoveFromOldBuckets(t, t.size * 2)
  ELSE IF t.size - (t.items + t.tombs) <= t.size \div 8 THEN MoveFromOldBuckets(t, t.size)
  ELSE t

\* The bucket the key lies in after the rehash.
NewBucketNo(t, b) == CHOOSE c \in Buckets(RehashTable(t)) : RehashTable(t).bucket[c] = t.bucket[b]

EmplaceSecond(t0, k) ==
  LET t == IF t0.size = 0 THEN Blank(FirstBuckets) ELSE t0
      b == LookupBucketFor(t, k)
      full == Put(t, k, b)
  IN IF t.bucket[b] = k THEN <<t, b>> ELSE <<RehashTable(full), NewBucketNo(full, b)>>

\* A map that is empty keeps its tombstones; its copy does not get them.
ClearString(t) == IF t.items = 0 THEN t ELSE Blank(t.size)
CopyString(t) == IF t.items = 0 THEN Blank(0) ELSE t
-----------------------------------------------------------------------------
(* DenseMap and SmallDenseMap: make room first, and then look again.       *)

Grow(t, atLeast) ==
  LET n == IF tableKind = "small" /\ atLeast < InlineBuckets THEN t.size
           ELSE Max({LeastBuckets, PowerFrom(atLeast)})
  IN MoveFromOldBuckets(t, n)

MakeRoom(t) ==
  IF (t.items + 1) * 4 >= t.size * 3 THEN Grow(t, t.size * 2)
  ELSE IF t.size - (t.items + 1 + t.tombs) <= t.size \div 8 THEN Grow(t, t.size)
  ELSE t

InsertIntoBucket(t, k) ==
  LET roomy == MakeRoom(t)  b == LookupBucketFor(roomy, k)
  IN IF FindKey(t, k) # -1 THEN <<t, FindKey(t, k)>> ELSE <<Put(roomy, k, b), b>>

TwiceCeil(n) == 2 * PowerFrom(n)   \* 1 << (Log2_32_Ceil(n) + 1)

\* init() of a DenseMap makes the number it is given larger once more.
InitDense(n) == Blank(MinBucketsToReserve(n))
InitSmall(n) == Blank(Max({n, InlineBuckets}))

ShrinkAndClear(t) ==
  LET least == IF t.items = 0 THEN 0
               ELSE IF tableKind = "small" /\ TwiceCeil(t.items) <= InlineBuckets THEN TwiceCeil(t.items)
               ELSE Max({LeastBuckets, TwiceCeil(t.items)})
  IN IF least = t.size \/ (tableKind = "small" /\ t.size = InlineBuckets /\ least <= t.size)
     THEN Blank(t.size)
     ELSE IF tableKind = "small" THEN InitSmall(least) ELSE InitDense(least)

ClearDense(t) ==
  IF t.items = 0 /\ t.tombs = 0 THEN t
  ELSE IF t.items * 4 < t.size /\ t.size > LeastBuckets THEN ShrinkAndClear(t)
  ELSE Blank(t.size)

Reserve(t, n) ==
  IF MinBucketsToReserve(n) > t.size THEN Grow(t, MinBucketsToReserve(n)) ELSE t
-----------------------------------------------------------------------------
(* What a user of the table does.                                          *)

TablesInit ==
  /\ tableKind \in {"string", "dense", "small"}
  /\ table = IF tableKind = "small" THEN InitSmall(0) ELSE Blank(0)
  /\ members = {} /\ place = <<>> /\ iterator = -1 /\ visited = [done |-> {}, due |-> {}]

\* Buckets may have moved: an iterator made before is not used again.
DropIterator == iterator' = -1 /\ visited' = [done |-> {}, due |-> {}]

Insert(k) ==
  LET r == IF tableKind = "string" THEN EmplaceSecond(table, k) ELSE InsertIntoBucket(table, k)
  IN /\ r[1].size <= MaxBuckets
     /\ table' = r[1] /\ place' = <<k, r[2]>>
  /\ members' = members \cup {k}
  /\ DropIterator
  /\ UNCHANGED tableKind

\* Erasing moves nothing: an iterator stays good.
Erase(k) ==
  /\ FindKey(table, k) # -1
  /\ table' = [table EXCEPT !.bucket[FindKey(table, k)] = Tombstone,
                            !.items = @ - 1, !.tombs = @ + 1]
  /\ members' = members \ {k} /\ place' = <<>>
  /\ visited' = [visited EXCEPT !.due = @ \ {k}]
  /\ UNCHANGED <<tableKind, iterator>>

Clear ==
  /\ table' = IF tableKind = "string" THEN ClearString(table) ELSE ClearDense(table)
  /\ members' = {} /\ place' = <<>> /\ DropIterator
  /\ UNCHANGED tableKind

\* The table is replaced by a copy of itself.
Copy ==
  /\ table' = IF tableKind = "string" THEN CopyString(table) ELSE table
  /\ place' = <<>> /\ DropIterator
  /\ UNCHANGED <<tableKind, members>>

ReserveFor(n) ==
  /\ tableKind # "string" /\ Reserve(table, n).size <= MaxBuckets
  /\ table' = Reserve(table, n)
  /\ place' = <<>> /\ DropIterator
  /\ UNCHANGED <<tableKind, members>>

\* AdvancePastEmptyBuckets: the next bucket that holds a key; size is the end.
Advanced(b) == Min({c \in b .. table.size : c = table.size \/ Holds(table, c)})

StandOn(b) ==
  /\ iterator' = b
  /\ visited' = IF b = table.size THEN visited
                ELSE [done |-> visited.done \cup {table.bucket[b]},
                      due |-> visited.due \ {table.bucket[b]}]

Begin ==
  /\ iterator = -1 /\ table.size > 0
  /\ iterator' = Advanced(0)
  /\ visited' = IF iterator' = table.size THEN [done |-> {}, due |-> {}]
                ELSE [done |-> {table.bucket[iterator']}, due |-> members \ {table.bucket[iterator']}]
  /\ UNCHANGED <<tableKind, table, members, place>>

NextItem ==
  /\ iterator \in Buckets(table)
  /\ StandOn(Advanced(iterator + 1))
  /\ UNCHANGED <<tableKind, table, members, place>>

TablesNext ==
  \/ \E k \in TableKeys : Insert(k) \/ Erase(k)
  \/ Clear \/ Copy \/ Begin \/ NextItem
  \/ \E n \in 1 .. MaxBuckets \div 2 : ReserveFor(n)

TablesSpec == TablesInit /\ [][TablesNext]_tableVars
-----------------------------------------------------------------------------
(* Properties.                                                             *)

Keys(t) == {t.bucket[b] : b \in {c \in Buckets(t) : Holds(t, c)}}

\* A search for any key, there or not, comes to an end: tombstones, growth and
\* copies never leave a table without an empty bucket on the way.
SearchesEnd == \A k \in TableKeys : Terminates(table, k)

\* The table finds exactly the keys put in and not taken out, each in one
\* bucket, and its counters, which decide when it grows, are right.
FindsItsKeys ==
  /\ \A k \in TableKeys : k \in members <=> FindKey(table, k) # -1
  /\ table.items = Cardinality({b \in Buckets(table) : Holds(table, b)})
  /\ table.items = Cardinality(Keys(table))
  /\ table.tombs = Cardinality({b \in Buckets(table) : table.bucket[b] = Tombstone})

\* The place an insertion returns is the key's, even after the table has grown.
PlaceIsRight == place # <<>> => table.bucket[place[2]] = place[1]

\* An iteration, with erasures in between, has passed by every key that was
\* there from its beginning to its end.
IterationComplete == iterator = table.size /\ table.size > 0 => visited.due = {}

TablesSound == SearchesEnd /\ FindsItsKeys /\ PlaceIsRight /\ IterationComplete
=============================================================================
