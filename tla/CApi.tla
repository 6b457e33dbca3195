-------------------------------- MODULE CApi --------------------------------
(***************************************************************************)
(* The C interface: whose memory is whose (Vision/src/ntcore_c.cpp,        *)
(* Value.cpp, include/nt_Value.h).                                         *)
(*                                                                         *)
(* A C structure handed to the caller is a kind, the contents that say     *)
(* what memory it has, and the block behind each of its pointers; a        *)
(* pointer is named by its place.  A block is named by who it was first    *)
(* given to and its place there, and Null is no block; freed names are     *)
(* used again, as addresses are.                                           *)
(***************************************************************************)
EXTENDS Integers, Sequences, FiniteSets, FiniteSetsExt, SequencesExt

CONSTANTS ApiTypes,    \* types of value that are set
          MaxItems,    \* bound: elements of an array
          Slots        \* bound: structures a caller keeps at a time

StringTypes == {"string", "raw", "rpc"}
Flat    == {"booleanArray", "doubleArray"}
AllTypes == {"boolean", "double", "stringArray"} \cup StringTypes \cup Flat

ASSUME ApiAssumption ==
  MaxItems \in Nat /\ IsFiniteSet(Slots) /\ ApiTypes \subseteq AllTypes

VARIABLES apiValue,  \* the value of the table's entry, or NoValue
          heap,      \* blocks in use
          vector,    \* blocks of a C++ caller's own vector of strings
          holds,     \* Slots -> the structure a C caller keeps, or Nothing
          apiFault   \* ghost: what went wrong with memory

apiVars == <<apiValue, heap, vector, holds, apiFault>>

Null == <<>>
NoValue == [type |-> "unassigned", turn |-> 0]
Nothing == [kind |-> "nothing", of |-> NoValue, at |-> <<>>]
-----------------------------------------------------------------------------
(* Memory.                                                                 *)

\* free() of several pointers: of a null pointer it does nothing.
Freed(pointers) ==
  LET blocks == SelectSeq(pointers, LAMBDA b : b # Null)
  IN /\ heap' = heap \ ToSet(blocks)
     /\ apiFault' = apiFault
          \cup (IF ToSet(blocks) \subseteq heap /\ IsInjective(blocks) THEN {} ELSE {"free"})
-----------------------------------------------------------------------------
(* What a structure has of its own, and what its disposer gives back.      *)

\* ConvertToC of a value; n is its number of elements.
ValueParts(v) ==
  CASE v.type \in StringTypes -> {<<"str">>}
    [] v.type \in Flat    -> {<<"arr">>}
    [] v.type = "stringArray" -> {<<"arr">>} \cup {<<"str", i>> : i \in 1 .. v.n}
    [] OTHER -> {}

\* ConvertToC of an RPC definition of n parameters with default values of one
\* type, and one result.
DefinitionParts(v) ==
  {<<"name">>, <<"params">>, <<"results">>, <<"result", "name">>}
  \cup {<<"param", i, "name">> : i \in 1 .. v.n}
  \cup {<<"param", i>> \o p : i \in 1 .. v.n, p \in ValueParts(v)}

InfoParts(n) == {<<"arr">>} \cup {<<"name", i>> : i \in 1 .. n}
ConnectionParts(n) ==
  {<<"arr">>} \cup {<<"remote_id", i>> : i \in 1 .. n} \cup {<<"remote_ip", i>> : i \in 1 .. n}

Parts(kind, v) ==
  CASE kind \in {"value", "elements"} -> ValueParts(v)
    [] kind = "definition"  -> DefinitionParts(v)
    [] kind = "call"        -> {<<"name">>, <<"params">>}
    [] kind = "entries"     -> InfoParts(v.n)
    [] kind = "connections" -> ConnectionParts(v.n)
    [] kind = "text"        -> {<<"str">>}

\* NT_DisposeValue goes by the type, which it takes away afterwards.
DisposeValue(v) ==
  CASE v.type \in StringTypes -> << <<"str">> >>
    [] v.type \in Flat -> << <<"arr">> >>
    [] v.type = "stringArray" -> Append([i \in 1 .. v.n |-> <<"str", i>>], <<"arr">>)
    [] OTHER -> <<>>

DisposeDefinition(v) ==
  << <<"name">> >>
  \o FlattenSeq([i \in 1 .. v.n |->
       << <<"param", i, "name">> >>
       \o [j \in DOMAIN DisposeValue(v) |-> <<"param", i>> \o DisposeValue(v)[j]]])
  \o << <<"params">>, <<"result", "name">>, <<"results">> >>

\* Each kind's disposer; arrays of elements have NT_Free...Array of their own.
Disposed(kind, v) ==
  CASE kind \in {"value", "elements"} -> DisposeValue(v)
    [] kind = "definition"  -> DisposeDefinition(v)
    [] kind = "call"        -> << <<"name">>, <<"params">> >>
    [] kind = "entries"     -> Append([i \in 1 .. v.n |-> <<"name", i>>], <<"arr">>)
    [] kind = "connections" ->
         FlattenSeq([i \in 1 .. v.n |-> << <<"remote_id", i>>, <<"remote_ip", i>> >>]) \o << <<"arr">> >>
    [] kind = "text"        -> << <<"str">> >>

\* What a structure is after its disposer: counts are 0 and pointers null, but for
\* an array, whose pointer the caller passed by value, and is not to use again.
AfterDispose(s) ==
  CASE s.kind \in {"value", "definition"} ->
         [s EXCEPT !.of = [type |-> "unassigned", n |-> 0], !.at = [p \in DOMAIN @ |-> Null]]
    [] s.kind = "call" -> [s EXCEPT !.at = [p \in DOMAIN @ |-> Null]]
    [] OTHER -> Nothing
-----------------------------------------------------------------------------
(* Values of the table.  A value has blocks of its own and an NT_Value     *)
(* whose pointers listeners written in C are given.                        *)

OwnBlocks(v) ==
  CASE v.type \in StringTypes \cup Flat -> 1
    [] v.type = "stringArray" -> 1 + v.n
    [] OTHER -> 0

Owned(v) == IF v.type = "unassigned" THEN {} ELSE ToSet(v.own)

\* MakeStringArray of a reference to a caller's vector copies the strings, and
\* points at the ones of the caller.
MakeValue(t, n, from) ==
  LET turn == 1 - apiValue.turn
      own == [i \in 1 .. OwnBlocks([type |-> t, n |-> n]) |-> <<"value", turn, i>>]
  IN [type |-> t, n |-> n, turn |-> turn, own |-> own, from |-> from,
      shows |-> IF from = "reference" /\ t = "stringArray" THEN {own[1]} \cup vector ELSE ToSet(own)]

\* The table takes the value over, and the last owner of the old one deletes it.
Replaced(v) ==
  /\ apiValue' = v
  /\ heap' = (heap \ Owned(apiValue)) \cup Owned(v)
  /\ UNCHANGED apiFault

\* SetEntryTypeValue if force, or else SetEntryValue, which keeps the type.
SetEntry(t, n, from, force) ==
  /\ from = "reference" => t = "stringArray" /\ Cardinality(vector) = n
  /\ IF force \/ apiValue.type \in {"unassigned", t}
     THEN Replaced(MakeValue(t, n, from)) ELSE UNCHANGED <<apiValue, heap, apiFault>>
  /\ UNCHANGED <<vector, holds>>

\* NT_SetDefaultEntryRaw makes a string.
DefaultType(t) == IF t = "raw" THEN "string" ELSE t

SetDefaultEntry(t, n) ==
  /\ t # "rpc"
  /\ IF apiValue = NoValue THEN Replaced(MakeValue(DefaultType(t), n, "copy"))
     ELSE UNCHANGED <<apiValue, heap, apiFault>>
  /\ UNCHANGED <<vector, holds>>

DeleteValue ==
  /\ apiValue # NoValue /\ Replaced(NoValue)
  /\ UNCHANGED <<vector, holds>>

\* NT_SetEntryTypeValue of a value the caller has: the strings are copied.
SetFromC(s) ==
  /\ holds[s].kind = "value" /\ holds[s].of.type # "unassigned"
  /\ Replaced(MakeValue(holds[s].of.type, holds[s].of.n, "copy"))
  /\ UNCHANGED <<vector, holds>>

\* A C++ caller's vector of strings is filled, and later goes out of scope.
VectorComes(n) ==
  /\ vector = {}
  /\ vector' = {<<"vector", i>> : i \in 1 .. n} /\ heap' = heap \cup vector'
  /\ UNCHANGED <<apiValue, holds, apiFault>>

VectorGoes ==
  /\ vector # {} /\ heap' = heap \ vector /\ vector' = {}
  /\ UNCHANGED <<apiValue, holds, apiFault>>

\* A listener in C is given &value->value(), and reads what it points at.
ListenerReads ==
  /\ apiValue # NoValue
  /\ apiFault' = apiFault \cup (IF apiValue.shows \subseteq heap THEN {}
                                 ELSE {IF apiValue.from = "copy" THEN "dangling" ELSE "vector gone"})
  /\ UNCHANGED <<apiValue, heap, vector, holds>>
-----------------------------------------------------------------------------
(* Structures for C.                                                       *)

Gives(s, kind, v) ==
  LET at == [p \in Parts(kind, v) |-> <<s>> \o p]
  IN /\ holds[s] = Nothing
     /\ holds' = [holds EXCEPT ![s] = [kind |-> kind, of |-> v, at |-> at]]
     /\ heap' = heap \cup {at[p] : p \in DOMAIN at}
     /\ UNCHANGED <<apiValue, vector, apiFault>>

Typed(v) == [type |-> v.type, n |-> v.n]

\* NT_GetEntryValue.
GetEntryValue(s) == apiValue # NoValue /\ Gives(s, "value", Typed(apiValue))

\* NT_GetEntryString and the like: nothing of another type.
GetEntry(s, t) ==
  /\ t # "rpc" /\ apiValue.type = t
  /\ Gives(s, IF t \in StringTypes THEN "text" ELSE "elements", Typed(apiValue))

\* NT_GetValueString and the like, of a value the caller has.
GetValue(s, from) ==
  /\ holds[from].kind = "value" /\ holds[from].of.type \notin {"unassigned", "rpc"}
  /\ Gives(s, IF holds[from].of.type \in StringTypes THEN "text" ELSE "elements", holds[from].of)

\* The calls that give information: no elements, no array.
GetInfo(s, kind, t, n) ==
  /\ kind \in {"entries", "connections"} => n > 0
  /\ Gives(s, kind, [type |-> t, n |-> n])

\* The caller disposes of a structure, some of them more than once.
Dispose(s) ==
  LET h == holds[s]
      places == IF h.kind \in {"value", "definition", "call"} /\ h.of.type = "unassigned"
                THEN <<>> ELSE Disposed(h.kind, h.of)
  IN /\ h # Nothing
     /\ Freed([i \in DOMAIN places |-> h.at[places[i]]])
     /\ holds' = [holds EXCEPT ![s] = AfterDispose(h)]
     /\ UNCHANGED <<apiValue, vector>>

\* A structure on the stack goes out of scope: its pointers are lost.
Drop(s) ==
  /\ holds[s].kind \in {"value", "definition", "call"}
  /\ \A p \in DOMAIN holds[s].at : holds[s].at[p] = Null
  /\ holds' = [holds EXCEPT ![s] = Nothing]
  /\ UNCHANGED <<apiValue, heap, vector, apiFault>>

ApiInit ==
  /\ apiValue = NoValue /\ heap = {} /\ vector = {} /\ apiFault = {}
  /\ holds = [s \in Slots |-> Nothing]

\* How many elements matters to memory only for an array of strings.
Sizes(t) == IF t = "stringArray" THEN 0 .. MaxItems ELSE {0}

ApiNext ==
  \/ \E t \in ApiTypes : \E n \in Sizes(t) :
       \/ SetDefaultEntry(t, n)
       \/ \E from \in {"copy", "reference"}, force \in BOOLEAN : SetEntry(t, n, from, force)
  \/ DeleteValue \/ VectorGoes \/ ListenerReads
  \/ \E n \in 1 .. MaxItems : VectorComes(n)
  \/ \E s \in Slots :
       \/ GetEntryValue(s) \/ Dispose(s) \/ Drop(s) \/ SetFromC(s)
       \/ \E t \in ApiTypes : GetEntry(s, t)
       \/ \E from \in Slots : GetValue(s, from)
       \/ GetInfo(s, "call", "double", 0) \/ GetInfo(s, "text", "double", 0)
       \/ \E n \in 0 .. MaxItems :
            \/ GetInfo(s, "entries", "double", n) \/ GetInfo(s, "connections", "double", n)
            \/ \E t \in ApiTypes : GetInfo(s, "definition", t, n)

ApiSpec == ApiInit /\ [][ApiNext]_apiVars
-----------------------------------------------------------------------------
(* Properties.                                                             *)

Kept(s) == {holds[s].at[p] : p \in DOMAIN holds[s].at} \ {Null}
\* Every block in use has one owner, the table, a structure some caller has or
\* the caller's vector, and is freed once, by the disposer of its structure:
\* nothing is lost, freed twice or kept after it is freed, whatever is disposed of
\* or set again in between.
NothingLeaks ==
  /\ "free" \notin apiFault
  /\ heap = UNION {Kept(s) : s \in Slots} \cup Owned(apiValue) \cup vector
  /\ Cardinality(heap) = MapThenSumSet(LAMBDA s : Cardinality(Kept(s)), Slots)
                            + Cardinality(Owned(apiValue)) + Cardinality(vector)

\* A listener in C never reads memory that was freed.  (It does when the value is
\* an array of strings set from a reference, whose vector is gone.)
ListenersReadLive == "dangling" \notin apiFault

ApiSound == NothingLeaks /\ ListenersReadLive
=============================================================================
