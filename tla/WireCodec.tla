----------------------------- MODULE WireCodec -----------------------------
(***************************************************************************)
(* Messages as bytes, and the stream between two nodes                     *)
(* (Vision/src/WireEncoder.cpp, WireDecoder.cpp, Message.cpp, leb128.cpp). *)
(*                                                                         *)
(* A string is a sequence of bytes; a double, its four 16-bit words.  The  *)
(* encoder and the decoder each have their own table of the fields a       *)
(* message has in a revision of the protocol.                              *)
(***************************************************************************)
EXTENDS Integers, Sequences, SequencesExt

CONSTANTS WireMessages,  \* messages the sender may send
          LongString,    \* longest string of protocol 2.0: 0xffff
          LongArray,     \* longest array: 0xff
          MaxSent        \* bound: messages sent on the connection

ASSUME WireAssumption ==
  LongString \in 0 .. 65535 /\ LongArray \in 0 .. 255 /\ MaxSent \in Nat

Rev2 == 512   Rev3 == 768
ClearMagic == <<208, 108, 178, 122>>   \* kClearAllMagic
-----------------------------------------------------------------------------
(* Numbers and strings.                                                    *)

Write8(v)  == <<v % 256>>
Write16(v) == <<(v \div 256) % 256, v % 256>>

RECURSIVE WriteUleb128(_)
WriteUleb128(v) ==
  IF v < 128 THEN <<v>> ELSE <<128 + (v % 128)>> \o WriteUleb128(v \div 128)

RECURSIVE SizeUleb128(_)
SizeUleb128(v) == IF v < 128 THEN 1 ELSE 1 + SizeUleb128(v \div 128)

Truncated(s, limit) == IF Len(s) > limit THEN SubSeq(s, 1, limit) ELSE s

WriteString(rev, s) ==
  IF rev < Rev3 THEN Write16(Len(Truncated(s, LongString))) \o Truncated(s, LongString)
  ELSE WriteUleb128(Len(s)) \o s

GetStringSize(rev, s) ==
  IF rev < Rev3 THEN 2 + Len(Truncated(s, LongString))
  ELSE SizeUleb128(Len(s)) + Len(s)

WriteDouble(d) == FlattenSeq([w \in 1 .. 4 |-> Write16(d[w])])
-----------------------------------------------------------------------------
(* Values: pairs of a type and the data.                                   *)

TypeCode == [boolean |-> 0, double |-> 1, string |-> 2, raw |-> 3, booleanArray |-> 16,
             doubleArray |-> 17, stringArray |-> 18, rpc |-> 32]
TypeNames == DOMAIN TypeCode

Only3(t) == t \in {"raw", "rpc"}

\* In protocol 2.0 the encoder notes an error and writes nothing for these.
WriteType(rev, t) == IF rev < Rev3 /\ Only3(t) THEN <<>> ELSE <<TypeCode[t]>>

WriteElement(rev, t, x) ==
  CASE t = "booleanArray" -> IF x THEN <<1>> ELSE <<0>>
    [] t = "doubleArray"  -> WriteDouble(x)
    [] t = "stringArray"  -> WriteString(rev, x)

WriteValue(rev, v) ==
  LET t == v[1]  d == v[2]  items == Truncated(d, LongArray)
  IN CASE t = "boolean" -> IF d THEN <<1>> ELSE <<0>>
       [] t = "double"  -> WriteDouble(d)
       [] t = "string"  -> WriteString(rev, d)
       [] Only3(t)      -> IF rev < Rev3 THEN <<>> ELSE WriteString(rev, d)
       [] OTHER -> Write8(Len(items))
                     \o FlattenSeq([i \in DOMAIN items |-> WriteElement(rev, t, items[i])])

GetValueSize(rev, v) ==
  LET t == v[1]  d == v[2]  items == Truncated(d, LongArray)
  IN CASE t = "boolean" -> 1
       [] t = "double"  -> 8
       [] t = "string"  -> GetStringSize(rev, d)
       [] Only3(t)      -> IF rev < Rev3 THEN 0 ELSE GetStringSize(rev, d)
       [] t = "booleanArray" -> 1 + Len(items)
       [] t = "doubleArray"  -> 1 + 8 * Len(items)
       [] t = "stringArray"  ->
            FoldLeft(LAMBDA n, s : n + GetStringSize(rev, s), 1, items)
-----------------------------------------------------------------------------
(* Messages: records; msg is the type of the message, type its value's.    *)

MsgCode == [keepAlive |-> 0, clientHello |-> 1, protoUnsup |-> 2, serverHelloDone |-> 3,
            serverHello |-> 4, clientHelloDone |-> 5, assign |-> 16, update |-> 17,
            flags |-> 18, delete |-> 19, clear |-> 20, execute |-> 32, response |-> 33]
MsgTypes == DOMAIN MsgCode

New3 == {"serverHello", "clientHelloDone", "flags", "delete", "clear", "execute", "response"}

\* The fields Message::Write writes after the type, in their order.
Written(t, rev) ==
  LET if3(f) == IF rev < Rev3 THEN <<>> ELSE <<f>>
  IN CASE t = "clientHello"  -> <<"rev">> \o if3("str")
       [] t = "protoUnsup"   -> <<"rev">>
       [] t = "serverHello"  -> <<"flags", "str">>
       [] t = "assign"       -> <<"str", "type", "id", "seq">> \o if3("flags") \o <<"value">>
       [] t = "update"       -> <<"id", "seq">> \o if3("type") \o <<"value">>
       [] t = "flags"        -> <<"id", "flags">>
       [] t = "delete"       -> <<"id">>
       [] t = "clear"        -> <<"magic">>
       [] t \in {"execute", "response"} -> <<"id", "seq", "str">>
       [] OTHER -> <<>>

WriteField(rev, m, f) ==
  CASE f = "rev"   -> Write16(rev)
    [] f = "str"   -> WriteString(rev, m.str)
    [] f = "type"  -> WriteType(rev, m.value[1])
    [] f \in {"id", "seq"} -> Write16(m[f])
    [] f = "flags" -> Write8(m.flags)
    [] f = "value" -> WriteValue(rev, m.value)
    [] f = "magic" -> ClearMagic

\* "new message in version 3.0": nothing is written before.
WriteMessage(rev, m) ==
  IF rev < Rev3 /\ m.msg \in New3 THEN <<>>
  ELSE LET fields == Written(m.msg, rev)
       IN <<MsgCode[m.msg]>>
            \o FlattenSeq([i \in DOMAIN fields |-> WriteField(rev, m, fields[i])])
-----------------------------------------------------------------------------
(* Reading: a result has what was read and the rest of the input, or fails.*)

Failed == [ok |-> FALSE]
Ok(x, rest) == [ok |-> TRUE, x |-> x, rest |-> rest]

ReadBytes(in, n) ==
  IF n > Len(in) THEN Failed
  ELSE Ok(SubSeq(in, 1, n), SubSeq(in, n + 1, Len(in)))

Mapped(r, F(_)) == IF r.ok THEN Ok(F(r.x), r.rest) ELSE r

Read8(in)  == Mapped(ReadBytes(in, 1), LAMBDA b : b[1])
Read16(in) == Mapped(ReadBytes(in, 2), LAMBDA b : 256 * b[1] + b[2])
ReadDouble(in) ==
  Mapped(ReadBytes(in, 8), LAMBDA b : [w \in 1 .. 4 |-> 256 * b[2 * w - 1] + b[2 * w]])

RECURSIVE ReadUleb128(_)
ReadUleb128(in) ==
  IF in = <<>> THEN Failed
  ELSE IF Head(in) < 128 THEN Ok(Head(in), Tail(in))
  ELSE Mapped(ReadUleb128(Tail(in)), LAMBDA v : (Head(in) % 128) + 128 * v)

Then(r, F(_, _)) == IF r.ok THEN F(r.x, r.rest) ELSE r

ReadString(rev, in) ==
  Then(IF rev < Rev3 THEN Read16(in) ELSE ReadUleb128(in), LAMBDA n, rest : ReadBytes(rest, n))

ReadMany(n, in, R(_)) ==
  FoldLeft(LAMBDA r, i : Then(r, LAMBDA s, rest : Mapped(R(rest), LAMBDA x : Append(s, x))),
           Ok(<<>>, in), [i \in 1 .. n |-> i])

ReadType(in) ==
  Then(Read8(in), LAMBDA c, rest :
         IF \E t \in TypeNames : TypeCode[t] = c
         THEN Ok(CHOOSE t \in TypeNames : TypeCode[t] = c, rest) ELSE Failed)

ReadData(rev, t, in) ==
  LET array(R(_)) == Then(Read8(in), LAMBDA n, rest : ReadMany(n, rest, R))
      bool(s) == Mapped(Read8(s), LAMBDA b : b # 0)
      str(s) == ReadString(rev, s)
  IN CASE t = "boolean" -> bool(in)
       [] t = "double"  -> ReadDouble(in)
       [] t = "string"  -> str(in)
       [] Only3(t)      -> IF rev < Rev3 THEN Failed ELSE str(in)
       [] t = "booleanArray" -> array(bool)
       [] t = "doubleArray"  -> array(ReadDouble)
       [] t = "stringArray"  -> array(str)
       [] OTHER -> Failed

ReadValue(rev, t, in) == Mapped(ReadData(rev, t, in), LAMBDA d : <<t, d>>)

\* The fields Message::Read expects.  A client's hello carries its own revision,
\* which says whether its name follows.
Expected(t, rev) ==
  CASE t = "clientHello"  -> <<"rev", "name">>
    [] t = "protoUnsup"   -> <<"rev">>
    [] t = "serverHello"  -> <<"flags", "str">>
    [] t = "assign"       -> <<"str", "type", "id", "seq">>
                               \o (IF rev >= Rev3 THEN <<"flags">> ELSE <<>>) \o <<"value">>
    [] t = "update"       -> <<"id", "seq", IF rev >= Rev3 THEN "type" ELSE "known", "value">>
    [] t = "flags"        -> <<"id", "flags">>
    [] t = "delete"       -> <<"id">>
    [] t = "clear"        -> <<"magic">>
    [] t \in {"execute", "response"} -> <<"id", "seq", "str">>
    [] OTHER -> <<>>

\* got maps the fields read so far; types is get_entry_type.
ReadField(rev, types, got, f, in) ==
  CASE f \in {"rev", "id", "seq"} -> Read16(in)
    [] f = "str"   -> ReadString(rev, in)
    [] f = "name"  -> IF got["rev"] >= Rev3 THEN ReadString(rev, in) ELSE Ok(<<>>, in)
    [] f = "type"  -> ReadType(in)
    [] f = "known" -> Ok(IF got["id"] \in DOMAIN types THEN types[got["id"]] ELSE "unassigned", in)
    [] f = "flags" -> Read8(in)
    [] f = "value" -> ReadValue(rev, IF "type" \in DOMAIN got THEN got["type"] ELSE got["known"], in)
    [] f = "magic" -> Then(ReadBytes(in, 4), LAMBDA b, rest :
                             IF b = ClearMagic THEN Ok(b, rest) ELSE Failed)

ReadMessage(rev, types, in) ==
  LET codes == {t \in MsgTypes : in # <<>> /\ MsgCode[t] = Head(in)}
      t == CHOOSE t \in codes : TRUE
      field(r, f) ==
        Then(r, LAMBDA got, rest :
          Mapped(ReadField(rev, types, got, f, rest),
                 LAMBDA x : [g \in DOMAIN got \cup {f} |-> IF g = f THEN x ELSE got[g]]))
  IN IF codes = {} \/ (rev < Rev3 /\ t \in New3) THEN Failed
     ELSE FoldLeft(field, Ok([msg |-> t], Tail(in)), Expected(t, rev))

-----------------------------------------------------------------------------
(* A connection: one end writes messages, the other reads them, and it may *)
(* break anywhere.                                                         *)

VARIABLES wireRev, sent, stream, received, cut, ended

wireVars == <<wireRev, sent, stream, received, cut, ended>>

WireInit ==
  /\ wireRev \in {Rev2, Rev3}
  /\ sent = <<>> /\ stream = <<>> /\ received = <<>> /\ cut = FALSE /\ ended = FALSE

\* The types of the entries that these messages assign.
TypesIn(messages) ==
  LET assigns == SelectSeq(messages, LAMBDA m : m.msg = "assign")
  IN [i \in {m.id : m \in ToSet(assigns)} |-> Last(SelectSeq(assigns, LAMBDA m : m.id = i)).type]

\* Mutant of KnownTypes: the message just read has not been processed yet.
LateTypes == TypesIn(SubSeq(received, 1, Len(received) - 1))

\* get_entry_type: the types of the entries the reader has been assigned.
KnownTypes == TypesIn(received)

\* An entry's updates follow its assignment and have its type.
Follows(m) ==
  m.msg = "update" =>
    LET before == SelectSeq(sent, LAMBDA a : a.msg = "assign" /\ a.id = m.id)
    IN before # <<>> /\ Last(before).value[1] = m.value[1]

Send(m) ==
  /\ Len(sent) < MaxSent /\ ~cut /\ Follows(m)
  /\ sent' = Append(sent, m)
  /\ stream' = stream \o WriteMessage(wireRev, m)
  /\ UNCHANGED <<wireRev, received, cut, ended>>

Receive ==
  /\ ~ended /\ stream # <<>>
  /\ LET r == ReadMessage(wireRev, KnownTypes, stream)
     IN IF r.ok
        THEN received' = Append(received, r.x) /\ stream' = r.rest /\ UNCHANGED ended
        ELSE ended' = TRUE /\ UNCHANGED <<received, stream>>
  /\ UNCHANGED <<wireRev, sent, cut>>

Cut ==
  /\ ~cut /\ cut' = TRUE
  /\ \E n \in 0 .. Len(stream) : stream' = SubSeq(stream, 1, n)
  /\ UNCHANGED <<wireRev, sent, received, ended>>

WireNext == (\E m \in WireMessages : Send(m)) \/ Receive \/ Cut

WireSpec == WireInit /\ [][WireNext]_wireVars
-----------------------------------------------------------------------------
(* Properties.                                                             *)

\* A value as the reader is to get it: long strings of protocol 2.0 and long
\* arrays are cut off.
CutString(s) == IF wireRev < Rev3 THEN Truncated(s, LongString) ELSE s

CutValue(v) ==
  <<v[1], CASE v[1] = "string" -> CutString(v[2])
            [] v[1] \in {"booleanArray", "doubleArray"} -> Truncated(v[2], LongArray)
            [] v[1] = "stringArray" ->
                 [i \in DOMAIN Truncated(v[2], LongArray) |-> CutString(v[2][i])]
            [] OTHER -> v[2]>>

AsReceived(m) ==
  [f \in {"msg"} \cup ToSet(Expected(m.msg, wireRev)) |->
     CASE f = "rev" -> wireRev
       [] f = "str" -> CutString(m.str)
       [] f = "name" -> IF wireRev < Rev3 THEN <<>> ELSE m.str
       [] f \in {"type", "known"} -> m.value[1]
       [] f = "value" -> CutValue(m.value)
       [] f = "magic" -> ClearMagic
       [] OTHER -> m[f]]

Due ==
  LET shown == SelectSeq(sent, LAMBDA m : wireRev >= Rev3 \/ m.msg \notin New3)
  IN [i \in DOMAIN shown |-> AsReceived(shown[i])]

HasValue(m) == m.msg \in {"assign", "update"}
AllSendable == wireRev >= Rev3 \/ \A m \in ToSet(sent) : HasValue(m) => ~Only3(m.value[1])

\* The reader gets what was sent, in order, and nothing else: no message is
\* read from the bytes of another, wherever the connection breaks, and none is
\* refused.  (Sent to a node of protocol 2.0, a raw or RPC value leaves half a
\* message in the stream, and the reader takes the next one for the rest.)
StreamInStep ==
  AllSendable =>
    /\ IsPrefix(received, Due)
    /\ ended => cut
    /\ stream = <<>> /\ ~cut => received = Due

\* The size computed for a value is the size it is written with.
SizesAgree ==
  \A i \in DOMAIN sent :
    HasValue(sent[i]) =>
      GetValueSize(wireRev, sent[i].value) = Len(WriteValue(wireRev, sent[i].value))
=============================================================================
