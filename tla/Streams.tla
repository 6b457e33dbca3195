------------------------------ MODULE Streams ------------------------------
(***************************************************************************)
(* Output through a buffer and input from a stream (Vision/src/raw_ostream *)
(* .cpp, include/llvm/raw_ostream.h, raw_istream.cpp, raw_socket_*.cpp).   *)
(*                                                                         *)
(* A call works on the buffer at once and leaves the writes and seeks it   *)
(* makes in todo; the device then takes each in pieces, or refuses it.     *)
(* The calls of one stream are made by one thread, which waits for them.   *)
(***************************************************************************)
EXTENDS Integers, Sequences, SequencesExt, FiniteSetsExt

CONSTANTS Chunks,      \* byte sequences that are written, numbers as bytes
          BlockSize,   \* preferred buffer size of the device
          FormatFree,  \* free bytes from which format() tries the buffer: 3
          Source,      \* what the other end sends to be read
          BlockIn,     \* buffer size of raw_fd_istream: 4096
          MaxOutCalls  \* bound: calls on the output stream

ASSUME StreamsAssumption == {BlockSize, FormatFree, BlockIn, MaxOutCalls} \subseteq Nat \ {0}

VARIABLES streamKind,  \* which subclass of raw_ostream
          terminal,    \* preferred_buffer_size() is 0
          appends,     \* opened with F_Append
          mode,        \* BufferMode: "unbuffered" or "internal"
          room,        \* bytes the buffer has, 0 while there is none
          buffered,    \* the bytes in it
          todo,        \* writes and seeks the current call has still to make
          device,      \* what the device holds
          deviceAt,    \* its offset
          position,    \* pos of raw_fd_ostream
          streamError, \* Error
          meant,       \* ghost: what the device should hold when all is written
          meantAt,     \* ghost: where the caller is in it; -1: not defined
          closed,
          outCalls     \* calls made so far

outVars == <<streamKind, terminal, appends, mode, room, buffered, todo, device, deviceAt,
             position, streamError, meant, meantAt, closed, outCalls>>

Bytes(s) == [op |-> "write", bytes |-> s, to |-> 0]
SeekTo(n) == [op |-> "seek", bytes |-> <<>>, to |-> n]

\* s, from offset n on, over what is there; a gap, after a failed write, is zeros.
Overwritten(old, n, s) ==
  [i \in 1 .. Max({Len(old), n + Len(s)}) |->
     CASE i \in n + 1 .. n + Len(s) -> s[i - n] [] i > Len(old) -> 0 [] OTHER -> old[i]]
-----------------------------------------------------------------------------
(* The buffer.  A stream's half of a call: its mode, room and buffer, and  *)
(* what goes to the device.                                                *)

Here == [mode |-> mode, room |-> room, buf |-> buffered, ops |-> <<>>]

FlushNonempty(b) == [b EXCEPT !.ops = Append(@, Bytes(b.buf)), !.buf = <<>>]
Flush(b) == IF b.buf = <<>> THEN b ELSE FlushNonempty(b)

SetBufferAndMode(b, size, m) == [Flush(b) EXCEPT !.room = size, !.mode = m]
PreferredBufferSize == IF terminal THEN 0 ELSE BlockSize

SetBuffered(b) ==
  IF PreferredBufferSize = 0 THEN SetBufferAndMode(b, 0, "unbuffered")
  ELSE SetBufferAndMode(b, PreferredBufferSize, "internal")

RECURSIVE Write(_, _)
Write(b, s) ==
  LET free == b.room - Len(b.buf)
      whole == Len(s) - (Len(s) % b.room)
      filled == [b EXCEPT !.buf = @ \o SubSeq(s, 1, free)]
  IN IF Len(s) <= free THEN [b EXCEPT !.buf = @ \o s]
     ELSE IF b.room = 0 /\ b.mode = "unbuffered" THEN [b EXCEPT !.ops = Append(@, Bytes(s))]
     ELSE IF b.room = 0 THEN Write(SetBuffered(b), s)
     ELSE IF b.buf = <<>>
     THEN [b EXCEPT !.ops = Append(@, Bytes(SubSeq(s, 1, whole))),
                    !.buf = SubSeq(s, whole + 1, Len(s))]
     ELSE Write(FlushNonempty(filled), SubSeq(s, free + 1, Len(s)))

\* snprintf() needs a byte more than it prints.
WriteFormatted(b, s) ==
  LET free == b.room - Len(b.buf)
  IN IF free > FormatFree /\ Len(s) < free THEN [b EXCEPT !.buf = @ \o s] ELSE Write(b, s)

Tell == (CASE streamKind = "fd" -> position
           [] streamKind \in {"string", "vector", "os"} -> Len(device)
           [] OTHER -> 0) + Len(buffered)
-----------------------------------------------------------------------------
OutInit ==
  /\ streamKind \in {"fd", "socket", "string", "vector", "os"}
  /\ terminal \in BOOLEAN /\ (terminal => streamKind = "fd")
  /\ appends \in BOOLEAN /\ (appends => streamKind = "fd")
  \* raw_svector_ostream has no buffer; errs() and a caller may ask for none.
  /\ mode \in {"internal", "unbuffered"} /\ (streamKind = "vector" => mode = "unbuffered")
  /\ (streamKind \notin {"fd", "vector"} => mode = "internal")
  /\ room = 0 /\ buffered = <<>> /\ todo = <<>>
  /\ device = IF appends THEN <<0, 0>> ELSE <<>>
  /\ meant = device /\ meantAt = Len(device)
  /\ deviceAt = 0 /\ position = 0 /\ streamError = FALSE /\ closed = FALSE /\ outCalls = 0

\* A call begins when the one before is done.
Calls ==
  /\ todo = <<>> /\ ~closed
  /\ outCalls < MaxOutCalls /\ outCalls' = outCalls + 1

\* pos counts a write, and takes a seek's result, when it is begun.
Leaves(b) ==
  /\ mode' = b.mode /\ room' = b.room /\ buffered' = b.buf /\ todo' = b.ops
  /\ UNCHANGED <<streamKind, terminal, appends, device, deviceAt, streamError>>

Counted(ops) ==
  FoldLeft(LAMBDA p, o : IF o.op = "write" THEN p + Len(o.bytes) ELSE o.to, position, ops)

WriteBytes(s, formatted) ==
  /\ Calls
  /\ LET b == IF formatted THEN WriteFormatted(Here, s) ELSE Write(Here, s)
     IN Leaves(b) /\ position' = Counted(b.ops)
  /\ meant' = IF meantAt = -1 THEN meant ELSE Overwritten(meant, meantAt, s)
  /\ meantAt' = IF meantAt = -1 THEN -1 ELSE meantAt + Len(s)
  /\ UNCHANGED closed

\* A vector's stream cannot be flushed.
CallFlush ==
  /\ Calls /\ streamKind # "vector" /\ buffered # <<>>
  /\ Leaves(Flush(Here)) /\ position' = Counted(Flush(Here).ops)
  /\ UNCHANGED <<meant, meantAt, closed>>

Rebuffer(size) ==
  /\ Calls /\ streamKind # "vector"
  /\ LET b == SetBufferAndMode(Here, size, IF size = 0 THEN "unbuffered" ELSE "internal")
     IN Leaves(b) /\ position' = Counted(b.ops)
  /\ UNCHANGED <<meant, meantAt, closed>>

SeekOps(b, n) == [Flush(b) EXCEPT !.ops = Append(@, SeekTo(n))]

Seek(n) ==
  /\ Calls /\ streamKind = "fd" /\ n <= Len(meant) /\ n # meantAt
  /\ Leaves(SeekOps(Here, n)) /\ position' = Counted(todo')
  /\ meantAt' = IF appends THEN -1 ELSE n
  /\ UNCHANGED <<meant, closed>>

\* pwrite() may not extend the stream, and a vector writes to its memory.
PWrite(s, n) ==
  /\ Calls /\ meantAt # -1 /\ n + Len(s) <= Tell
  /\ \/ /\ streamKind = "fd"
        /\ LET b == SeekOps(Write(SeekOps(Here, n), s), Tell)
           IN Leaves(b) /\ position' = Counted(b.ops)
        /\ meantAt' = IF appends THEN -1 ELSE meantAt
     \/ /\ streamKind = "vector"
        /\ device' = Overwritten(device, n, s) /\ UNCHANGED meantAt
        /\ UNCHANGED <<streamKind, terminal, appends, mode, room, buffered, todo, deviceAt,
                       position, streamError>>
  /\ meant' = Overwritten(meant, n, s)
  /\ UNCHANGED closed

Close ==
  /\ Calls
  /\ Leaves(Flush(Here)) /\ position' = Counted(Flush(Here).ops)
  /\ closed' = TRUE
  /\ UNCHANGED <<meant, meantAt>>

\* write() takes some of the bytes, or all; interrupted, it is tried again.
DeviceTakes(n) ==
  /\ todo # <<>> /\ Head(todo).op = "write" /\ n \in 1 .. Len(Head(todo).bytes)
  /\ (streamKind \notin {"fd", "socket"} => n = Len(Head(todo).bytes))
  /\ LET s == Head(todo).bytes
         from == IF appends \/ streamKind # "fd" THEN Len(device) ELSE deviceAt
     IN /\ device' = Overwritten(device, from, SubSeq(s, 1, n))
        /\ deviceAt' = from + n
        /\ todo' = IF n = Len(s) THEN Tail(todo)
                   ELSE <<Bytes(SubSeq(s, n + 1, Len(s)))>> \o Tail(todo)
  /\ UNCHANGED <<streamKind, terminal, appends, mode, room, buffered, position,
                 streamError, meant, meantAt, closed, outCalls>>

DeviceSeeks ==
  /\ todo # <<>> /\ Head(todo).op = "seek"
  /\ deviceAt' = Head(todo).to /\ todo' = Tail(todo)
  /\ UNCHANGED <<streamKind, terminal, appends, mode, room, buffered, device, position,
                 streamError, meant, meantAt, closed, outCalls>>

\* An error that does not pass: the rest of this write is dropped.
DeviceRefuses ==
  /\ todo # <<>> /\ Head(todo).op = "write" /\ streamKind \in {"fd", "socket"}
  /\ streamError' = TRUE /\ todo' = Tail(todo)
  /\ UNCHANGED <<streamKind, terminal, appends, mode, room, buffered, device, deviceAt,
                 position, meant, meantAt, closed, outCalls>>

OutNext ==
  \/ \E s \in Chunks : \/ \E f \in BOOLEAN : WriteBytes(s, f)
                       \/ \E n \in 0 .. Tell : PWrite(s, n)
  \/ \E size \in {0, BlockSize} : Rebuffer(size)
  \/ \E n \in 0 .. Len(meant) : Seek(n)
  \/ todo # <<>> /\ \E n \in 1 .. Len(Head(todo).bytes) : DeviceTakes(n)
  \/ CallFlush \/ Close \/ DeviceSeeks \/ DeviceRefuses
-----------------------------------------------------------------------------
(* Reading.                                                                *)

VARIABLES sourceKind,  \* "socket", "fd" or "mem"
          coming,      \* what the other end has still to send
          readBuffer,  \* bytes read into the buffer of raw_fd_istream
          wanted,      \* bytes the current call still wants
          copied,      \* ghost: the bytes calls have copied for their callers
          readError,   \* m_error
          straddled,   \* ghost: a call wanted more than the buffer had left
          endless      \* the call recurs for ever

inVars == <<sourceKind, coming, readBuffer, wanted, copied, readError, straddled, endless>>

InInit ==
  /\ sourceKind \in {"socket", "fd", "mem"}
  /\ coming = Source /\ readBuffer = <<>> /\ wanted = 0
  /\ copied = <<>> /\ readError = FALSE /\ straddled = FALSE /\ endless = FALSE

InAvail == CASE sourceKind = "socket" -> 0
             [] sourceKind = "fd" -> Len(readBuffer)
             [] sourceKind = "mem" -> Len(coming)

\* A caller stops at the first error.  readsome() asks for no more than there is.
Read(n, some) ==
  /\ wanted = 0 /\ ~readError
  /\ wanted' = IF some THEN Min({n, InAvail}) ELSE n
  /\ UNCHANGED <<sourceKind, coming, readBuffer, copied, readError, straddled, endless>>

\* receive() gives what has come, at most what is wanted.
SocketGives(n) ==
  /\ sourceKind = "socket" /\ n \in 1 .. Min({wanted, Len(coming)})
  /\ copied' = copied \o SubSeq(coming, 1, n)
  /\ coming' = SubSeq(coming, n + 1, Len(coming)) /\ wanted' = wanted - n
  /\ UNCHANGED <<sourceKind, readBuffer, readError, straddled, endless>>

\* The timeout, the end of the stream or an error: receive() gives nothing.
SocketEnds ==
  /\ sourceKind = "socket" /\ wanted > 0
  /\ readError' = TRUE /\ wanted' = 0
  /\ UNCHANGED <<sourceKind, coming, readBuffer, copied, straddled, endless>>

MemGives ==
  /\ sourceKind = "mem" /\ wanted > 0
  /\ IF wanted > Len(coming) THEN readError' = TRUE /\ UNCHANGED <<coming, copied>>
     ELSE /\ copied' = copied \o SubSeq(coming, 1, wanted)
          /\ coming' = SubSeq(coming, wanted + 1, Len(coming)) /\ UNCHANGED readError
  /\ wanted' = 0
  /\ UNCHANGED <<sourceKind, readBuffer, straddled, endless>>

\* Fewer bytes left than wanted: they are copied, but not taken from the buffer.
BufferGives ==
  /\ sourceKind = "fd" /\ wanted > 0 /\ readBuffer # <<>>
  /\ LET left == Len(readBuffer)
     IN IF left < wanted
        THEN /\ copied' = copied \o readBuffer /\ wanted' = wanted - left
             /\ straddled' = TRUE /\ UNCHANGED readBuffer
        ELSE /\ copied' = copied \o SubSeq(readBuffer, 1, wanted) /\ wanted' = 0
             /\ readBuffer' = SubSeq(readBuffer, wanted + 1, left) /\ UNCHANGED straddled
  /\ UNCHANGED <<sourceKind, coming, readError, endless>>

BufferFills(n) ==
  /\ sourceKind = "fd" /\ wanted > 0 /\ readBuffer = <<>>
  /\ n \in 1 .. Min({BlockIn, Len(coming)})
  /\ readBuffer' = SubSeq(coming, 1, n) /\ coming' = SubSeq(coming, n + 1, Len(coming))
  /\ UNCHANGED <<sourceKind, wanted, copied, readError, straddled, endless>>

\* read() gives an error, or at the end 0 bytes: the call begins again.
BufferEnds ==
  /\ sourceKind = "fd" /\ wanted > 0 /\ readBuffer = <<>>
  /\ \/ readError' = TRUE /\ wanted' = 0 /\ UNCHANGED endless
     \/ coming = <<>> /\ endless' = TRUE /\ UNCHANGED <<readError, wanted>>
  /\ UNCHANGED <<sourceKind, coming, readBuffer, copied, straddled>>

InNext ==
  \/ \E n \in 1 .. 3 : Read(n, TRUE) \/ Read(n, FALSE) \/ SocketGives(n) \/ BufferFills(n)
  \/ SocketEnds \/ MemGives \/ BufferGives \/ BufferEnds

StreamsInit == OutInit /\ InInit
StreamsNext ==
  \/ OutNext /\ UNCHANGED inVars
  \/ InNext /\ UNCHANGED outVars
-----------------------------------------------------------------------------
(* Properties.                                                             *)

\* The device after a call's writes and seeks.
After_(ops) ==
  FoldLeft(LAMBDA d, o :
             IF o.op = "seek" THEN [d EXCEPT !.at = o.to]
             ELSE LET from == IF appends \/ streamKind # "fd" THEN Len(d.holds) ELSE d.at
                  IN [holds |-> Overwritten(d.holds, from, o.bytes), at |-> from + Len(o.bytes)],
           [holds |-> device, at |-> deviceAt], ops)

\* Whatever sizes are written, however the device takes them in pieces, and
\* wherever the stream is flushed, rebuffered or sought, the device has every
\* byte once, in order and in its place, when what is under way and in the buffer
\* is written; a closed stream keeps nothing back.  (A file opened to append
\* writes at its end wherever it was sought, and is left out after that.)
EveryByteArrives ==
  ~streamError /\ meantAt # -1 =>
    /\ After_(IF buffered = <<>> THEN todo ELSE Append(todo, Bytes(buffered))).holds = meant
    /\ closed => buffered = <<>>

\* The buffer never holds more than it can, and tell() is where the caller is.
\* (Of a file that had something in it before, it is off by that much.)
TellIsRight ==
  /\ Len(buffered) <= room
  /\ ~streamError /\ todo = <<>> /\ meantAt # -1 /\ ~appends /\ streamKind # "socket"
     => Tell = meantAt

\* A reader gets the bytes that were sent, in order, none twice and none left out,
\* however they come in.  (raw_fd_istream repeats bytes when a call wants more than
\* its buffer has left, and never returns at the end of the file.)
ReadsInOrder ==
  /\ ~straddled => copied \o readBuffer \o coming = Source
  /\ straddled \/ endless => sourceKind = "fd"

StreamsSound == EveryByteArrives /\ TellIsRight /\ ReadsInOrder
=============================================================================
