-------------------------- MODULE DispatcherProofs --------------------------
(***************************************************************************)
(* That connections are told of in order, are closed when they leave the   *)
(* list, fall back once for each refusal, and leave no thread behind, for  *)
(* any number of connections, starts and queued messages.                  *)
(*                                                                         *)
(* A connection that was made but not started is fresh: no thread of its   *)
(* own has changed it.  What every later step does to it is the relation   *)
(* Evolves: it never comes back from the dead, is never opened or made     *)
(* active again, and no thread of it that has ended runs again.            *)
(***************************************************************************)
EXTENDS Dispatcher, FiniteSetTheorems, SequenceTheorems, TLAPS

ToldSoFar == {<<>>, <<TRUE>>, <<FALSE>>, <<TRUE, FALSE>>}
Readers == {"none", "start", "initial", "reply", "unsup", "finish", "loop", "process", "gone"}
Writers == {"none", "start", "pop", "exit", "gone"}

ConnRecord ==
  [state : States, active : BOOLEAN, open : BOOLEAN, broken : BOOLEAN, rev : {Old, New},
   serves : BOOLEAN, q : 0 .. MaxQueue, reader : Readers, writer : Writers,
   detached : SUBSET {"reader", "writer"}, told : ToldSoFar]

\* The state says what listeners were told; only the loop's reader is active.
ToldByState(c) ==
  /\ c.state \in {"created", "init", "handshake", "synchronized"} => c.told = <<>>
  /\ c.state = "active" => c.told = <<TRUE>>
  /\ c.state = "dead" => c.told \in {<<FALSE>>, <<TRUE, FALSE>>}

ActiveReads(c) == c.state = "active" => c.reader \in {"loop", "process", "gone"}

Fresh(c) ==
  /\ c.state = "created" /\ ~c.active /\ c.reader = "none" /\ c.writer = "none"
  /\ c.rev = New

Shut(c)  == c.state = "dead" /\ ~c.open /\ ~c.active
Left(c, t) == c[t] \in {"gone", "none"} \/ t \in c.detached
Ended(c) == Shut(c) /\ Left(c, "reader") /\ Left(c, "writer")

\* The read thread has ended, or is about to fall back and end.
Spent(c) == c.reader \in {"unsup", "gone"}

Evolves(c, d) ==
  /\ d \in ConnRecord /\ ToldByState(d) /\ ActiveReads(d)
  /\ c.state = "dead" => d.state = "dead"
  /\ ~c.open => ~d.open
  /\ ~c.active => ~d.active
  /\ Left(c, "reader") => Left(d, "reader")
  /\ Left(c, "writer") => Left(d, "writer")
  /\ Spent(c) => Spent(d)
  /\ d.rev = c.rev
-----------------------------------------------------------------------------
(***************************************************************************)
(* What the helpers make of a connection.                                  *)
(***************************************************************************)

LEMMA ToldGrows ==
  /\ <<>> \o <<>> = <<>> /\ <<TRUE>> \o <<>> = <<TRUE>> /\ <<FALSE>> \o <<>> = <<FALSE>>
  /\ <<>> \o <<TRUE>> = <<TRUE>> /\ <<>> \o <<FALSE>> = <<FALSE>>
  /\ <<TRUE>> \o <<FALSE>> = <<TRUE, FALSE>>
<1>1. \A x, y : /\ <<>> \o <<>> = <<>> /\ <<x>> \o <<>> = <<x>> /\ <<>> \o <<x>> = <<x>>
  OBVIOUS
<1>2. ASSUME NEW x, NEW y PROVE <<x>> \o <<y>> = <<x, y>>
  <2> DEFINE S == {x, y}  s == <<x>> \o <<y>>  t == <<x, y>>
  <2>1. <<x>> \in Seq(S) /\ <<y>> \in Seq(S) /\ t \in Seq(S) /\ Len(t) = 2 /\ Len(<<x>>) = 1
    OBVIOUS
  <2>2. s \in Seq(S) /\ Len(s) = 2
    OBVIOUS
  <2> HIDE DEF S
  <2>3. s[1] = x
    BY <2>1, ConcatProperties
  <2>4. s[2] = y
    BY <2>1, ConcatProperties
  <2>5. t[1] = x /\ t[2] = y
    OBVIOUS
  <2> HIDE DEF s, t
  <2>6. \A i \in 1 .. Len(s) : s[i] = t[i]
    BY <2>2, <2>3, <2>4, <2>5
  <2>7. s = t
    BY <2>1, <2>2, <2>6, SeqEqual
  <2> QED BY <2>7 DEF s, t
<1> QED BY <1>1, <1>2

SameBase(c, d) ==
  d.broken = c.broken /\ d.rev = c.rev /\ d.serves = c.serves /\ d.detached = c.detached

SameThreads(c, d) == d.reader = c.reader /\ d.writer = c.writer

LEMMA SetStateDoes ==
  ASSUME NEW c \in ConnRecord, ToldByState(c), NEW s \in States \ {"created"},
         s # "dead" => c.state # "active"
  PROVE  /\ SetState(c, s) \in ConnRecord /\ ToldByState(SetState(c, s))
         /\ c.state = "dead" => SetState(c, s) = c
         /\ c.state # "dead" => SetState(c, s).state = s
         /\ SetState(c, s).active = c.active /\ SetState(c, s).open = c.open
         /\ SameBase(c, SetState(c, s)) /\ SameThreads(c, SetState(c, s))
<1>1. CASE c.state = "dead"
  <2>1. SetState(c, s) = c
    BY <1>1 DEF SetState
  <2> QED BY <1>1, <2>1 DEF SameBase, SameThreads
<1>2. CASE c.state # "dead"
  <2> DEFINE told == c.told \o (IF s = "active" /\ c.state # "active" THEN <<TRUE>> ELSE <<>>)
                            \o (IF s = "dead" THEN <<FALSE>> ELSE <<>>)
             d == [c EXCEPT !.state = s, !.told = told]
  <2>1. SetState(c, s) = d
    BY <1>2, Zenon DEF SetState
  <2>2. /\ s = "dead" => told \in {<<FALSE>>, <<TRUE, FALSE>>}
        /\ s = "active" => told = <<TRUE>>
        /\ s \notin {"dead", "active"} => told = <<>>
    <3>1. c.told \in {<<>>, <<TRUE>>} /\ (c.state # "active" => c.told = <<>>)
      BY <1>2 DEF ConnRecord, ToldByState, States
    <3>2. CASE s = "dead"
      <4>1. told = (c.told \o <<>>) \o <<FALSE>>
        BY <3>2
      <4> HIDE DEF told
      <4> QED BY <3>1, <3>2, <4>1, ToldGrows
    <3>3. CASE s = "active"
      <4>1. told = (c.told \o <<TRUE>>) \o <<>>
        BY <3>3
      <4> HIDE DEF told
      <4> QED BY <3>1, <3>3, <4>1, ToldGrows
    <3>4. CASE s \notin {"dead", "active"}
      <4>1. told = (c.told \o <<>>) \o <<>>
        BY <3>4
      <4> HIDE DEF told
      <4> QED BY <3>1, <3>4, <4>1, ToldGrows
    <3> QED BY <3>2, <3>3, <3>4
  <2>3. told \in ToldSoFar
    BY <2>2 DEF ToldSoFar
  <2> HIDE DEF told
  <2>4. d \in ConnRecord
    BY <2>3 DEF ConnRecord
  <2>5. /\ d.state = s /\ d.told = told /\ d.active = c.active /\ d.open = c.open
        /\ d.broken = c.broken /\ d.rev = c.rev /\ d.serves = c.serves
        /\ d.reader = c.reader /\ d.writer = c.writer /\ d.detached = c.detached
    BY DEF ConnRecord
  <2> HIDE DEF d
  <2>6. ToldByState(d)
    BY <2>2, <2>5 DEF ToldByState, States
  <2> QED BY <1>2, <2>1, <2>4, <2>5, <2>6 DEF SameBase, SameThreads
<1> QED BY <1>1, <1>2

LEMMA PushedDoes ==
  ASSUME NEW c \in ConnRecord, ToldByState(c)
  PROVE  /\ Pushed(c) \in ConnRecord /\ ToldByState(Pushed(c))
         /\ Pushed(c).state = c.state /\ Pushed(c).active = c.active /\ Pushed(c).open = c.open
         /\ SameBase(c, Pushed(c)) /\ SameThreads(c, Pushed(c))
<1> DEFINE n == IF c.q < MaxQueue THEN c.q + 1 ELSE c.q
           d == [c EXCEPT !.q = n]
<1>1. Pushed(c) = d
  BY Zenon DEF Pushed
<1>2. n \in 0 .. MaxQueue
  BY DispatcherAssumption DEF ConnRecord
<1> HIDE DEF n
<1>3. d \in ConnRecord
  BY <1>2 DEF ConnRecord
<1>4. /\ d.state = c.state /\ d.told = c.told /\ d.active = c.active /\ d.open = c.open
      /\ SameBase(c, d) /\ SameThreads(c, d)
  BY DEF ConnRecord, SameBase, SameThreads
<1> HIDE DEF d
<1> QED BY <1>1, <1>3, <1>4 DEF ToldByState

LEMMA ClosedDoes ==
  ASSUME NEW c \in ConnRecord, ToldByState(c)
  PROVE  /\ Closed(c) \in ConnRecord /\ ToldByState(Closed(c))
         /\ Closed(c).state = c.state /\ Closed(c).active = c.active /\ ~Closed(c).open
         /\ SameBase(c, Closed(c)) /\ SameThreads(c, Closed(c))
<1>1. Closed(c) \in ConnRecord
  BY DEF Closed, ConnRecord
<1>2. /\ Closed(c).state = c.state /\ Closed(c).told = c.told
      /\ Closed(c).active = c.active /\ ~Closed(c).open
      /\ SameBase(c, Closed(c)) /\ SameThreads(c, Closed(c))
  BY DEF Closed, ConnRecord, SameBase, SameThreads
<1> QED BY <1>1, <1>2 DEF ToldByState

LEMMA KilledDoes ==
  ASSUME NEW c \in ConnRecord, ToldByState(c)
  PROVE  /\ Killed(c) \in ConnRecord /\ ToldByState(Killed(c))
         /\ Killed(c).state = "dead" /\ ~Killed(c).active /\ Killed(c).open = c.open
         /\ SameBase(c, Killed(c)) /\ SameThreads(c, Killed(c))
<1> DEFINE b == SetState(c, "dead")  d == [b EXCEPT !.active = FALSE]
<1>1. /\ b \in ConnRecord /\ ToldByState(b) /\ b.state = "dead" /\ b.open = c.open
      /\ SameBase(c, b) /\ SameThreads(c, b)
  BY SetStateDoes DEF States
<1>2. Killed(c) = d
  BY DEF Killed
<1> HIDE DEF b
<1>3. d \in ConnRecord
  BY <1>1 DEF ConnRecord
<1>4. /\ d.state = b.state /\ d.told = b.told /\ ~d.active /\ d.open = b.open
      /\ SameBase(b, d) /\ SameThreads(b, d)
  BY <1>1 DEF ConnRecord, SameBase, SameThreads
<1> HIDE DEF d
<1> QED BY <1>1, <1>2, <1>3, <1>4 DEF ToldByState, SameBase, SameThreads

LEMMA ReaderDoes ==
  ASSUME NEW c \in ConnRecord, ToldByState(c), NEW r \in Readers
  PROVE  LET d == [c EXCEPT !.reader = r]
         IN  /\ d \in ConnRecord /\ ToldByState(d) /\ d.reader = r /\ d.writer = c.writer
             /\ d.state = c.state /\ d.active = c.active /\ d.open = c.open /\ SameBase(c, d)
<1> DEFINE d == [c EXCEPT !.reader = r]
<1>1. d \in ConnRecord
  BY DEF ConnRecord
<1>2. /\ d.state = c.state /\ d.told = c.told /\ d.active = c.active /\ d.open = c.open
      /\ d.reader = r /\ d.writer = c.writer /\ SameBase(c, d)
  BY DEF ConnRecord, SameBase
<1> HIDE DEF d
<1>3. ToldByState(d)
  BY <1>2 DEF ToldByState
<1> QED BY <1>1, <1>2, <1>3 DEF d

LEMMA WriterDoes ==
  ASSUME NEW c \in ConnRecord, ToldByState(c), NEW w \in Writers, NEW n \in 0 .. MaxQueue
  PROVE  LET d == [c EXCEPT !.q = n, !.writer = w]
         IN  /\ d \in ConnRecord /\ ToldByState(d) /\ d.reader = c.reader /\ d.writer = w
             /\ d.state = c.state /\ d.active = c.active /\ d.open = c.open /\ SameBase(c, d)
<1> DEFINE d == [c EXCEPT !.q = n, !.writer = w]
<1>1. d \in ConnRecord
  BY DEF ConnRecord
<1>2. /\ d.state = c.state /\ d.told = c.told /\ d.active = c.active /\ d.open = c.open
      /\ d.reader = c.reader /\ d.writer = w /\ SameBase(c, d)
  BY DEF ConnRecord, SameBase
<1> HIDE DEF d
<1>3. ToldByState(d)
  BY <1>2 DEF ToldByState
<1> QED BY <1>1, <1>2, <1>3 DEF d

\* A thread that has not ended moves its connection on.
LEMMA EvolvesIf ==
  ASSUME NEW c \in ConnRecord, NEW d \in ConnRecord, ToldByState(d), ActiveReads(d),
         SameBase(c, d),
         c.state = "dead" => d.state = "dead",
         d.open => c.open, d.active => c.active,
         d.reader = c.reader \/ c.reader \notin {"gone", "none"},
         Spent(c) => Spent(d),
         d.writer = c.writer \/ c.writer \notin {"gone", "none"}
  PROVE  Evolves(c, d)
<1>1. Left(c, "reader") => Left(d, "reader")
  BY DEF Left, SameBase, ConnRecord
<1>2. Left(c, "writer") => Left(d, "writer")
  BY DEF Left, SameBase, ConnRecord
<1> QED BY <1>1, <1>2 DEF Evolves, SameBase

LEMMA HandshakeFailedEvolves ==
  ASSUME NEW c \in ConnRecord, ToldByState(c), c.reader \notin {"gone", "none"}
  PROVE  Evolves(c, HandshakeFailed(c)) /\ HandshakeFailed(c).reader = "gone"
<1> DEFINE b == Killed(c)  d == [b EXCEPT !.reader = "gone"]
<1>1. /\ b \in ConnRecord /\ ToldByState(b) /\ b.state = "dead" /\ ~b.active /\ b.open = c.open
      /\ SameBase(c, b) /\ SameThreads(c, b)
  BY KilledDoes
<1> HIDE DEF b
<1>2. /\ d \in ConnRecord /\ ToldByState(d) /\ d.reader = "gone" /\ d.writer = b.writer
      /\ d.state = b.state /\ d.active = b.active /\ d.open = b.open /\ SameBase(b, d)
  BY <1>1, ReaderDoes DEF Readers
<1> HIDE DEF d
<1>3. Evolves(c, d)
  BY <1>1, <1>2, EvolvesIf DEF SameBase, SameThreads, ActiveReads, Spent
<1> QED BY <1>2, <1>3 DEF HandshakeFailed, d, b

\* A step of the handshake: the state goes on, a message may be queued.
LEMMA HandshakeEvolves ==
  ASSUME NEW c \in ConnRecord, ToldByState(c), ActiveReads(c),
         c.reader \in {"start", "initial", "reply", "finish"},
         NEW s \in {"handshake", "synchronized", "active"}, NEW r \in Readers,
         s = "active" => r = "loop"
  PROVE  /\ Evolves(c, [SetState(c, s) EXCEPT !.reader = r])
         /\ Evolves(c, [Pushed(SetState(c, s)) EXCEPT !.reader = r])
         /\ [SetState(c, s) EXCEPT !.reader = r].reader = r
         /\ [Pushed(SetState(c, s)) EXCEPT !.reader = r].reader = r
<1> DEFINE a == SetState(c, s)  b == Pushed(a)
           d == [a EXCEPT !.reader = r]  e == [b EXCEPT !.reader = r]
<1>1. c.state # "active"
  BY DEF ActiveReads
<1>2. /\ a \in ConnRecord /\ ToldByState(a)
      /\ c.state = "dead" => a.state = "dead"
      /\ a.state \in {"dead", s}
      /\ a.active = c.active /\ a.open = c.open
      /\ SameBase(c, a) /\ SameThreads(c, a)
  BY <1>1, SetStateDoes DEF States
<1> HIDE DEF a
<1>3. /\ b \in ConnRecord /\ ToldByState(b) /\ b.state = a.state
      /\ b.active = a.active /\ b.open = a.open
      /\ SameBase(a, b) /\ SameThreads(a, b)
  BY <1>2, PushedDoes
<1> HIDE DEF b
<1>4. /\ d \in ConnRecord /\ ToldByState(d) /\ d.reader = r /\ d.writer = a.writer
      /\ d.state = a.state /\ d.active = a.active /\ d.open = a.open /\ SameBase(a, d)
  BY <1>2, ReaderDoes
<1>5. /\ e \in ConnRecord /\ ToldByState(e) /\ e.reader = r /\ e.writer = b.writer
      /\ e.state = b.state /\ e.active = b.active /\ e.open = b.open /\ SameBase(b, e)
  BY <1>3, ReaderDoes
<1> HIDE DEF d, e
<1>6. ActiveReads(d) /\ ActiveReads(e)
  BY <1>2, <1>3, <1>4, <1>5 DEF ActiveReads
<1>7. Evolves(c, d)
  BY <1>2, <1>4, <1>6, EvolvesIf DEF SameBase, SameThreads, Spent
<1>8. Evolves(c, e)
  BY <1>2, <1>3, <1>5, <1>6, EvolvesIf DEF SameBase, SameThreads, Spent
<1> QED BY <1>4, <1>5, <1>7, <1>8 DEF a, b, d, e

LEMMA ReaderEvolves ==
  ASSUME NEW c \in ConnRecord, ToldByState(c), ActiveReads(c), NEW r \in Readers,
         c.reader \notin {"unsup", "gone", "none"}, c.state = "active" => r \in {"loop", "process", "gone"}
  PROVE  Evolves(c, [c EXCEPT !.reader = r]) /\ [c EXCEPT !.reader = r].reader = r
<1> DEFINE d == [c EXCEPT !.reader = r]
<1>1. /\ d \in ConnRecord /\ ToldByState(d) /\ d.reader = r /\ d.writer = c.writer
      /\ d.state = c.state /\ d.active = c.active /\ d.open = c.open /\ SameBase(c, d)
  BY ReaderDoes
<1> HIDE DEF d
<1>2. Evolves(c, d)
  BY <1>1, EvolvesIf DEF ActiveReads, Spent
<1> QED BY <1>1, <1>2 DEF d

LEMMA ReadDiedEvolves ==
  ASSUME NEW c \in ConnRecord, ToldByState(c), c.reader \notin {"gone", "none"}
  PROVE  Evolves(c, ReadDied(c)) /\ ReadDied(c).reader = "gone"
<1> DEFINE a == Closed(c)  b == Killed(a)  p == Pushed(b)  d == [p EXCEPT !.reader = "gone"]
<1>1. /\ a \in ConnRecord /\ ToldByState(a) /\ a.state = c.state /\ ~a.open
      /\ a.active = c.active /\ SameBase(c, a) /\ SameThreads(c, a)
  BY ClosedDoes
<1> HIDE DEF a
<1>2. /\ b \in ConnRecord /\ ToldByState(b) /\ b.state = "dead" /\ ~b.active /\ b.open = a.open
      /\ SameBase(a, b) /\ SameThreads(a, b)
  BY <1>1, KilledDoes
<1> HIDE DEF b
<1>3. /\ p \in ConnRecord /\ ToldByState(p) /\ p.state = b.state
      /\ p.active = b.active /\ p.open = b.open /\ SameBase(b, p) /\ SameThreads(b, p)
  BY <1>2, PushedDoes
<1> HIDE DEF p
<1>4. /\ d \in ConnRecord /\ ToldByState(d) /\ d.reader = "gone" /\ d.writer = p.writer
      /\ d.state = p.state /\ d.active = p.active /\ d.open = p.open /\ SameBase(p, d)
  BY <1>3, ReaderDoes DEF Readers
<1> HIDE DEF d
<1>5. Evolves(c, d)
  BY <1>1, <1>2, <1>3, <1>4, EvolvesIf DEF SameBase, SameThreads, ActiveReads, Spent
<1> QED BY <1>4, <1>5 DEF ReadDied, d, p, b, a

LEMMA WriterExitsEvolves ==
  ASSUME NEW c \in ConnRecord, ToldByState(c), c.writer \notin {"gone", "none"}
  PROVE  LET d == [Closed(Killed(c)) EXCEPT !.writer = "gone"]
         IN  Evolves(c, d) /\ d.reader = c.reader
<1> DEFINE a == Killed(c)  b == Closed(a)  d == [b EXCEPT !.writer = "gone"]
<1>1. /\ a \in ConnRecord /\ ToldByState(a) /\ a.state = "dead" /\ ~a.active /\ a.open = c.open
      /\ SameBase(c, a) /\ SameThreads(c, a)
  BY KilledDoes
<1> HIDE DEF a
<1>2. /\ b \in ConnRecord /\ ToldByState(b) /\ b.state = a.state /\ ~b.open
      /\ b.active = a.active /\ SameBase(a, b) /\ SameThreads(a, b)
  BY <1>1, ClosedDoes
<1> HIDE DEF b
<1>3. d \in ConnRecord
  BY <1>2 DEF ConnRecord, Writers
<1>4. /\ d.state = b.state /\ d.told = b.told /\ d.active = b.active /\ d.open = b.open
      /\ d.reader = b.reader /\ d.writer = "gone" /\ SameBase(b, d)
  BY <1>2 DEF ConnRecord, SameBase
<1> HIDE DEF d
<1>5. ToldByState(d) /\ ActiveReads(d)
  BY <1>1, <1>2, <1>4 DEF ToldByState, ActiveReads
<1>6. Evolves(c, d)
  BY <1>1, <1>2, <1>3, <1>4, <1>5, EvolvesIf DEF SameBase, SameThreads, Spent
<1> QED BY <1>1, <1>2, <1>4, <1>6 DEF d, b, a, SameThreads
-----------------------------------------------------------------------------
(***************************************************************************)
(* The invariant.                                                          *)
(***************************************************************************)

\* Where the threads may be together, and what lists there are then.
FlowInv ==
  /\ made \in 0 .. MaxConns /\ slots \in Seq(1 .. made) /\ doomed \in Seq(1 .. made)
  /\ server \in BOOLEAN
  /\ step \in {"begin", "writer", "reader"} /\ (doomed = <<>> => step = "begin")
  /\ mutex = (IF main \in {"replace", "place", "start"} THEN "main" ELSE "free")
  /\ user = "off" => doomed = <<>>
  /\ user \in {"off", "close"} => main = "gone" /\ dispatch = "gone" /\ slots = <<>>
  /\ doomed # <<>> => user = "close" \/ main \in {"replace", "start"}
  /\ main = "replace" => made < MaxConns /\ (doomed = <<>> \/ slots = <<>>)
  /\ main = "place" => made \notin ToSet(slots)
  /\ main = "start" => made \in ToSet(slots) /\ made \notin ToSet(doomed)
  /\ main \in {"place", "start"} => made # 0

ConnInv ==
  /\ conn \in [Conns -> ConnRecord]
  /\ \A k \in Conns : ToldByState(conn[k]) /\ ActiveReads(conn[k])

Unstarted(k) == k > made \/ (main \in {"place", "start"} /\ k = made)

FreshInv == \A k \in Conns : Unstarted(k) => Fresh(conn[k])

\* A connection that is in no list any more has been destroyed.
OutInv ==
  \A k \in Conns : Unstarted(k) \/ k \in ToSet(slots) \cup ToSet(doomed) \/ Ended(conn[k])

\* That shuts it first, then sees that its threads have ended.
StopInv ==
  /\ doomed # <<>> /\ step \in {"writer", "reader"} => Shut(conn[Head(doomed)])
  /\ doomed # <<>> /\ step = "reader" => Left(conn[Head(doomed)], "writer")

\* A refusal is a reader about to fall back, or the revision to be used next, or
\* a connection that used it; and each used up the reader of a connection.
Olds     == {k \in Conns : conn[k].rev = Old}
Refusing == {k \in Conns : conn[k].reader = "unsup"}
Spents   == {k \in Conns : Spent(conn[k])}
CountInv ==
  /\ unsup \in Nat /\ unsup <= Cardinality(Spents) /\ nextRev \in {Old, New}
  /\ Cardinality(Olds) + Cardinality(Refusing) + (IF nextRev = Old THEN 1 ELSE 0) <= unsup

NodeInv == FlowInv /\ ConnInv /\ FreshInv /\ OutInv /\ StopInv /\ CountInv

LEMMA ConnsFinite ==
  /\ IsFiniteSet(Conns)
  /\ \A S \in SUBSET Conns : IsFiniteSet(S) /\ Cardinality(S) \in Nat
<1>1. IsFiniteSet(Conns)
  BY DispatcherAssumption, FS_Interval DEF Conns
<1> QED BY <1>1, FS_Subset, FS_CardinalityType

LEMMA BlankIsFresh ==
  Blank \in ConnRecord /\ ToldByState(Blank) /\ ActiveReads(Blank) /\ Fresh(Blank)
<1>1. Blank \in ConnRecord
  BY DispatcherAssumption DEF Blank, ConnRecord, States, Readers, Writers, ToldSoFar
<1> QED BY <1>1 DEF Blank, ToldByState, ActiveReads, Fresh

LEMMA NodeInvInit == Init => NodeInv
<1> SUFFICES ASSUME Init PROVE NodeInv
  OBVIOUS
<1>1. FlowInv
  <2>1. server \in BOOLEAN
    BY Zenon DEF Init
  <2> QED BY <2>1, DispatcherAssumption DEF Init, FlowInv
<1>2. ConnInv /\ FreshInv
  BY BlankIsFresh DEF Init, ConnInv, FreshInv
<1>3. OutInv /\ StopInv
  BY DEF Init, OutInv, StopInv, Unstarted, Conns
<1>4. CountInv
  <2>1. Olds = {} /\ Refusing = {}
    BY DEF Init, Olds, Refusing, Blank, Old, New
  <2>2. Cardinality(Spents) \in Nat
    BY ConnsFinite DEF Spents
  <2> QED BY <2>1, <2>2, FS_EmptySet DEF Init, CountInv, Old, New
<1> QED BY <1>1, <1>2, <1>3, <1>4 DEF NodeInv

LEMMA NodeInvSound == NodeInv => ConnectionsSound
<1> SUFFICES ASSUME NodeInv PROVE ConnectionsSound
  OBVIOUS
<1> USE DEF NodeInv
<1>1. ToldInOrder
  BY DEF ToldInOrder, ConnInv, ConnRecord, ToldSoFar, ToldByState
<1>2. \A k \in 1 .. made : k \in Conns
  BY DispatcherAssumption DEF FlowInv, Conns
<1>3. OutOfListClosed
  BY <1>2 DEF OutOfListClosed, OutInv, Unstarted, Ended, Shut, FlowInv
<1>4. FallsBackOnce
  <2>1. Cardinality(Olds) \in Nat /\ Cardinality(Refusing) \in Nat
    BY ConnsFinite DEF Olds, Refusing
  <2>2. Cardinality(Olds) <= unsup
    BY <2>1 DEF CountInv
  <2> QED BY <2>2 DEF FallsBackOnce, Olds
<1>5. StopLeavesNothing
  <2> SUFFICES ASSUME user = "off"
               PROVE  /\ main = "gone" /\ dispatch = "gone" /\ mutex = "free" /\ slots = <<>>
                      /\ \A k \in 1 .. made : Left(conn[k], "reader") /\ Left(conn[k], "writer")
    BY DEF StopLeavesNothing, Left
  <2>1. main = "gone" /\ dispatch = "gone" /\ mutex = "free" /\ slots = <<>> /\ doomed = <<>>
    BY DEF FlowInv
  <2>2. ToSet(slots) = {} /\ ToSet(doomed) = {}
    BY <2>1 DEF ToSet
  <2>3. ASSUME NEW k \in 1 .. made PROVE Ended(conn[k])
    BY <1>2, <2>1, <2>2, <2>3 DEF OutInv, Unstarted, FlowInv
  <2> QED BY <2>1, <2>3 DEF Ended
<1> QED BY <1>1, <1>3, <1>4, <1>5 DEF ConnectionsSound
-----------------------------------------------------------------------------
(***************************************************************************)
(* Steps of the connections' own threads.                                  *)
(***************************************************************************)
LEMMA EndedForGood ==
  ASSUME NEW c, NEW d, Evolves(c, d)
  PROVE  /\ Shut(c) => Shut(d)
         /\ Ended(c) => Ended(d)
BY DEF Evolves, Shut, Ended

LEMMA FlowKept ==
  ASSUME NodeInv, UNCHANGED <<user, server, mutex, main, dispatch, slots, doomed, step, made>>
  PROVE  FlowInv'
BY DEF NodeInv, FlowInv

LEMMA ConnsEvolve ==
  ASSUME NodeInv, UNCHANGED <<main, slots, doomed, made>>,
         conn' \in [Conns -> ConnRecord],
         \A k \in Conns : /\ Evolves(conn[k], conn'[k])
                          /\ Unstarted(k) /\ Fresh(conn[k]) => Fresh(conn'[k])
  PROVE  /\ ConnInv' /\ FreshInv' /\ OutInv'
         /\ UNCHANGED step => StopInv'
<1> USE DEF NodeInv
<1>1. ConnInv'
  BY DEF ConnInv, Evolves
<1>2. FreshInv'
  BY DEF FreshInv, Unstarted
<1>3. OutInv'
  <2>1. \A k \in Conns : Unstarted(k) \/ k \in ToSet(slots) \cup ToSet(doomed) \/ Ended(conn'[k])
    BY EndedForGood DEF OutInv
  <2> QED BY <2>1 DEF OutInv, Unstarted
<1>4. ASSUME UNCHANGED step PROVE StopInv'
  <2>1. doomed # <<>> => Head(doomed) \in Conns
    BY DispatcherAssumption DEF FlowInv, Conns
  <2>2. /\ doomed # <<>> /\ step \in {"writer", "reader"} => Shut(conn'[Head(doomed)])
        /\ doomed # <<>> /\ step = "reader" => Left(conn'[Head(doomed)], "writer")
    BY <2>1, EndedForGood DEF StopInv, Evolves
  <2> QED BY <1>4, <2>2 DEF StopInv
<1> QED BY <1>1, <1>2, <1>3, <1>4

\* Readers that have ended do not come back.
LEMMA SpentsGrow ==
  ASSUME \A k \in Conns : Spent(conn[k]) => Spent(conn'[k])
  PROVE  /\ Cardinality(Spents) \in Nat /\ Cardinality(Spents') \in Nat
         /\ Cardinality(Spents) <= Cardinality(Spents')
<1>1. Spents \subseteq Spents' /\ Spents \in SUBSET Conns /\ Spents' \in SUBSET Conns
  BY DEF Spents
<1> QED BY <1>1, ConnsFinite, FS_Subset

LEMMA CountKept ==
  ASSUME NodeInv, UNCHANGED <<nextRev, unsup>>,
         \A k \in Conns : /\ conn'[k].rev = conn[k].rev
                          /\ conn'[k].reader = "unsup" <=> conn[k].reader = "unsup"
                          /\ Spent(conn[k]) => Spent(conn'[k])
  PROVE  CountInv'
<1>1. Olds' = Olds /\ Refusing' = Refusing
  BY DEF Olds, Refusing
<1>2. unsup <= Cardinality(Spents')
  BY SpentsGrow DEF NodeInv, CountInv
<1> QED BY <1>1, <1>2 DEF NodeInv, CountInv

LEMMA StaysItself ==
  ASSUME ConnInv, NEW k \in Conns
  PROVE  Evolves(conn[k], conn[k])
BY DEF ConnInv, Evolves

LEMMA OneEvolves ==
  ASSUME NodeInv, UNCHANGED <<main, slots, doomed, made>>,
         NEW k \in Conns, NEW d, Set(k, d), Evolves(conn[k], d),
         Unstarted(k) /\ Fresh(conn[k]) => Fresh(d)
  PROVE  /\ ConnInv' /\ FreshInv' /\ OutInv' /\ (UNCHANGED step => StopInv')
         /\ conn'[k] = d /\ \A j \in Conns \ {k} : conn'[j] = conn[j]
         /\ \A j \in Conns : conn'[j].rev = conn[j].rev /\ (Spent(conn[j]) => Spent(conn'[j]))
<1>1. conn' \in [Conns -> ConnRecord]
  BY DEF Set, NodeInv, ConnInv, Evolves
<1>2. conn'[k] = d /\ \A j \in Conns \ {k} : conn'[j] = conn[j]
  BY DEF Set, NodeInv, ConnInv
<1>3. \A j \in Conns : /\ Evolves(conn[j], conn'[j])
                       /\ Unstarted(j) /\ Fresh(conn[j]) => Fresh(conn'[j])
  BY <1>2, StaysItself DEF NodeInv
<1>4. \A j \in Conns : conn'[j].rev = conn[j].rev /\ (Spent(conn[j]) => Spent(conn'[j]))
  BY <1>3 DEF Evolves
<1> QED BY <1>1, <1>2, <1>3, <1>4, ConnsEvolve

\* A thread at work means that the connection is not fresh.
LEMMA OneThread ==
  ASSUME NodeInv, NEW k \in Conns, NEW d, Only(k, d), Evolves(conn[k], d),
         conn[k].reader # "none" \/ conn[k].writer # "none",
         d.reader = "unsup" <=> conn[k].reader = "unsup"
  PROVE  NodeInv'
<1>1. UNCHANGED <<user, server, mutex, main, dispatch, nextRev, slots, doomed, step, made, unsup>> /\ Set(k, d)
  BY DEF Only, threads, table
<1>2. FlowInv'
  BY <1>1, FlowKept
<1>3. /\ ConnInv' /\ FreshInv' /\ OutInv' /\ StopInv'
      /\ conn'[k] = d /\ \A j \in Conns \ {k} : conn'[j] = conn[j]
      /\ \A j \in Conns : conn'[j].rev = conn[j].rev /\ (Spent(conn[j]) => Spent(conn'[j]))
  BY <1>1, OneEvolves DEF Fresh
<1>4. CountInv'
  BY <1>1, <1>3, CountKept
<1> QED BY <1>2, <1>3, <1>4 DEF NodeInv

LEMMA WriterStep ==
  ASSUME NodeInv, NEW k \in Conns, Writer(k)
  PROVE  NodeInv'
<1> DEFINE c == conn[k]
<1>0. c \in ConnRecord /\ ToldByState(c) /\ ActiveReads(c)
  BY DEF NodeInv, ConnInv
<1>1. ASSUME NEW w \in Writers, NEW n \in 0 .. MaxQueue, c.writer \notin {"gone", "none"},
             Only(k, [c EXCEPT !.q = n, !.writer = w])
      PROVE  NodeInv'
  <2> DEFINE d == [c EXCEPT !.q = n, !.writer = w]
  <2>1. /\ d \in ConnRecord /\ ToldByState(d) /\ d.reader = c.reader /\ d.writer = w
        /\ d.state = c.state /\ d.active = c.active /\ d.open = c.open /\ SameBase(c, d)
    BY <1>0, WriterDoes
  <2> HIDE DEF d
  <2>2. Evolves(c, d)
    BY <1>0, <1>1, <2>1, EvolvesIf DEF ActiveReads, Spent
  <2>3. Only(k, d)
    BY <1>1 DEF d
  <2> QED BY <1>1, <2>1, <2>2, <2>3, OneThread
<1>2. CASE WriterStarts(k)
  <2> DEFINE w == IF c.active THEN "pop" ELSE "exit"
  <2>1. [c EXCEPT !.writer = w] = [c EXCEPT !.q = c.q, !.writer = w]
    BY <1>0 DEF ConnRecord
  <2>2. c.writer = "start" /\ Only(k, [c EXCEPT !.q = c.q, !.writer = w])
    BY <1>2, <2>1 DEF WriterStarts
  <2>3. w \in Writers /\ c.q \in 0 .. MaxQueue
    BY <1>0 DEF Writers, ConnRecord
  <2> HIDE DEF w
  <2> QED BY <1>1, <2>2, <2>3
<1>3. CASE WriterPops(k)
  <2>1. PICK sent \in (IF Readable(c) THEN {TRUE} ELSE BOOLEAN) :
          Only(k, [c EXCEPT !.q = c.q - 1, !.writer = IF sent /\ c.active THEN "pop" ELSE "exit"])
    BY <1>3 DEF WriterPops
  <2> DEFINE w == IF sent /\ c.active THEN "pop" ELSE "exit"
  <2>2. c.writer = "pop" /\ w \in Writers /\ c.q - 1 \in 0 .. MaxQueue
    BY <1>0, <1>3, DispatcherAssumption DEF WriterPops, Writers, ConnRecord
  <2>3. Only(k, [c EXCEPT !.q = c.q - 1, !.writer = w])
    BY <2>1
  <2> HIDE DEF w
  <2> QED BY <1>1, <2>2, <2>3
<1>4. CASE WriterExits(k)
  <2> DEFINE d == [Closed(Killed(c)) EXCEPT !.writer = "gone"]
  <2>1. c.writer = "exit" /\ Only(k, d)
    BY <1>4 DEF WriterExits
  <2>2. Evolves(c, d) /\ d.reader = c.reader
    BY <1>0, <2>1, WriterExitsEvolves
  <2> HIDE DEF d
  <2> QED BY <2>1, <2>2, OneThread
<1> QED BY <1>2, <1>3, <1>4 DEF Writer

\* The two steps of a refusal that count.
LEMMA RefusedStep ==
  ASSUME NodeInv, NEW k \in Conns, Refused(k)
  PROVE  NodeInv'
<1> DEFINE c == conn[k]  d == [c EXCEPT !.reader = "unsup"]
<1>0. c \in ConnRecord /\ ToldByState(c) /\ ActiveReads(c)
  BY DEF NodeInv, ConnInv
<1>1. /\ c.reader = "reply" /\ Set(k, d) /\ unsup' = unsup + 1
      /\ UNCHANGED <<user, server, mutex, main, dispatch, nextRev, slots, doomed, step, made>>
  BY DEF Refused, threads, table
<1>2. Evolves(c, d) /\ d.reader = "unsup"
  BY <1>0, <1>1, ReaderEvolves DEF Readers, ActiveReads
<1> HIDE DEF d
<1>3. /\ ConnInv' /\ FreshInv' /\ OutInv' /\ StopInv'
      /\ conn'[k] = d /\ \A j \in Conns \ {k} : conn'[j] = conn[j]
      /\ \A j \in Conns : conn'[j].rev = conn[j].rev /\ (Spent(conn[j]) => Spent(conn'[j]))
  BY <1>1, <1>2, OneEvolves DEF Fresh
<1>4. Olds' = Olds /\ Refusing' = Refusing \cup {k} /\ k \notin Refusing
  BY <1>1, <1>2, <1>3 DEF Olds, Refusing
<1>5. Cardinality(Refusing') = Cardinality(Refusing) + 1
  BY <1>4, ConnsFinite, FS_AddElement DEF Refusing
<1>6. Cardinality(Olds) \in Nat /\ Cardinality(Refusing) \in Nat
  BY ConnsFinite DEF Olds, Refusing
<1>7. Spents' = Spents \cup {k} /\ k \notin Spents
  BY <1>1, <1>2, <1>3 DEF Spents, Spent
<1>8. Cardinality(Spents') = Cardinality(Spents) + 1 /\ Cardinality(Spents) \in Nat
  BY <1>7, ConnsFinite, FS_AddElement DEF Spents
<1>9. CountInv'
  BY <1>1, <1>4, <1>5, <1>6, <1>8 DEF NodeInv, CountInv
<1>10. FlowInv'
  BY <1>1, FlowKept
<1> QED BY <1>3, <1>9, <1>10 DEF NodeInv

LEMMA FallsBackStep ==
  ASSUME NodeInv, NEW k \in Conns, FallsBack(k)
  PROVE  NodeInv'
<1> DEFINE c == conn[k]  d == HandshakeFailed(c)
<1>0. c \in ConnRecord /\ ToldByState(c) /\ ActiveReads(c)
  BY DEF NodeInv, ConnInv
<1>1. /\ c.reader = "unsup" /\ Set(k, d) /\ unsup' = unsup /\ nextRev' \in {nextRev, Old}
      /\ UNCHANGED <<user, server, mutex, main, dispatch, slots, doomed, step, made>>
  BY DEF FallsBack, table
<1>2. Evolves(c, d) /\ d.reader = "gone"
  BY <1>0, <1>1, HandshakeFailedEvolves
<1> HIDE DEF d
<1>3. /\ ConnInv' /\ FreshInv' /\ OutInv' /\ StopInv'
      /\ conn'[k] = d /\ \A j \in Conns \ {k} : conn'[j] = conn[j]
      /\ \A j \in Conns : conn'[j].rev = conn[j].rev /\ (Spent(conn[j]) => Spent(conn'[j]))
  BY <1>1, <1>2, OneEvolves DEF Fresh
<1>4. Olds' = Olds /\ Refusing' = Refusing \ {k} /\ k \in Refusing
  BY <1>1, <1>2, <1>3 DEF Olds, Refusing
<1>5. Cardinality(Refusing') = Cardinality(Refusing) - 1
  BY <1>4, ConnsFinite, FS_RemoveElement DEF Refusing
<1>6. Cardinality(Olds) \in Nat /\ Cardinality(Refusing) \in Nat
  BY ConnsFinite DEF Olds, Refusing
<1>7. CountInv'
  <2>1. unsup \in Nat /\ nextRev' \in {Old, New}
        /\ Cardinality(Olds) + Cardinality(Refusing) + (IF nextRev = Old THEN 1 ELSE 0) <= unsup
    BY <1>1 DEF NodeInv, CountInv
  <2>2. Cardinality(Olds) + Cardinality(Refusing) <= unsup
    BY <1>6, <2>1
  <2>3. unsup <= Cardinality(Spents')
    BY <1>3, SpentsGrow DEF NodeInv, CountInv
  <2> QED BY <1>1, <1>4, <1>5, <1>6, <2>1, <2>2, <2>3 DEF CountInv
<1>8. FlowInv'
  BY <1>1, FlowKept
<1> QED BY <1>3, <1>7, <1>8 DEF NodeInv

LEMMA ReaderStep ==
  ASSUME NodeInv, NEW k \in Conns, Reader(k)
  PROVE  NodeInv'
<1> DEFINE c == conn[k]
<1>0. c \in ConnRecord /\ ToldByState(c) /\ ActiveReads(c)
  BY DEF NodeInv, ConnInv
<1>1. ASSUME NEW d, Only(k, d), Evolves(c, d), c.reader # "none", c.reader # "unsup",
             d.reader # "unsup"
      PROVE  NodeInv'
  BY <1>1, OneThread
<1>2. CASE ClientHello(k)
  <2> DEFINE d == [Pushed(SetState(c, "handshake")) EXCEPT !.reader = "reply"]
  <2>1. c.reader = "start" /\ Only(k, d)
    BY <1>2 DEF ClientHello
  <2>2. Evolves(c, d) /\ d.reader = "reply"
    <3>1. /\ c.reader \in {"start", "initial", "reply", "finish"} /\ "reply" \in Readers
          /\ "handshake" \in {"handshake", "synchronized", "active"} /\ "handshake" # "active"
      BY <2>1 DEF Readers
    <3> QED BY <1>0, <3>1, HandshakeEvolves, ZenonT(40)
  <2> HIDE DEF d
  <2> QED BY <1>1, <2>1, <2>2
<1>3. CASE ServerGetsHello(k)
  <2> DEFINE d == [SetState(c, "handshake") EXCEPT !.reader = "initial"]
  <2>1. /\ c.reader = "start"
        /\ Only(k, d) \/ Only(k, HandshakeFailed(Pushed(c))) \/ Only(k, HandshakeFailed(c))
    BY <1>3 DEF ServerGetsHello
  <2>2. Evolves(c, d) /\ d.reader = "initial"
    <3>1. /\ c.reader \in {"start", "initial", "reply", "finish"} /\ "initial" \in Readers
          /\ "handshake" \in {"handshake", "synchronized", "active"} /\ "handshake" # "active"
      BY <2>1 DEF Readers
    <3> QED BY <1>0, <3>1, HandshakeEvolves, ZenonT(40)
  <2>3. Evolves(c, HandshakeFailed(c)) /\ HandshakeFailed(c).reader = "gone"
    BY <1>0, <2>1, HandshakeFailedEvolves
  <2> DEFINE p == Pushed(c)
  <2>4. /\ p \in ConnRecord /\ ToldByState(p) /\ p.state = c.state
        /\ p.active = c.active /\ p.open = c.open /\ SameBase(c, p) /\ SameThreads(c, p)
    BY <1>0, PushedDoes
  <2> HIDE DEF p
  <2>5. Evolves(p, HandshakeFailed(p)) /\ HandshakeFailed(p).reader = "gone"
    BY <2>1, <2>4, HandshakeFailedEvolves DEF SameThreads
  <2>6. Evolves(c, HandshakeFailed(p))
    BY <2>1, <2>4, <2>5 DEF Evolves, SameBase, SameThreads, Left, Spent
  <2> HIDE DEF d
  <2> QED BY <1>1, <2>1, <2>2, <2>3, <2>5, <2>6 DEF p
<1>4. CASE ServerSendsInitial(k)
  <2> DEFINE d == [Pushed(SetState(c, "synchronized")) EXCEPT !.reader = "reply"]
  <2>1. c.reader = "initial" /\ Only(k, d)
    BY <1>4 DEF ServerSendsInitial
  <2>2. Evolves(c, d) /\ d.reader = "reply"
    BY ZenonT(40), <1>0, <2>1, HandshakeEvolves DEF Readers
  <2> HIDE DEF d
  <2> QED BY <1>1, <2>1, <2>2
<1>5. CASE Answered(k)
  <2> DEFINE d == [c EXCEPT !.reader = "finish"]
             e == [Pushed(SetState(c, "synchronized")) EXCEPT !.reader = "finish"]
  <2>1. c.reader = "reply" /\ (Only(k, d) \/ Only(k, e) \/ Only(k, HandshakeFailed(c)))
    <3>1. c.reader = "reply"
      BY <1>5 DEF Answered
    <3>2. CASE Readable(c)
      <4>1. Only(k, [(IF c.serves THEN c ELSE Pushed(SetState(c, "synchronized")))
                       EXCEPT !.reader = "finish"])
        BY <1>5, <3>2 DEF Answered
      <4> QED BY <3>1, <4>1
    <3>3. CASE ~Readable(c)
      BY <1>5, <3>1, <3>3 DEF Answered
    <3> QED BY <3>2, <3>3
  <2>2. Evolves(c, d) /\ d.reader = "finish"
    BY <1>0, <2>1, ReaderEvolves DEF Readers, ActiveReads
  <2>3. Evolves(c, e) /\ e.reader = "finish"
    BY ZenonT(40), <1>0, <2>1, HandshakeEvolves DEF Readers
  <2>4. Evolves(c, HandshakeFailed(c)) /\ HandshakeFailed(c).reader = "gone"
    BY <1>0, <2>1, HandshakeFailedEvolves
  <2> HIDE DEF d, e
  <2> QED BY <1>1, <2>1, <2>2, <2>3, <2>4
<1>6. CASE HandshakeDone(k)
  <2> DEFINE d == [SetState(c, "active") EXCEPT !.reader = "loop"]
  <2>1. c.reader = "finish" /\ Only(k, d)
    BY <1>6 DEF HandshakeDone
  <2>2. Evolves(c, d) /\ d.reader = "loop"
    BY ZenonT(40), <1>0, <2>1, HandshakeEvolves DEF Readers
  <2> HIDE DEF d
  <2> QED BY <1>1, <2>1, <2>2
<1>7. CASE Reads(k)
  <2> DEFINE d == [c EXCEPT !.reader = "process"]
  <2>1. c.reader = "loop" /\ (Only(k, d) \/ Only(k, ReadDied(c)))
    BY <1>7 DEF Reads
  <2>2. Evolves(c, d) /\ d.reader = "process"
    BY <1>0, <2>1, ReaderEvolves DEF Readers
  <2>3. Evolves(c, ReadDied(c)) /\ ReadDied(c).reader = "gone"
    BY <1>0, <2>1, ReadDiedEvolves
  <2> HIDE DEF d
  <2> QED BY <1>1, <2>1, <2>2, <2>3
<1>8. CASE Processes(k)
  <2> DEFINE d == [c EXCEPT !.reader = "loop"]
  <2>1. c.reader = "process" /\ Only(k, d)
    BY <1>8 DEF Processes
  <2>2. Evolves(c, d) /\ d.reader = "loop"
    BY <1>0, <2>1, ReaderEvolves DEF Readers
  <2> HIDE DEF d
  <2> QED BY <1>1, <2>1, <2>2
<1> QED BY <1>2, <1>3, <1>4, <1>5, <1>6, <1>7, <1>8, RefusedStep, FallsBackStep DEF Reader

LEMMA BreaksStep ==
  ASSUME NodeInv, NEW k \in Conns, Breaks(k)
  PROVE  NodeInv'
<1> DEFINE c == conn[k]  d == [c EXCEPT !.broken = TRUE]
<1>1. c \in ConnRecord /\ ToldByState(c) /\ ActiveReads(c)
  BY DEF NodeInv, ConnInv
<1>2. d \in ConnRecord
  BY <1>1 DEF ConnRecord
<1>3. /\ d.state = c.state /\ d.told = c.told /\ d.active = c.active /\ d.open = c.open
      /\ d.rev = c.rev /\ d.detached = c.detached /\ d.reader = c.reader /\ d.writer = c.writer
  BY <1>1 DEF ConnRecord
<1>4. Only(k, d)
  BY DEF Breaks
<1> HIDE DEF d
<1>5. Evolves(c, d) /\ (Fresh(c) => Fresh(d))
  BY <1>1, <1>2, <1>3 DEF Evolves, ToldByState, ActiveReads, Left, Fresh, Spent
<1>6. UNCHANGED <<user, server, mutex, main, dispatch, nextRev, slots, doomed, step, made, unsup>> /\ Set(k, d)
  BY <1>4 DEF Only, threads, table
<1>7. /\ ConnInv' /\ FreshInv' /\ OutInv' /\ StopInv'
      /\ conn'[k] = d /\ \A j \in Conns \ {k} : conn'[j] = conn[j]
      /\ \A j \in Conns : conn'[j].rev = conn[j].rev /\ (Spent(conn[j]) => Spent(conn'[j]))
  BY <1>5, <1>6, OneEvolves
<1> QED BY <1>3, <1>6, <1>7, FlowKept, CountKept DEF NodeInv
-----------------------------------------------------------------------------
(***************************************************************************)
(* What is in the lists.                                                   *)
(***************************************************************************)
LEMMA ToSetShort ==
  /\ ToSet(<<>>) = {}
  /\ \A x : ToSet(<<x>>) = {x}
BY DEF ToSet

LEMMA ToSetTail ==
  ASSUME NEW S, NEW s \in Seq(S), s # <<>>
  PROVE  /\ Head(s) \in S /\ Tail(s) \in Seq(S)
         /\ ToSet(s) = {Head(s)} \cup ToSet(Tail(s))
<1>1. /\ Head(s) \in S /\ Tail(s) \in Seq(S) /\ Len(Tail(s)) = Len(s) - 1
      /\ \A i \in 1 .. Len(Tail(s)) : Tail(s)[i] = s[i + 1]
      /\ Head(s) = s[1] /\ Len(s) \in Nat \ {0}
  BY HeadTailProperties
<1>2. DOMAIN s = 1 .. Len(s) /\ DOMAIN Tail(s) = 1 .. Len(Tail(s))
  BY <1>1
<1>3. ASSUME NEW i \in 1 .. Len(s) PROVE s[i] \in {Head(s)} \cup ToSet(Tail(s))
  <2>1. CASE i = 1
    BY <1>1, <2>1
  <2>2. CASE i # 1
    <3>1. i - 1 \in 1 .. Len(Tail(s)) /\ Tail(s)[i - 1] = s[i]
      BY <1>1, <2>2
    <3> QED BY <1>2, <3>1 DEF ToSet
  <2> QED BY <2>1, <2>2
<1>4. ASSUME NEW j \in 1 .. Len(Tail(s)) PROVE Tail(s)[j] \in ToSet(s)
  <2>1. j + 1 \in 1 .. Len(s) /\ s[j + 1] = Tail(s)[j]
    BY <1>1
  <2> QED BY <1>2, <2>1 DEF ToSet
<1>5. Head(s) \in ToSet(s)
  BY <1>1, <1>2 DEF ToSet
<1> QED BY <1>1, <1>2, <1>3, <1>4, <1>5 DEF ToSet

LEMMA ToSetAppend ==
  ASSUME NEW S, NEW s \in Seq(S), NEW T, S \subseteq T, NEW x \in T
  PROVE  Append(s, x) \in Seq(T) /\ ToSet(Append(s, x)) = ToSet(s) \cup {x}
<1>1. /\ Append(s, x) \in Seq(T) /\ DOMAIN Append(s, x) = 1 .. (Len(s) + 1)
      /\ DOMAIN s = 1 .. Len(s) /\ Len(s) \in Nat
  OBVIOUS
<1>2. Append(s, x)[Len(s) + 1] = x /\ \A i \in 1 .. Len(s) : Append(s, x)[i] = s[i]
  OBVIOUS
<1>3. \A i \in 1 .. (Len(s) + 1) : i \in 1 .. Len(s) \/ i = Len(s) + 1
  BY <1>1
<1>4. (1 .. Len(s)) \subseteq (1 .. (Len(s) + 1)) /\ Len(s) + 1 \in 1 .. (Len(s) + 1)
  BY <1>1
<1> QED BY <1>1, <1>2, <1>3, <1>4 DEF ToSet

LEMMA ToSetExcept ==
  ASSUME NEW S, NEW s \in Seq(S), NEW x \in S, NEW i \in DOMAIN s
  PROVE  /\ [s EXCEPT ![i] = x] \in Seq(S)
         /\ ToSet([s EXCEPT ![i] = x]) \subseteq ToSet(s) \cup {x}
         /\ ToSet(s) \cup {x} \subseteq ToSet([s EXCEPT ![i] = x]) \cup {s[i]}
         /\ s[i] \in S /\ s[i] \in ToSet(s)
<1>1. [s EXCEPT ![i] = x] \in Seq(S)
  OBVIOUS
<1>2. DOMAIN [s EXCEPT ![i] = x] = DOMAIN s
  OBVIOUS
<1>3. [s EXCEPT ![i] = x][i] = x /\ \A j \in DOMAIN s \ {i} : [s EXCEPT ![i] = x][j] = s[j]
  OBVIOUS
<1> QED BY <1>1, <1>2, <1>3 DEF ToSet

\* A connection being destroyed was started.
LEMMA DoomedWasMade ==
  ASSUME NodeInv, doomed # <<>>
  PROVE  /\ Head(doomed) \in Conns /\ Head(doomed) \in ToSet(doomed)
         /\ ~Unstarted(Head(doomed)) /\ ToSet(doomed) = {Head(doomed)} \cup ToSet(Tail(doomed))
         /\ Tail(doomed) \in Seq(1 .. made)
<1>1. doomed \in Seq(1 .. made) /\ made \in 0 .. MaxConns
  BY DEF NodeInv, FlowInv
<1>2. /\ Head(doomed) \in 1 .. made /\ Tail(doomed) \in Seq(1 .. made)
      /\ ToSet(doomed) = {Head(doomed)} \cup ToSet(Tail(doomed))
  BY <1>1, ToSetTail
<1>3. Head(doomed) \in Conns /\ Head(doomed) \in ToSet(doomed) /\ ~(Head(doomed) > made)
  BY <1>1, <1>2, DispatcherAssumption DEF Conns
<1>4. main # "place" /\ (main = "start" => Head(doomed) # made)
  BY <1>3 DEF NodeInv, FlowInv
<1> QED BY <1>2, <1>3, <1>4 DEF Unstarted
-----------------------------------------------------------------------------
(***************************************************************************)
(* Destroying a connection.                                                *)
(***************************************************************************)
LEMMA StopBeginsStep == ASSUME NodeInv, StopBegins PROVE NodeInv'
<1> DEFINE k == Head(doomed)  c == conn[k]  a == Killed(c)  b == Closed(a)  d == Pushed(b)
<1>0. /\ doomed # <<>> /\ Set(k, d) /\ step' = "writer"
      /\ UNCHANGED <<user, server, mutex, main, dispatch, nextRev, slots, doomed, made, unsup>>
  BY DEF StopBegins, threads
<1>1. k \in Conns /\ ~Unstarted(k)
  BY <1>0, DoomedWasMade
<1>2. c \in ConnRecord /\ ToldByState(c)
  BY <1>1 DEF NodeInv, ConnInv
<1> HIDE DEF k
<1>3. /\ a \in ConnRecord /\ ToldByState(a) /\ a.state = "dead" /\ ~a.active /\ a.open = c.open
      /\ SameBase(c, a) /\ SameThreads(c, a)
  BY <1>2, KilledDoes
<1> HIDE DEF a
<1>4. /\ b \in ConnRecord /\ ToldByState(b) /\ b.state = a.state /\ ~b.open
      /\ b.active = a.active /\ SameBase(a, b) /\ SameThreads(a, b)
  BY <1>3, ClosedDoes
<1> HIDE DEF b
<1>5. /\ d \in ConnRecord /\ ToldByState(d) /\ d.state = b.state
      /\ d.active = b.active /\ d.open = b.open /\ SameBase(b, d) /\ SameThreads(b, d)
  BY <1>4, PushedDoes
<1> HIDE DEF d
<1>6. Evolves(c, d)
  BY <1>2, <1>3, <1>4, <1>5, EvolvesIf DEF SameBase, SameThreads, ActiveReads, Spent
<1>7. d.reader = c.reader /\ Shut(d)
  BY <1>3, <1>4, <1>5 DEF SameThreads, Shut
<1>8. /\ ConnInv' /\ FreshInv' /\ OutInv'
      /\ conn'[k] = d /\ \A j \in Conns \ {k} : conn'[j] = conn[j]
      /\ \A j \in Conns : conn'[j].rev = conn[j].rev /\ (Spent(conn[j]) => Spent(conn'[j]))
  BY <1>0, <1>1, <1>6, OneEvolves
<1>9. StopInv'
  BY <1>0, <1>7, <1>8 DEF StopInv, k
<1>10. CountInv'
  BY <1>0, <1>7, <1>8, CountKept
<1>11. FlowInv'
  BY <1>0 DEF NodeInv, FlowInv
<1> QED BY <1>8, <1>9, <1>10, <1>11 DEF NodeInv

\* Joining a thread, or giving up on it, leaves the thread ended or detached.
LEMMA JoinedDoes ==
  ASSUME NEW c \in ConnRecord, ToldByState(c), ActiveReads(c), NEW t \in {"reader", "writer"}
  PROVE  LET d == [c EXCEPT !.detached = @ \cup {t}]
         IN  Evolves(c, d) /\ Left(d, t) /\ d.reader = c.reader
<1> DEFINE d == [c EXCEPT !.detached = c.detached \cup {t}]
<1>1. d \in ConnRecord
  BY DEF ConnRecord
<1>2. /\ d.state = c.state /\ d.told = c.told /\ d.active = c.active /\ d.open = c.open
      /\ d.rev = c.rev /\ d.reader = c.reader /\ d.writer = c.writer
      /\ d.detached = c.detached \cup {t}
  BY DEF ConnRecord
<1> HIDE DEF d
<1>3. Evolves(c, d) /\ Left(d, t)
  BY <1>1, <1>2 DEF Evolves, ToldByState, ActiveReads, Left, Spent
<1> QED BY <1>2, <1>3, Zenon DEF d

LEMMA StopWriterStep == ASSUME NodeInv, StopWriter PROVE NodeInv'
<1> DEFINE k == Head(doomed)  c == conn[k]  e == [c EXCEPT !.detached = @ \cup {"writer"}]
<1>0. /\ doomed # <<>> /\ step = "writer" /\ Joins("writer", c) /\ step' = "reader"
      /\ UNCHANGED <<user, server, mutex, main, dispatch, nextRev, slots, doomed, made, unsup>>
  BY DEF StopWriter, threads
<1>1. k \in Conns /\ ~Unstarted(k)
  BY <1>0, DoomedWasMade
<1>2. c \in ConnRecord /\ ToldByState(c) /\ ActiveReads(c) /\ Shut(c)
  BY <1>0, <1>1 DEF NodeInv, ConnInv, StopInv
<1>3. (c.writer \in {"gone", "none"} /\ Set(k, c)) \/ Set(k, e)
  BY <1>0, Zenon DEF Joins
<1>4. Evolves(c, c) /\ Evolves(c, e) /\ Left(e, "writer") /\ e.reader = c.reader
  BY <1>1, <1>2, JoinedDoes, StaysItself DEF NodeInv
<1> HIDE DEF k, e
<1>5. PICK d : Set(k, d) /\ Evolves(c, d) /\ Left(d, "writer") /\ d.reader = c.reader
  BY <1>3, <1>4, Zenon DEF Left
<1>6. Shut(d)
  BY <1>2, <1>5, EndedForGood
<1>7. /\ ConnInv' /\ FreshInv' /\ OutInv'
      /\ conn'[k] = d /\ \A j \in Conns \ {k} : conn'[j] = conn[j]
      /\ \A j \in Conns : conn'[j].rev = conn[j].rev /\ (Spent(conn[j]) => Spent(conn'[j]))
  BY <1>0, <1>1, <1>5, OneEvolves
<1>8. StopInv'
  BY <1>0, <1>5, <1>6, <1>7 DEF StopInv, k
<1>9. CountInv'
  BY <1>0, <1>5, <1>7, CountKept
<1>10. FlowInv'
  BY <1>0 DEF NodeInv, FlowInv
<1> QED BY <1>7, <1>8, <1>9, <1>10 DEF NodeInv

\* The connection leaves the list, and has ended.
LEMMA StopReaderStep == ASSUME NodeInv, StopReader PROVE NodeInv'
<1> DEFINE k == Head(doomed)  c == conn[k]  b == [c EXCEPT !.q = 0]
           e == [b EXCEPT !.detached = @ \cup {"reader"}]
<1>0. /\ doomed # <<>> /\ step = "reader" /\ Joins("reader", b) /\ step' = "begin"
      /\ doomed' = Tail(doomed)
      /\ UNCHANGED <<user, server, mutex, main, dispatch, nextRev, slots, made, unsup>>
  BY DEF StopReader, threads
<1>1. /\ k \in Conns /\ ~Unstarted(k)
      /\ ToSet(doomed) = {k} \cup ToSet(doomed') /\ doomed' \in Seq(1 .. made)
  BY <1>0, DoomedWasMade
<1>2. c \in ConnRecord /\ ToldByState(c) /\ ActiveReads(c) /\ Shut(c) /\ Left(c, "writer")
  BY <1>0, <1>1 DEF NodeInv, ConnInv, StopInv
<1>3. b \in ConnRecord /\ ToldByState(b) /\ ActiveReads(b) /\ Evolves(c, b) /\ b.reader = c.reader
  <2>1. b \in ConnRecord
    BY <1>2, DispatcherAssumption DEF ConnRecord
  <2>2. /\ b.state = c.state /\ b.told = c.told /\ b.active = c.active /\ b.open = c.open
        /\ b.rev = c.rev /\ b.reader = c.reader /\ b.writer = c.writer
        /\ b.detached = c.detached
    BY <1>2 DEF ConnRecord
  <2> HIDE DEF b
  <2> QED BY <1>2, <2>1, <2>2 DEF Evolves, ToldByState, ActiveReads, Left, Spent
<1>4. (b.reader \in {"gone", "none"} /\ Set(k, b)) \/ Set(k, e)
  BY <1>0, Zenon DEF Joins
<1> HIDE DEF b
<1>5. Evolves(b, b) /\ Evolves(b, e) /\ Left(e, "reader") /\ e.reader = b.reader
  BY <1>3, JoinedDoes DEF Evolves
<1> HIDE DEF k, e
<1>6. PICK d : Set(k, d) /\ Evolves(c, d) /\ Left(d, "reader") /\ d.reader = c.reader
  <2>1. CASE Set(k, e)
    BY <1>3, <1>5, <2>1 DEF Evolves
  <2>2. CASE b.reader \in {"gone", "none"} /\ Set(k, b)
    BY <1>3, <2>2 DEF Left
  <2> QED BY <1>4, <2>1, <2>2
<1>7. Ended(d)
  BY <1>2, <1>6, EndedForGood DEF Ended, Evolves
<1>8. conn' \in [Conns -> ConnRecord] /\ conn'[k] = d /\ \A j \in Conns \ {k} : conn'[j] = conn[j]
  BY <1>1, <1>6 DEF Set, NodeInv, ConnInv, Evolves
<1>9. ConnInv'
  BY <1>6, <1>8 DEF NodeInv, ConnInv, Evolves
<1>10. FreshInv'
  BY <1>0, <1>1, <1>8 DEF NodeInv, FreshInv, Unstarted
<1>11. OutInv'
  BY <1>0, <1>1, <1>7, <1>8 DEF NodeInv, OutInv, Unstarted
<1>12. StopInv'
  BY <1>0 DEF StopInv
<1>13. CountInv'
  BY <1>0, <1>6, <1>8, CountKept DEF Evolves
<1>14. FlowInv'
  BY <1>0, <1>1 DEF NodeInv, FlowInv
<1> QED BY <1>9, <1>10, <1>11, <1>12, <1>13, <1>14 DEF NodeInv
-----------------------------------------------------------------------------
(***************************************************************************)
(* Steps of the node's threads.                                            *)
(***************************************************************************)
LEMMA DispatchPassStep == ASSUME NodeInv, DispatchPass PROVE NodeInv'
<1>1. PICK posted \in SUBSET {k \in ToSet(slots) : conn[k].state = "active"} :
        conn' = [k \in Conns |-> IF k \in posted THEN Pushed(conn[k]) ELSE conn[k]]
  BY DEF DispatchPass
<1>2. UNCHANGED <<user, server, mutex, main, dispatch, nextRev, slots, doomed, step, made, unsup>>
  BY DEF DispatchPass, table
<1>3. ASSUME NEW k \in Conns
      PROVE  /\ Evolves(conn[k], conn'[k]) /\ conn'[k].reader = conn[k].reader
             /\ Unstarted(k) /\ Fresh(conn[k]) => Fresh(conn'[k])
  <2>1. conn[k] \in ConnRecord /\ ToldByState(conn[k]) /\ ActiveReads(conn[k])
    BY DEF NodeInv, ConnInv
  <2>2. CASE k \in posted
    <3> DEFINE c == conn[k]  d == Pushed(c)
    <3>1. conn'[k] = d /\ c.state = "active"
      BY <1>1, <2>2
    <3>2. /\ d \in ConnRecord /\ ToldByState(d) /\ d.state = c.state
          /\ d.active = c.active /\ d.open = c.open /\ SameBase(c, d) /\ SameThreads(c, d)
      BY <2>1, PushedDoes
    <3> HIDE DEF d
    <3>3. Evolves(c, d)
      BY <2>1, <3>2, EvolvesIf DEF SameThreads, ActiveReads, Spent
    <3> QED BY <3>1, <3>2, <3>3 DEF SameThreads, Fresh
  <2>3. CASE k \notin posted
    BY <1>1, <2>3, StaysItself DEF NodeInv
  <2> QED BY <2>2, <2>3
<1>4. conn' \in [Conns -> ConnRecord]
  <2>1. \A k \in Conns : conn'[k] \in ConnRecord
    BY <1>3 DEF Evolves
  <2> QED BY <1>1, <2>1
<1>5. ConnInv' /\ FreshInv' /\ OutInv' /\ StopInv'
  BY <1>2, <1>3, <1>4, ConnsEvolve
<1>6. CountInv'
  BY <1>2, <1>3, CountKept DEF Evolves
<1> QED BY <1>2, <1>5, <1>6, FlowKept DEF NodeInv

\* A step that leaves the connections alone keeps what holds of each of them.
LEMMA ConnsKept ==
  ASSUME NodeInv, UNCHANGED <<conn, unsup>>, nextRev' \in {nextRev, New}
  PROVE  ConnInv' /\ CountInv'
<1>1. ConnInv'
  BY DEF NodeInv, ConnInv
<1>2. Olds' = Olds /\ Refusing' = Refusing
  BY DEF Olds, Refusing
<1>3. Cardinality(Olds) \in Nat /\ Cardinality(Refusing) \in Nat
  BY ConnsFinite DEF Olds, Refusing
<1>4. Spents' = Spents
  BY DEF Spents
<1>5. CountInv'
  BY <1>2, <1>3, <1>4 DEF NodeInv, CountInv, Old, New
<1> QED BY <1>1, <1>5

\* So does one that leaves the lists alone too, for what holds of those.
LEMMA ListsKept ==
  ASSUME NodeInv, UNCHANGED <<conn, unsup, slots, doomed, step, made>>,
         nextRev' \in {nextRev, New},
         main \in {"place", "start"} <=> main' \in {"place", "start"},
         FlowInv'
  PROVE  NodeInv'
<1>1. FreshInv' /\ OutInv' /\ StopInv'
  BY DEF NodeInv, FreshInv, OutInv, StopInv, Unstarted
<1> QED BY <1>1, ConnsKept DEF NodeInv

LEMMA DispatchEndsStep == ASSUME NodeInv, DispatchEnds PROVE NodeInv'
<1>1. FlowInv'
  BY DEF DispatchEnds, NodeInv, FlowInv, table
<1> QED BY <1>1, ListsKept DEF DispatchEnds, table

LEMMA ClientThreadStep ==
  ASSUME NodeInv, ClientLoop \/ ClientPicks \/ ClientConnects \/ ClientWakes
  PROVE  NodeInv'
<1>1. /\ UNCHANGED <<user, server, dispatch, nextRev, slots, doomed, step, made, conn, unsup>>
      /\ main \in {"loop", "sleep", "connect", "wait"}
      /\ \/ main' \in {"loop", "sleep", "gone", "connect"} /\ mutex' = mutex
         \/ main' = "replace" /\ mutex' = "main" /\ made < MaxConns
  BY DEF ClientLoop, ClientPicks, ClientConnects, ClientWakes, MainGoes, table
<1>2. FlowInv'
  BY <1>1 DEF NodeInv, FlowInv
<1> QED BY <1>1, <1>2, ListsKept

\* The connection the client has is destroyed first.
LEMMA ClientDropsStep == ASSUME NodeInv, ClientDrops PROVE NodeInv'
<1>1. /\ main = "replace" /\ slots # <<>> /\ doomed' = slots /\ slots' = <<>>
      /\ UNCHANGED <<user, server, mutex, main, dispatch, nextRev, step, made, conn, unsup>>
  BY DEF ClientDrops, threads
<1>2. doomed = <<>> /\ step = "begin" /\ ToSet(<<>>) = {}
  BY <1>1, ToSetShort DEF NodeInv, FlowInv
<1>3. FlowInv'
  BY <1>1, <1>2 DEF NodeInv, FlowInv
<1>4. FreshInv' /\ OutInv' /\ StopInv'
  BY <1>1, <1>2 DEF NodeInv, FreshInv, OutInv, StopInv, Unstarted
<1> QED BY <1>1, <1>3, <1>4, ConnsKept DEF NodeInv

LEMMA StartDoes ==
  ASSUME NEW c \in ConnRecord, ToldByState(c), Fresh(c), NEW rev \in {Old, New},
         server \in BOOLEAN
  PROVE  /\ Start(c, rev) \in ConnRecord /\ ToldByState(Start(c, rev))
         /\ ActiveReads(Start(c, rev))
         /\ Start(c, rev).rev = rev /\ Start(c, rev).reader = "start"
<1> DEFINE b == SetState(c, "init")
           d == [b EXCEPT !.active = TRUE, !.q = 0, !.rev = rev, !.serves = server,
                          !.reader = "start", !.writer = "start"]
<1>1. b \in ConnRecord /\ ToldByState(b) /\ b.state = "init"
  BY SetStateDoes DEF Fresh, States
<1>2. Start(c, rev) = d
  BY Zenon DEF Start, Fresh
<1> HIDE DEF b
<1>3. d \in ConnRecord
  <2> DEFINE a == [b EXCEPT !.active = TRUE]
  <2>1. a \in ConnRecord
    BY <1>1 DEF ConnRecord
  <2>2. d = [a EXCEPT !.q = 0, !.rev = rev, !.serves = server,
                      !.reader = "start", !.writer = "start"]
    OBVIOUS
  <2> HIDE DEF a, d
  <2>3. ASSUME NEW v \in BOOLEAN, NEW n \in 0 .. MaxQueue
        PROVE  [a EXCEPT !.q = n, !.rev = rev, !.serves = v,
                         !.reader = "start", !.writer = "start"] \in ConnRecord
    BY <2>1 DEF ConnRecord, Readers, Writers
  <2>4. 0 \in 0 .. MaxQueue
    BY DispatcherAssumption
  <2> QED BY <2>2, <2>3, <2>4, Zenon
<1>4. d.state = b.state /\ d.told = b.told /\ d.rev = rev /\ d.reader = "start"
  BY <1>1 DEF ConnRecord
<1> HIDE DEF d
<1> QED BY <1>1, <1>2, <1>3, <1>4 DEF ToldByState, ActiveReads

\* A connection is started: it counts if it uses the old revision.
LEMMA StartCounts ==
  ASSUME NodeInv, NEW k \in Conns, Fresh(conn[k]), NEW rev \in {Old, New}, NEW c \in ConnRecord,
         c.rev = rev, c.reader = "start", Set(k, c), unsup' = unsup,
         nextRev' \in {Old, New}, rev = Old => nextRev = Old,
         nextRev' = Old => rev = New /\ nextRev = Old
  PROVE  CountInv'
<1>1. /\ conn \in [Conns -> ConnRecord]
      /\ conn'[k] = c /\ \A j \in Conns \ {k} : conn'[j] = conn[j]
  BY DEF Set, NodeInv, ConnInv
<1>2. Old # New /\ conn[k].rev = New /\ conn[k].reader # "unsup"
  BY DEF Fresh, Old, New
<1>3. Refusing' = Refusing
  BY <1>1, <1>2 DEF Refusing
<1>4. Cardinality(Olds) \in Nat /\ Cardinality(Refusing) \in Nat
  BY ConnsFinite DEF Olds, Refusing
<1>5. \A j \in Conns : Spent(conn[j]) => Spent(conn'[j])
  BY <1>1, <1>2 DEF Spent, Fresh
<1>6. /\ unsup \in Nat /\ unsup' <= Cardinality(Spents')
      /\ Cardinality(Olds) + Cardinality(Refusing) + (IF nextRev = Old THEN 1 ELSE 0) <= unsup
  BY <1>5, SpentsGrow DEF NodeInv, CountInv
<1>7. CASE rev = Old
  <2>1. Olds' = Olds \cup {k} /\ k \notin Olds
    BY <1>1, <1>2, <1>7 DEF Olds
  <2>2. Cardinality(Olds') = Cardinality(Olds) + 1
    BY <2>1, ConnsFinite, FS_AddElement DEF Olds
  <2>3. nextRev = Old /\ nextRev' # Old
    BY <1>2, <1>7
  <2>4. Cardinality(Olds) + Cardinality(Refusing) + 1 <= unsup
    BY <1>6, <2>3
  <2>5. Cardinality(Olds') + Cardinality(Refusing') + (IF nextRev' = Old THEN 1 ELSE 0) <= unsup'
    BY <1>3, <1>4, <1>6, <2>2, <2>3, <2>4
  <2> QED BY <1>6, <2>5 DEF CountInv
<1>8. CASE rev = New
  <2>1. Olds' = Olds
    BY <1>1, <1>2, <1>8 DEF Olds
  <2> QED BY <1>3, <1>4, <1>6, <2>1 DEF CountInv
<1> QED BY <1>7, <1>8

LEMMA ClientStartsStep == ASSUME NodeInv, ClientStarts PROVE NodeInv'
<1> DEFINE k == made + 1  d == Start(Blank, nextRev)
<1>1. /\ main = "replace" /\ slots = <<>> /\ doomed = <<>>
      /\ made' = k /\ slots' = <<k>> /\ Set(k, d) /\ nextRev' = New
      /\ mutex' = "free" /\ main' = "wait"
      /\ UNCHANGED <<user, server, dispatch, doomed, step, unsup>>
  BY DEF ClientStarts
<1>2. /\ made \in 0 .. MaxConns /\ made < MaxConns /\ server \in BOOLEAN /\ nextRev \in {Old, New}
      /\ user \notin {"off", "close"}
  BY <1>1 DEF NodeInv, FlowInv, CountInv
<1>3. k \in Conns /\ Unstarted(k) /\ k \in 1 .. MaxConns
  BY <1>2, DispatcherAssumption DEF Conns, Unstarted
<1>4. /\ d \in ConnRecord /\ ToldByState(d) /\ ActiveReads(d)
      /\ d.rev = nextRev /\ d.reader = "start"
  BY <1>2, BlankIsFresh, StartDoes
<1> HIDE DEF d
<1>5. /\ conn' \in [Conns -> ConnRecord]
      /\ conn'[k] = d /\ \A j \in Conns \ {k} : conn'[j] = conn[j]
  BY <1>1, <1>3, <1>4 DEF Set, NodeInv, ConnInv
<1>6. Fresh(conn[k])
  BY <1>3 DEF NodeInv, FreshInv
<1>7. CountInv'
  BY <1>1, <1>2, <1>3, <1>4, <1>6, StartCounts DEF Old, New
<1>8. ConnInv'
  BY <1>4, <1>5 DEF NodeInv, ConnInv
<1>9. FreshInv'
  BY <1>1, <1>2, <1>5 DEF NodeInv, FreshInv, Unstarted, Conns
<1>10. ToSet(slots) = {} /\ ToSet(doomed) = {} /\ ToSet(slots') = {k}
  BY <1>1, ToSetShort
<1>11. OutInv'
  BY <1>1, <1>2, <1>3, <1>5, <1>10 DEF NodeInv, OutInv, Unstarted, Conns
<1>12. StopInv'
  BY <1>1 DEF StopInv
<1>13. FlowInv'
  <2>1. <<k>> \in Seq(1 .. k) /\ k \in 0 .. MaxConns
    BY <1>2, DispatcherAssumption
  <2> QED BY <1>1, <1>2, <2>1 DEF NodeInv, FlowInv
<1> QED BY <1>7, <1>8, <1>9, <1>11, <1>12, <1>13 DEF NodeInv

LEMMA ServerThreadStep ==
  ASSUME NodeInv, ServerListens \/ ServerLoop \/ (ServerAccepts /\ UNCHANGED made)
  PROVE  NodeInv'
<1>1. /\ UNCHANGED <<user, server, mutex, dispatch, nextRev, slots, doomed, step, made, conn, unsup>>
      /\ main \in {"loop", "again", "accept"} /\ main' \in {"accept", "gone"}
  <2>1. CASE ServerListens \/ ServerLoop
    BY <2>1 DEF ServerListens, ServerLoop, MainGoes, table
  <2>2. CASE ServerAccepts /\ UNCHANGED made
    <3>1. made + 1 # made
      BY DEF NodeInv, FlowInv
    <3>2. CASE ~accepting /\ MainGoes("gone") /\ UNCHANGED <<mutex, table>>
      BY <2>2, <3>2 DEF ServerAccepts, MainGoes, table
    <3>3. CASE MainGoes("gone") /\ UNCHANGED <<active, mutex, table>>
      BY <2>2, <3>3 DEF ServerAccepts, MainGoes, table
    <3> QED BY <2>2, <3>1, <3>2, <3>3 DEF ServerAccepts
  <2> QED BY <2>1, <2>2
<1>2. FlowInv'
  BY <1>1 DEF NodeInv, FlowInv
<1> QED BY <1>1, <1>2, ListsKept

\* The connection accepted is not in the list yet.
LEMMA ServerAcceptsStep ==
  ASSUME NodeInv, ServerAccepts, ~UNCHANGED made
  PROVE  NodeInv'
<1>1. /\ main = "accept" /\ made < MaxConns /\ main' = "place" /\ mutex' = "main"
      /\ made' = made + 1
      /\ UNCHANGED <<user, server, dispatch, nextRev, slots, doomed, step, conn, unsup>>
  BY DEF ServerAccepts, MainGoes, table
<1>2. made \in 0 .. MaxConns /\ slots \in Seq(1 .. made) /\ doomed = <<>> /\ user \notin {"off", "close"}
  BY <1>1 DEF NodeInv, FlowInv
<1>3. made' \in 0 .. MaxConns /\ (1 .. made) \subseteq (1 .. made') /\ made' \notin 1 .. made /\ made' # 0
  BY <1>1, <1>2, DispatcherAssumption
<1>4. slots \in Seq(1 .. made') /\ ToSet(slots) \subseteq 1 .. made
  BY <1>2, <1>3 DEF ToSet
<1>5. FlowInv'
  BY <1>1, <1>2, <1>3, <1>4 DEF NodeInv, FlowInv
<1>6. \A k \in Conns : Unstarted(k)' <=> Unstarted(k)
  BY <1>1, <1>2 DEF Unstarted, Conns
<1>7. FreshInv' /\ OutInv' /\ StopInv'
  BY <1>1, <1>2, <1>6 DEF NodeInv, FreshInv, OutInv, StopInv
<1> QED BY <1>1, <1>5, <1>7, ConnsKept DEF NodeInv

\* It takes a place at the end, or that of a dead one, which is destroyed.
LEMMA ServerPlacesStep == ASSUME NodeInv, ServerPlaces PROVE NodeInv'
<1>1. /\ main = "place" /\ main' = "start"
      /\ UNCHANGED <<user, server, mutex, dispatch, nextRev, step, made, conn, unsup>>
  BY DEF ServerPlaces
<1>2. /\ made \in 0 .. MaxConns /\ made # 0 /\ slots \in Seq(1 .. made) /\ doomed = <<>>
      /\ user \notin {"off", "close"} /\ step = "begin" /\ made \notin ToSet(slots)
      /\ made \in 1 .. made
  BY <1>1 DEF NodeInv, FlowInv
<1>3. /\ slots' \in Seq(1 .. made) /\ doomed' \in Seq(1 .. made)
      /\ made \in ToSet(slots') /\ made \notin ToSet(doomed')
      /\ ToSet(slots) \subseteq ToSet(slots') \cup ToSet(doomed')
  <2>1. CASE slots' = Append(slots, made) /\ doomed' = doomed
    BY <1>2, <2>1, ToSetAppend, ToSetShort
  <2>2. CASE \E i \in DeadSlots : slots' = [slots EXCEPT ![i] = made] /\ doomed' = <<slots[i]>>
    <3>1. PICK i \in DeadSlots : slots' = [slots EXCEPT ![i] = made] /\ doomed' = <<slots[i]>>
      BY <2>2
    <3>2. i \in DOMAIN slots
      BY DEF DeadSlots
    <3> DEFINE s == [slots EXCEPT ![i] = made]
    <3>5. /\ s \in Seq(1 .. made) /\ slots[i] \in 1 .. made /\ slots[i] \in ToSet(slots)
          /\ ToSet(slots) \cup {made} \subseteq ToSet(s) \cup {slots[i]}
      <4> DEFINE S == 1 .. made
      <4>1. slots \in Seq(S) /\ made \in S
        BY <1>2
      <4> HIDE DEF S
      <4>2. /\ s \in Seq(S) /\ slots[i] \in S /\ slots[i] \in ToSet(slots)
            /\ ToSet(slots) \cup {made} \subseteq ToSet(s) \cup {slots[i]}
        BY <3>2, <4>1, ToSetExcept
      <4> QED BY <4>2 DEF S
    <3>3. /\ slots' \in Seq(1 .. made) /\ slots[i] \in 1 .. made /\ slots[i] \in ToSet(slots)
          /\ ToSet(slots) \cup {made} \subseteq ToSet(slots') \cup {slots[i]}
      BY <3>1, <3>5
    <3>4. ToSet(doomed') = {slots[i]} /\ doomed' \in Seq(1 .. made)
      BY <3>1, <3>3, ToSetShort
    <3> QED BY <1>2, <3>3, <3>4
  <2> QED BY <2>1, <2>2 DEF ServerPlaces
<1>4. FlowInv'
  BY <1>1, <1>2, <1>3 DEF NodeInv, FlowInv
<1>5. \A k \in Conns : Unstarted(k)' <=> Unstarted(k)
  BY <1>1 DEF Unstarted
<1>6. OutInv'
  BY <1>1, <1>2, <1>3, <1>5, ToSetShort DEF NodeInv, OutInv
<1>7. FreshInv' /\ StopInv'
  BY <1>1, <1>2, <1>5 DEF NodeInv, FreshInv, StopInv
<1> QED BY <1>1, <1>4, <1>6, <1>7, ConnsKept DEF NodeInv

LEMMA ServerStartsStep == ASSUME NodeInv, ServerStarts PROVE NodeInv'
<1> DEFINE k == made  d == Start(conn[k], New)
<1>1. /\ main = "start" /\ doomed = <<>> /\ Set(k, d) /\ mutex' = "free" /\ main' = "again"
      /\ UNCHANGED <<user, server, dispatch, nextRev, slots, doomed, step, made, unsup>>
  BY DEF ServerStarts, MainGoes, table
<1>2. /\ made \in 0 .. MaxConns /\ made # 0 /\ server \in BOOLEAN /\ made \in ToSet(slots)
      /\ user \notin {"off", "close"} /\ nextRev \in {Old, New}
  BY <1>1 DEF NodeInv, FlowInv, CountInv
<1>3. k \in Conns /\ Unstarted(k)
  BY <1>1, <1>2, DispatcherAssumption DEF Conns, Unstarted
<1>4. Fresh(conn[k]) /\ conn[k] \in ConnRecord /\ ToldByState(conn[k])
  BY <1>3 DEF NodeInv, FreshInv, ConnInv
<1>5. /\ d \in ConnRecord /\ ToldByState(d) /\ ActiveReads(d)
      /\ d.rev = New /\ d.reader = "start"
  BY <1>2, <1>4, StartDoes
<1> HIDE DEF d
<1>6. /\ conn' \in [Conns -> ConnRecord]
      /\ conn'[k] = d /\ \A j \in Conns \ {k} : conn'[j] = conn[j]
  BY <1>1, <1>3, <1>5 DEF Set, NodeInv, ConnInv
<1>7. CountInv'
  BY <1>1, <1>2, <1>3, <1>4, <1>5, StartCounts DEF Old, New
<1>8. ConnInv'
  BY <1>5, <1>6 DEF NodeInv, ConnInv
<1>9. FreshInv'
  BY <1>1, <1>2, <1>6 DEF NodeInv, FreshInv, Unstarted, Conns
<1>10. OutInv'
  BY <1>1, <1>2, <1>6 DEF NodeInv, OutInv, Unstarted, Conns
<1>11. StopInv'
  BY <1>1 DEF StopInv
<1>12. FlowInv'
  BY <1>1, <1>2 DEF NodeInv, FlowInv
<1> QED BY <1>7, <1>8, <1>9, <1>10, <1>11, <1>12 DEF NodeInv
-----------------------------------------------------------------------------
(***************************************************************************)
(* Steps of the program.                                                   *)
(***************************************************************************)
LEMMA StartNodeStep ==
  ASSUME NodeInv, NEW isServer \in BOOLEAN, StartNode(isServer)
  PROVE  NodeInv'
<1>1. /\ user = "off" /\ user' = "on" /\ server' = isServer /\ main' = "loop" /\ dispatch' = "run"
      /\ UNCHANGED <<mutex, nextRev, slots, doomed, step, made, conn, unsup>>
  BY DEF StartNode, table
<1>2. main = "gone" /\ doomed = <<>>
  BY <1>1 DEF NodeInv, FlowInv
<1>3. FlowInv'
  BY <1>1, <1>2 DEF NodeInv, FlowInv
<1> QED BY <1>1, <1>2, <1>3, ListsKept

LEMMA UserStep ==
  ASSUME NodeInv, Stop \/ StopConnectors \/ StopReconnect \/ Stopped
  PROVE  NodeInv'
<1>1. /\ UNCHANGED <<server, mutex, main, dispatch, slots, doomed, step, made, conn, unsup>>
      /\ nextRev' \in {nextRev, New}
      /\ \/ user' \notin {"off", "close"} /\ user # "close"
         \/ user = "close" /\ user' = "off" /\ doomed = <<>>
  BY DEF Stop, StopConnectors, StopReconnect, Stopped, UserGoes, table
<1>2. FlowInv'
  BY <1>1 DEF NodeInv, FlowInv
<1> QED BY <1>1, <1>2, ListsKept

LEMMA StopJoinsStep == ASSUME NodeInv, StopJoins PROVE NodeInv'
<1>1. /\ user = "join" /\ main = "gone" /\ dispatch = "gone" /\ user' = "close"
      /\ doomed' = slots /\ slots' = <<>>
      /\ UNCHANGED <<server, mutex, main, dispatch, nextRev, step, made, conn, unsup>>
  BY DEF StopJoins, UserGoes
<1>2. doomed = <<>> /\ step = "begin" /\ ToSet(<<>>) = {}
  BY <1>1, ToSetShort DEF NodeInv, FlowInv
<1>3. FlowInv'
  BY <1>1, <1>2 DEF NodeInv, FlowInv
<1>4. FreshInv' /\ OutInv' /\ StopInv'
  BY <1>1, <1>2 DEF NodeInv, FreshInv, OutInv, StopInv, Unstarted
<1> QED BY <1>1, <1>3, <1>4, ConnsKept DEF NodeInv
-----------------------------------------------------------------------------
LEMMA NodeInvStep == NodeInv /\ [Next]_vars => NodeInv'
<1> SUFFICES ASSUME NodeInv, [Next]_vars PROVE NodeInv'
  OBVIOUS
<1>1. CASE \E k \in Conns : Writer(k) \/ Reader(k) \/ Breaks(k)
  BY <1>1, WriterStep, ReaderStep, BreaksStep
<1>2. CASE Dispatching
  BY <1>2, DispatchPassStep, DispatchEndsStep DEF Dispatching
<1>3. CASE MainThread
  BY <1>3, ClientThreadStep, ClientDropsStep, ClientStartsStep, ServerThreadStep,
     ServerAcceptsStep, ServerPlacesStep, ServerStartsStep DEF MainThread
<1>4. CASE Destroying
  BY <1>4, StopBeginsStep, StopWriterStep, StopReaderStep DEF Destroying
<1>5. CASE \E isServer \in BOOLEAN : StartNode(isServer)
  BY <1>5, StartNodeStep
<1>6. CASE Stop \/ Stopping
  BY <1>6, UserStep, StopJoinsStep DEF Stopping
<1>7. CASE UNCHANGED vars
  <2>1. UNCHANGED <<user, server, mutex, main, dispatch, nextRev, slots, doomed, step, made,
                    conn, unsup>>
    BY <1>7 DEF vars, threads, table
  <2>2. FlowInv'
    BY <2>1, FlowKept
  <2> QED BY <2>1, <2>2, ListsKept
<1> QED BY <1>1, <1>2, <1>3, <1>4, <1>5, <1>6, <1>7 DEF Next

-----------------------------------------------------------------------------
(***************************************************************************)
(* Types.                                                                  *)
(***************************************************************************)

\* What NodeInv leaves open of the types: the program's and the threads' places, and
\* their flags.
NodeTypes ==
  /\ user \in {"off", "on", "connectors", "reconnect", "join", "close"}
  /\ starts \in 0 .. MaxStarts
  /\ active \in BOOLEAN /\ connectors \in BOOLEAN /\ accepting \in BOOLEAN
  /\ doReconnect \in BOOLEAN
  /\ main \in {"gone", "loop", "sleep", "connect", "replace", "wait",
               "accept", "place", "start", "again"}
  /\ dispatch \in {"run", "gone"}

LEMMA NodeTypesInit == Init => NodeTypes
<1> SUFFICES ASSUME Init PROVE NodeTypes
  OBVIOUS
<1>1. active \in BOOLEAN /\ connectors \in BOOLEAN /\ accepting \in BOOLEAN /\ doReconnect \in BOOLEAN
  BY Zenon DEF Init
<1>2. starts \in 0 .. MaxStarts
  BY DispatcherAssumption DEF Init
<1> QED BY <1>1, <1>2 DEF Init, NodeTypes

LEMMA NodeTypesStep == NodeInv /\ NodeTypes /\ [Next]_vars => NodeTypes'
<1> SUFFICES ASSUME NodeInv, NodeTypes, [Next]_vars PROVE NodeTypes'
  OBVIOUS
<1> USE DEF NodeTypes
<1>0. ASSUME UNCHANGED threads PROVE NodeTypes'
  BY <1>0 DEF threads
<1>1. CASE \E k \in Conns : Writer(k) \/ Reader(k) \/ Breaks(k)
  <2>1. PICK k \in Conns : Writer(k) \/ Reader(k) \/ Breaks(k)
    BY <1>1
  <2>2. CASE FallsBack(k)
    <3>1. doReconnect' \in BOOLEAN
      BY <2>2, Zenon DEF FallsBack
    <3>2. UNCHANGED <<user, starts, active, connectors, accepting, main, dispatch>>
      BY <2>2 DEF FallsBack
    <3> QED BY <3>1, <3>2
  <2>3. CASE ~FallsBack(k)
    <3>1. UNCHANGED threads
      BY <2>1, <2>3 DEF Writer, WriterStarts, WriterPops, WriterExits, Reader, ClientHello,
         ServerGetsHello, ServerSendsInitial, Answered, Refused, HandshakeDone, Reads, Processes,
         Breaks, Only
    <3> QED BY <1>0, <3>1
  <2> QED BY <2>2, <2>3
<1>2. CASE Dispatching
  <2>1. CASE DispatchPass
    <3>1. doReconnect' \in BOOLEAN
      BY <2>1, Zenon DEF DispatchPass
    <3>2. UNCHANGED <<user, starts, active, connectors, accepting, main, dispatch>>
      BY <2>1 DEF DispatchPass
    <3> QED BY <3>1, <3>2
  <2>2. CASE DispatchEnds
    BY <2>2 DEF DispatchEnds
  <2> QED BY <1>2, <2>1, <2>2 DEF Dispatching
<1>3. CASE MainThread
  <2>1. CASE ClientLoop \/ ClientPicks \/ ClientConnects \/ ClientWakes
    BY <2>1 DEF ClientLoop, ClientPicks, ClientConnects, ClientWakes, MainGoes
  <2>2. CASE ClientDrops
    BY <1>0, <2>2 DEF ClientDrops
  <2>3. CASE ClientStarts
    <3>1. doReconnect' \in BOOLEAN
      BY <2>3, Zenon DEF ClientStarts
    <3>2. main' = "wait" /\ UNCHANGED <<user, starts, active, connectors, accepting, dispatch>>
      BY <2>3 DEF ClientStarts
    <3> QED BY <3>1, <3>2
  <2>4. CASE ServerListens \/ ServerLoop \/ ServerAccepts
    <3>1. active' \in BOOLEAN
      <4>1. UNCHANGED active \/ active' = FALSE
        BY <2>4 DEF ServerListens, ServerLoop, ServerAccepts
      <4> QED BY <4>1, Zenon
    <3>2. /\ main' \in {"accept", "gone", "place"}
          /\ UNCHANGED <<user, starts, connectors, accepting, doReconnect, dispatch>>
      BY <2>4 DEF ServerListens, ServerLoop, ServerAccepts, MainGoes
    <3> QED BY <3>1, <3>2
  <2>5. CASE ServerPlaces
    BY <2>5 DEF ServerPlaces
  <2>6. CASE ServerStarts
    BY <2>6 DEF ServerStarts, MainGoes
  <2> QED BY <1>3, <2>1, <2>2, <2>3, <2>4, <2>5, <2>6 DEF MainThread
<1>4. CASE Destroying
  BY <1>0, <1>4 DEF Destroying, StopBegins, StopWriter, StopReader
<1>5. CASE \E isServer \in BOOLEAN : StartNode(isServer)
  <2>1. PICK isServer \in BOOLEAN : StartNode(isServer)
    BY <1>5
  <2>2. active' \in BOOLEAN /\ connectors' \in BOOLEAN /\ accepting' \in BOOLEAN
    BY <2>1, Zenon DEF StartNode
  <2>3. starts' \in 0 .. MaxStarts
    BY <2>1, DispatcherAssumption DEF StartNode
  <2>4. user' = "on" /\ main' = "loop" /\ dispatch' = "run" /\ UNCHANGED doReconnect
    BY <2>1 DEF StartNode
  <2> QED BY <2>2, <2>3, <2>4
<1>6. CASE Stop \/ StopConnectors \/ StopJoins \/ Stopped
  <2>1. active' \in BOOLEAN /\ connectors' \in BOOLEAN
    <3>1. (UNCHANGED active \/ active' = FALSE) /\ (UNCHANGED connectors \/ connectors' = FALSE)
      BY <1>6 DEF Stop, StopConnectors, StopJoins, Stopped
    <3> QED BY <3>1, Zenon
  <2>2. /\ user' \in {"connectors", "reconnect", "close", "off"}
        /\ UNCHANGED <<starts, accepting, doReconnect, main, dispatch>>
    BY <1>6 DEF Stop, StopConnectors, StopJoins, Stopped, UserGoes
  <2> QED BY <2>1, <2>2
<1>7. CASE StopReconnect
  <2>1. doReconnect' \in BOOLEAN /\ accepting' \in BOOLEAN
    BY <1>7, Zenon DEF StopReconnect
  <2>2. user' = "join" /\ UNCHANGED <<starts, active, connectors, main, dispatch>>
    BY <1>7 DEF StopReconnect
  <2> QED BY <2>1, <2>2
<1>8. CASE UNCHANGED vars
  BY <1>0, <1>8 DEF vars
<1> QED BY <1>1, <1>2, <1>3, <1>4, <1>5, <1>6, <1>7, <1>8 DEF Next, Stopping

LEMMA TypesSound == NodeInv /\ NodeTypes => TypeOK
<1> SUFFICES ASSUME NodeInv, NodeTypes PROVE TypeOK
  OBVIOUS
<1>1. unsup \in 0 .. MaxConns
  <2>1. Spents \in SUBSET Conns /\ IsFiniteSet(Conns) /\ Cardinality(Conns) = MaxConns
    BY ConnsFinite, DispatcherAssumption, FS_Interval DEF Spents, Conns
  <2>2. Cardinality(Spents) \in Nat /\ Cardinality(Spents) <= MaxConns
    BY <2>1, ConnsFinite, FS_Subset
  <2> QED BY <2>2, DispatcherAssumption DEF NodeInv, CountInv
<1>2. \A k \in Conns :
        /\ conn[k].state \in States /\ conn[k].q \in 0 .. MaxQueue
        /\ conn[k].rev \in {Old, New} /\ conn[k].detached \subseteq {"reader", "writer"}
  BY DEF NodeInv, ConnInv, ConnRecord
<1>3. {active, server, connectors, accepting, doReconnect} \subseteq BOOLEAN
  <2>1. server \in BOOLEAN
    BY DEF NodeInv, FlowInv
  <2> QED BY <2>1, Zenon DEF NodeTypes
<1>4. /\ made \in 0 .. MaxConns /\ slots \in Seq(1 .. made) /\ doomed \in Seq(1 .. made)
      /\ step \in {"begin", "writer", "reader"} /\ nextRev \in {Old, New}
      /\ mutex = (IF main \in {"replace", "place", "start"} THEN "main" ELSE "free")
  BY DEF NodeInv, FlowInv, CountInv
<1> QED BY <1>1, <1>2, <1>3, <1>4, Zenon DEF TypeOK, NodeTypes

\* Every variable of the node keeps its type, for any number of connections, starts and
\* queued messages (Dispatcher.h, NetworkConnection.h): the queue of a connection never
\* counts below zero although it is emptied by a destructor while its writer pops, the
\* mutex is held just where the code blocks with it, and a connection is refused once.
THEOREM NodeTypeCorrect == Spec => []TypeOK
<1> QED BY NodeInvInit, NodeInvStep, NodeTypesInit, NodeTypesStep, TypesSound, PTL DEF Spec

\* Whatever the order in which a connection's two threads and its destructor end
\* it (NetworkConnection.cpp, Dispatcher.cpp), in any number of connections and
\* starts of the node: its listeners are told that it is up at most once and
\* then that it is down at most once; a connection that left the list is closed
\* for good; the old protocol revision is used once for each refusal; and after
\* Stop() the only threads left are those it gave up waiting for.
THEOREM ConnectionsAreSound == Spec => []ConnectionsSound
<1> QED BY NodeInvInit, NodeInvStep, NodeInvSound, PTL DEF Spec
=============================================================================
