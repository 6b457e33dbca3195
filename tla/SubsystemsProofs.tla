--------------------------- MODULE SubsystemsProofs ---------------------------
(***************************************************************************)
(* That the parts of the robot's program which run by themselves keep what *)
(* is said of them, for any number of buttons, packets, threads and lines, *)
(* any sleep time, ramp and set points.                                    *)
(*                                                                         *)
(* No part writes what another reads, so each has an invariant of its own. *)
(* The buttons' types need that a thread at work stands at an input, and   *)
(* the reader of programs that the rows stored are the lines passed.       *)
(***************************************************************************)
EXTENDS MCSubsystems, Shooter, FiniteSetTheorems, SequenceTheorems, TLAPS

\* The loop of a thread: a pass that has ended has a time.
ThreadInv == ThreadTypeOK /\ ThreadSound

LEMMA ThreadStarts == ThreadInit => ThreadInv
<1> SUFFICES ASSUME ThreadInit PROVE ThreadInv
  OBVIOUS
<1>1. failed \in BOOLEAN /\ logged \in BOOLEAN /\ isTest \in BOOLEAN
  BY Zenon DEF ThreadInit
<1> QED BY <1>1, SleepAssumption DEF ThreadInit, ThreadInv, ThreadTypeOK, ThreadSound

LEMMA CappedTimeBounds ==
  ASSUME sysTime \in Int
  PROVE  CappedTime \in Nat /\ CappedTime * 2 <= SleepTime
BY SleepAssumption DEF CappedTime

LEMMA ThreadSteps == ThreadInv /\ [ThreadNext]_threadVars => ThreadInv'
<1> SUFFICES ASSUME ThreadInv, [ThreadNext]_threadVars PROVE ThreadInv'
  OBVIOUS
<1>1. SleepTime \in Nat /\ \A x \in Lapses : x \in Int
  BY SleepAssumption
<1>2. CASE BeginSubsystemPass
  BY <1>1, <1>2 DEF BeginSubsystemPass, LogOr, ThreadInv, ThreadTypeOK, ThreadSound
<1>3. CASE StartSubsystem \/ UpdateInputs \/ ExecuteSubsystem \/ WriteStatus
  <2>1. failed' \in BOOLEAN
    BY <1>3, Zenon DEF StartSubsystem, UpdateInputs, ExecuteSubsystem, WriteStatus, OrThrows,
                       ThreadInv, ThreadTypeOK
  <2>2. CASE StartSubsystem
    BY <1>1, <2>1, <2>2 DEF StartSubsystem, OrThrows, ThreadInv, ThreadTypeOK, ThreadSound
  <2>3. CASE UpdateInputs
    BY <1>1, <2>1, <2>3 DEF UpdateInputs, OrThrows, ThreadInv, ThreadTypeOK, ThreadSound
  <2>4. CASE ExecuteSubsystem
    BY <1>1, <2>1, <2>4 DEF ExecuteSubsystem, ThreadInv, ThreadTypeOK, ThreadSound
  <2>5. CASE WriteStatus
    BY <1>1, <2>1, <2>5 DEF WriteStatus, OrThrows, ThreadInv, ThreadTypeOK, ThreadSound
  <2> QED BY <1>3, <2>2, <2>3, <2>4, <2>5
<1>4. CASE FinishSubsystemPass
  <2>1. PICK c : c = CappedTime
    OBVIOUS
  <2>2. c \in Nat /\ c * 2 <= SleepTime /\ sleeps' = SleepTime - c
    BY <1>4, <2>1, CappedTimeBounds DEF FinishSubsystemPass, ThreadInv, ThreadTypeOK
  <2>3. sleeps' \in Int /\ 2 * sleeps' >= SleepTime /\ sleeps' <= SleepTime
    BY <1>1, <2>2
  <2> QED BY <1>4, <2>3 DEF FinishSubsystemPass, LogOr, ThreadInv, ThreadTypeOK, ThreadSound
<1>5. CASE SleepOver
  BY <1>1, <1>5 DEF SleepOver, ThreadInv, ThreadTypeOK, ThreadSound
<1>6. CASE ThreadMode
  <2>1. isTest' \in BOOLEAN
    BY <1>6, Zenon DEF ThreadMode
  <2> QED BY <1>6, <2>1 DEF ThreadMode, ThreadInv, ThreadTypeOK, ThreadSound
<1>7. CASE UNCHANGED threadVars
  BY <1>7 DEF threadVars, ThreadInv, ThreadTypeOK, ThreadSound
<1> QED BY <1>2, <1>3, <1>4, <1>5, <1>6, <1>7 DEF ThreadNext

(***************************************************************************)
(* The ball acquisition.                                                   *)
(***************************************************************************)

LEMMA WritesKnown ==
  /\ \A w \in Writes : /\ w.selector = 1 => w.to \in State
                       /\ w.selector = 2 => w.to \in BeltState
                       /\ w.selector = 3 => w.to \in HorizontalBeltState
  /\ \A s \in State : Acq(s) \in Writes
  /\ \A s \in BeltState : Belt(s) \in Writes
  /\ \A s \in HorizontalBeltState : Horiz(s) \in Writes
  /\ Asks \subseteq Writes
<1>1. \A w \in Writes : \/ \E s \in State : w = Acq(s)
                        \/ \E s \in BeltState : w = Belt(s)
                        \/ \E s \in HorizontalBeltState : w = Horiz(s)
  BY DEF Writes
<1>2. \A w \in Writes : /\ w.selector = 1 => w.to \in State
                        /\ w.selector = 2 => w.to \in BeltState
                        /\ w.selector = 3 => w.to \in HorizontalBeltState
  BY <1>1 DEF Acq, Belt, Horiz
<1>3. Asks \subseteq Writes
  BY AsksAssumption DEF Selections
<1> QED BY <1>2, <1>3 DEF Writes

LEMMA PerformKeeps ==
  ASSUME TypeOK, NEW w \in Writes, Perform(w)
  PROVE  /\ currentAcqStatus' \in State /\ currentBeltState' \in BeltState
         /\ currentHorizontalBeltState' \in HorizontalBeltState
BY WritesKnown DEF Perform, TypeOK

LEMMA ShortLists ==
  /\ <<>> \in Seq(Writes) /\ Len(<<>>) <= 3
  /\ \A a \in Writes : <<a>> \in Seq(Writes) /\ Len(<<a>>) <= 3
  /\ \A a, b \in Writes : <<a, b>> \in Seq(Writes) /\ Len(<<a, b>>) <= 3
  /\ \A a, b, c \in Writes : <<a, b, c>> \in Seq(Writes) /\ Len(<<a, b, c>>) <= 3
<1>1. <<>> \in Seq(Writes) /\ Len(<<>>) <= 3
  OBVIOUS
<1>2. ASSUME NEW a \in Writes PROVE <<a>> \in Seq(Writes) /\ Len(<<a>>) <= 3
  OBVIOUS
<1>3. ASSUME NEW a \in Writes, NEW b \in Writes PROVE <<a, b>> \in Seq(Writes) /\ Len(<<a, b>>) <= 3
  OBVIOUS
<1>4. ASSUME NEW a \in Writes, NEW b \in Writes, NEW c \in Writes
      PROVE  <<a, b, c>> \in Seq(Writes) /\ Len(<<a, b, c>>) <= 3
  OBVIOUS
<1> QED BY <1>1, <1>2, <1>3, <1>4

LEMMA BallAcqStarts == Init => TypeOK
<1> SUFFICES ASSUME Init PROVE TypeOK
  OBVIOUS
<1>1. 0 \in -(FullSpeed + 1) .. FullSpeed + 1 /\ 0 \in -1 .. 1
  BY FullSpeedAssumption
<1>2. todo \in Seq(Writes) /\ Len(todo) <= 3
  BY ShortLists DEF Init
<1>3. asked \in Seq(Asks) /\ Len(asked) <= 1
  BY DEF Init
<1>4. beltTimeOver \in BOOLEAN /\ enabled \in BOOLEAN
  BY Zenon DEF Init
<1> QED BY <1>1, <1>2, <1>3, <1>4 DEF Init, TypeOK, State, BeltState, HorizontalBeltState

LEMMA BallAcqSteps == TypeOK /\ [Next]_vars => TypeOK'
<1> SUFFICES ASSUME TypeOK, [Next]_vars PROVE TypeOK'
  OBVIOUS
<1>1. CASE SetAcqState
  <2>1. PICK a \in Writes, b \in Writes, c \in Writes : AllOff = <<a, b, c>>
    BY WritesKnown DEF AllOff, State, BeltState, HorizontalBeltState
  <2>2. PICK d \in Writes, e \in Writes, f \in Writes : FeedRight = <<d, e, f>>
    BY WritesKnown DEF FeedRight, State, BeltState, HorizontalBeltState
  <2>3. PICK g \in Writes, h \in Writes, i \in Writes : FeedLeft = <<g, h, i>>
    BY WritesKnown DEF FeedLeft, State, BeltState, HorizontalBeltState
  <2>4. PICK j \in Writes, k \in Writes : AcqOn = <<j, k>>
    BY WritesKnown DEF AcqOn, State, BeltState
  <2>5. \A q \in {AllOff, FeedRight, FeedLeft, AcqOn, <<>>} : q \in Seq(Writes) /\ Len(q) <= 3
    <3>1. AllOff \in Seq(Writes) /\ Len(AllOff) <= 3
      BY <2>1, ShortLists
    <3>2. FeedRight \in Seq(Writes) /\ Len(FeedRight) <= 3
      BY <2>2, ShortLists
    <3>3. FeedLeft \in Seq(Writes) /\ Len(FeedLeft) <= 3
      BY <2>3, ShortLists
    <3>4. AcqOn \in Seq(Writes) /\ Len(AcqOn) <= 3
      BY <2>4, ShortLists
    <3> QED BY <3>1, <3>2, <3>3, <3>4, ShortLists
  <2>6. todo' \in {AllOff, FeedRight, FeedLeft, AcqOn, <<>>}
    BY <1>1 DEF SetAcqState
  <2>7. todo' \in Seq(Writes) /\ Len(todo') <= 3
    BY <2>5, <2>6
  <2> QED BY <1>1, <2>7 DEF SetAcqState, TypeOK, states, motors
<1>2. CASE WriteNext
  <2>1. PICK w \in Writes : w = Head(todo)
    BY <1>2 DEF WriteNext, TypeOK
  <2>2. Perform(w)
    BY <1>2, <2>1 DEF WriteNext
  <2>3. todo' \in Seq(Writes) /\ Len(todo') <= 3
    BY <1>2 DEF WriteNext, TypeOK
  <2> QED BY <1>2, <2>2, <2>3, PerformKeeps DEF WriteNext, TypeOK, motors
<1>3. CASE ActOnStatus
  <2>1. wantedSpeed' \in -1 .. 1
    BY <1>3 DEF ActOnStatus, TypeOK, State
  <2> QED BY <1>3, <2>1 DEF ActOnStatus, TypeOK, states
<1>4. CASE ActOnBelt
  <2>1. wantedSpeed' \in -1 .. 1
    BY <1>4 DEF ActOnBelt, BeltSpeed
  <2>2. \E s \in BeltState : NextBeltState \in {<<>>, <<Belt(s)>>}
    BY DEF NextBeltState, BeltState
  <2>3. PICK s \in BeltState : todo' = <<>> \/ todo' = <<Belt(s)>>
    BY <1>4, <2>2 DEF ActOnBelt
  <2>4. PICK w \in Writes : w = Belt(s)
    BY WritesKnown
  <2>5. todo' \in Seq(Writes) /\ Len(todo') <= 3
    BY <2>3, <2>4, ShortLists
  <2>6. beltTimeOver' \in BOOLEAN
    BY <1>4, Zenon DEF ActOnBelt
  <2> QED BY <1>4, <2>1, <2>5, <2>6 DEF ActOnBelt, TypeOK, states
<1>5. CASE ActOnHorizontalBelt
  <2>1. \A x \in -(FullSpeed + 1) .. FullSpeed + 1 :
          Ramp(x) \subseteq -(FullSpeed + 1) .. FullSpeed + 1
    BY FullSpeedAssumption DEF Ramp
  <2>2. PICK x \in -(FullSpeed + 1) .. FullSpeed + 1 : x = wantedBeltSpeed
    BY DEF TypeOK
  <2>3. -x \in -(FullSpeed + 1) .. FullSpeed + 1
    BY FullSpeedAssumption
  <2>4. \A y \in Ramp(-x) : y \in -(FullSpeed + 1) .. FullSpeed + 1 /\ -y \in -(FullSpeed + 1) .. FullSpeed + 1
    BY <2>1, <2>3, FullSpeedAssumption
  <2>5. 0 \in -(FullSpeed + 1) .. FullSpeed + 1
    BY FullSpeedAssumption
  <2>6. wantedBeltSpeed' \in {0} \cup {-y : y \in Ramp(-x)} \cup Ramp(x)
    BY <1>5, <2>2 DEF ActOnHorizontalBelt
  <2>7. wantedBeltSpeed' \in -(FullSpeed + 1) .. FullSpeed + 1
    BY <2>1, <2>4, <2>5, <2>6
  <2> QED BY <1>5, <2>7 DEF ActOnHorizontalBelt, TypeOK, states
<1>6. CASE AutoChanger
  <2>1. asked' \in Seq(Asks) /\ Len(asked') <= 1
    BY <1>6 DEF AutoChanger
  <2> QED BY <1>6, <2>1 DEF AutoChanger, TypeOK, states, motors
<1>7. CASE Change
  <2>1. /\ currentAcqStatus' \in State /\ currentBeltState' \in BeltState
        /\ currentHorizontalBeltState' \in HorizontalBeltState
    <3>1. PICK w \in Writes : w = Head(asked)
      BY <1>7, WritesKnown DEF Change, TypeOK
    <3>2. CASE Perform(w)
      BY <3>2, PerformKeeps
    <3>3. CASE UNCHANGED states
      BY <3>3 DEF states, TypeOK
    <3> QED BY <1>7, <3>1, <3>2, <3>3 DEF Change
  <2>2. asked' \in Seq(Asks) /\ Len(asked') <= 1
    BY <1>7 DEF Change
  <2> QED BY <1>7, <2>1, <2>2 DEF Change, TypeOK, motors
<1>8. CASE DriverStation
  BY <1>8 DEF DriverStation, TypeOK, states, motors
<1>9. CASE Tick
  BY <1>9 DEF Tick, TypeOK, states, motors
<1>10. CASE UNCHANGED vars
  BY <1>10 DEF vars, states, motors, TypeOK
<1> QED BY <1>1, <1>2, <1>3, <1>4, <1>5, <1>6, <1>7, <1>8, <1>9, <1>10 DEF Next, BallAcqThread

(***************************************************************************)
(* The buttons.                                                            *)
(***************************************************************************)

\* A thread that works on an input stands at one, and one that is told of a press
\* stands at an input it asks for.
CursorsOK ==
  \A t \in Threads :
    /\ at[t] \in {"compare", "record", "remember"} => cursor[t] <= Inputs
    /\ at[t] = "take" => cursor[t] <= Len(Watches[t])

ControlsInv == ControlsTypeOK /\ CursorsOK

\* What is asked for is an input.
LEMMA WatchesKnown ==
  /\ Inputs \in Nat /\ Inputs > 0 /\ MaxPackets \in Nat
  /\ \A t \in Threads :
       /\ Len(Watches[t]) \in Nat /\ Len(Watches[t]) <= Inputs
       /\ \A i \in 1 .. Len(Watches[t]) : Watches[t][i] \in 1 .. Inputs
<1>1. Inputs \in Nat /\ Inputs > 0 /\ MaxPackets \in Nat
  BY InputsAssumption
<1>2. ASSUME NEW t \in Threads
      PROVE  /\ Len(Watches[t]) \in Nat /\ Len(Watches[t]) <= Inputs
             /\ \A i \in 1 .. Len(Watches[t]) : Watches[t][i] \in 1 .. Inputs
  <2>1. PICK w \in Seq(1 .. Inputs) : w = Watches[t]
    BY WatchesAssumption
  <2>2. Len(w) \in Nat /\ \A i \in 1 .. Len(w) : w[i] \in 1 .. Inputs
    <3>1. PICK S : S = 1 .. Inputs
      OBVIOUS
    <3>2. w \in Seq(S)
      BY <3>1
    <3>3. Len(w) \in Nat /\ \A i \in 1 .. Len(w) : w[i] \in S
      BY <3>2
    <3> QED BY <3>1, <3>3
  <2>3. Len(w) <= Inputs
    BY <2>1, WatchesAssumption
  <2> QED BY <2>1, <2>2, <2>3
<1> QED BY <1>1, <1>2

LEMMA ControlsStart == ControlsInit => ControlsInv
<1> SUFFICES ASSUME ControlsInit PROVE ControlsInv
  OBVIOUS
<1>1. PICK f \in BOOLEAN, r \in BOOLEAN : f = FALSE /\ r = TRUE
  OBVIOUS
<1>2. 0 \in Times /\ 1 \in 1 .. Inputs + 1
  BY WatchesKnown DEF Times
<1>3. /\ held = [i \in 1 .. Inputs |-> f] /\ due = [i \in 1 .. Inputs |-> f]
      /\ bValue = [t \in Threads |-> f] /\ announced = r /\ newData = f /\ lastValues = held
  BY <1>1 DEF ControlsInit
<1>4. /\ held \in [1 .. Inputs -> BOOLEAN] /\ lastValues \in [1 .. Inputs -> BOOLEAN]
      /\ due \in [1 .. Inputs -> BOOLEAN] /\ bValue \in [Threads -> BOOLEAN]
      /\ announced \in BOOLEAN /\ newData \in BOOLEAN
  BY <1>3
<1>5. /\ packets \in Times /\ now \in 0 .. packets
      /\ risingTime \in [1 .. Inputs -> Times] /\ seenTime \in [1 .. Inputs -> Times]
      /\ stamp \in [Threads -> Times] /\ cursor \in [Threads -> 1 .. Inputs + 1]
  BY <1>2 DEF ControlsInit
<1>6. at = [t \in Threads |-> "loop"]
  BY DEF ControlsInit
<1> QED BY <1>4, <1>5, <1>6 DEF ControlsInv, ControlsTypeOK, CursorsOK

Places == {"loop", "read", "compare", "record", "remember", "ask", "take"}

\* A thread comes to stand somewhere.
ComesTo(t, p, c, b, s) ==
  /\ at' = [at EXCEPT ![t] = p] /\ cursor' = [cursor EXCEPT ![t] = c]
  /\ bValue' = [bValue EXCEPT ![t] = b] /\ stamp' = [stamp EXCEPT ![t] = s]

\* What the threads share has its type, and they leave the driver station alone.
SharedTyped ==
  /\ newData' \in BOOLEAN
  /\ lastValues' \in [1 .. Inputs -> BOOLEAN] /\ due' \in [1 .. Inputs -> BOOLEAN]
  /\ risingTime' \in [1 .. Inputs -> Times] /\ seenTime' \in [1 .. Inputs -> Times]
StationRests == UNCHANGED <<held, announced, packets, now>>

\* One thread moves, and what it writes has its type.
LEMMA ThreadMoves ==
  ASSUME ControlsInv, NEW t \in Threads, NEW p \in Places, NEW c \in 1 .. Inputs + 1,
         NEW b \in BOOLEAN, NEW s \in Times,
         ComesTo(t, p, c, b, s), SharedTyped, StationRests,
         p \in {"compare", "record", "remember"} => c <= Inputs,
         p = "take" => c <= Len(Watches[t])
  PROVE  ControlsInv'
<1>1. CursorsOK'
  <2> SUFFICES ASSUME NEW u \in Threads
               PROVE  /\ at'[u] \in {"compare", "record", "remember"} => cursor'[u] <= Inputs
                      /\ at'[u] = "take" => cursor'[u] <= Len(Watches[u])
    BY DEF CursorsOK
  <2>1. CASE u = t
    BY <2>1 DEF ControlsInv, ControlsTypeOK, ComesTo
  <2>2. CASE u # t
    BY <2>2 DEF ControlsInv, ControlsTypeOK, CursorsOK, ComesTo
  <2> QED BY <2>1, <2>2
<1>2. /\ at' \in [Threads -> Places]
      /\ cursor' \in [Threads -> 1 .. Inputs + 1]
  BY DEF ControlsInv, ControlsTypeOK, ComesTo, Places
<1>3. bValue' \in [Threads -> BOOLEAN]
  BY DEF ControlsInv, ControlsTypeOK, ComesTo
<1>4. stamp' \in [Threads -> Times]
  BY DEF ControlsInv, ControlsTypeOK, ComesTo
<1>5. /\ held' \in [1 .. Inputs -> BOOLEAN] /\ announced' \in BOOLEAN
      /\ packets' \in Times /\ now' \in 0 .. packets'
  BY Zenon DEF ControlsInv, ControlsTypeOK, StationRests
<1> QED BY <1>1, <1>2, <1>3, <1>4, <1>5 DEF ControlsInv, ControlsTypeOK, SharedTyped, Places

\* Where a thread stands, and what it holds.
LEMMA ThreadHolds ==
  ASSUME ControlsInv, NEW t \in Threads
  PROVE  /\ at[t] \in Places /\ cursor[t] \in 1 .. Inputs + 1 /\ bValue[t] \in BOOLEAN
         /\ stamp[t] \in Times
         /\ newData \in BOOLEAN
         /\ lastValues \in [1 .. Inputs -> BOOLEAN] /\ due \in [1 .. Inputs -> BOOLEAN]
         /\ risingTime \in [1 .. Inputs -> Times] /\ seenTime \in [1 .. Inputs -> Times]
         /\ at[t] \in {"compare", "record", "remember"} => cursor[t] \in 1 .. Inputs
         /\ at[t] = "take" => cursor[t] \in 1 .. Len(Watches[t])
         /\ 0 \in Times /\ 1 \in 1 .. Inputs + 1 /\ now \in Times
<1>1. at[t] \in Places /\ cursor[t] \in 1 .. Inputs + 1 /\ stamp[t] \in Times
  BY DEF ControlsInv, ControlsTypeOK, Places
<1>2. bValue[t] \in BOOLEAN
  BY Zenon DEF ControlsInv, ControlsTypeOK
<1>4. /\ newData \in BOOLEAN
      /\ lastValues \in [1 .. Inputs -> BOOLEAN] /\ due \in [1 .. Inputs -> BOOLEAN]
      /\ risingTime \in [1 .. Inputs -> Times] /\ seenTime \in [1 .. Inputs -> Times]
      /\ packets \in Times /\ now \in 0 .. packets
  BY Zenon DEF ControlsInv, ControlsTypeOK
<1>5. /\ at[t] \in {"compare", "record", "remember"} => cursor[t] \in 1 .. Inputs
      /\ at[t] = "take" => cursor[t] \in 1 .. Len(Watches[t])
  BY <1>1, WatchesKnown DEF ControlsInv, CursorsOK
<1>6. 0 \in Times /\ 1 \in 1 .. Inputs + 1 /\ now \in Times
  BY <1>4, WatchesKnown DEF Times
<1> QED BY <1>1, <1>2, <1>4, <1>5, <1>6

\* A thread that keeps its place, its local value or its time comes to what it had.
LEMMA ThreadStays ==
  ASSUME ControlsInv, NEW t \in Threads
  PROVE  /\ at = [at EXCEPT ![t] = at[t]] /\ cursor = [cursor EXCEPT ![t] = cursor[t]]
         /\ bValue = [bValue EXCEPT ![t] = bValue[t]] /\ stamp = [stamp EXCEPT ![t] = stamp[t]]
BY DEF ControlsInv, ControlsTypeOK

LEMMA ControlsSteps == ControlsInv /\ [ControlsNext]_controlsVars => ControlsInv'
<1> SUFFICES ASSUME ControlsInv, [ControlsNext]_controlsVars PROVE ControlsInv'
  OBVIOUS
<1>1. CASE Packet
  <2>1. packets' \in Times /\ now' \in 0 .. packets'
    BY <1>1, WatchesKnown DEF Packet, ControlsInv, ControlsTypeOK, Times
  <2>2. held' \in [1 .. Inputs -> BOOLEAN]
    BY <1>1 DEF Packet, ControlsInv, ControlsTypeOK
  <2>3. due' \in [1 .. Inputs -> BOOLEAN]
    <3>1. \A i \in 1 .. Inputs :
            (CASE held[i] = held'[i] -> due[i]
               [] held'[i]           -> due[i] \/ (~lastValues[i] /\ ~OldPressUnderWay(i)
                                                  /\ now' > seenTime[i])
               [] OTHER              -> due[i] /\ risingTime[i] > seenTime[i]) \in BOOLEAN
      BY DEF ControlsInv, ControlsTypeOK
    <3> QED BY <1>1, <3>1 DEF Packet
  <2>4. announced' \in BOOLEAN
    BY <1>1, Zenon DEF Packet
  <2>5. UNCHANGED <<lastValues, risingTime, seenTime, newData, at, cursor, bValue, stamp>>
    BY <1>1 DEF Packet
  <2> QED BY <2>1, <2>2, <2>3, <2>4, <2>5 DEF ControlsInv, ControlsTypeOK, CursorsOK
<1>2. CASE Announce
  <2>1. announced' \in BOOLEAN /\ newData' \in BOOLEAN
    BY <1>2, Zenon DEF Announce
  <2>2. UNCHANGED <<held, packets, now, lastValues, risingTime, seenTime, at, cursor, bValue,
                    stamp, due>>
    BY <1>2 DEF Announce
  <2> QED BY <2>1, <2>2 DEF ControlsInv, ControlsTypeOK, CursorsOK
<1>3. ASSUME NEW t \in Threads, ControlsThread(t) PROVE ControlsInv'
  <2>0. PICK c \in 1 .. Inputs + 1, b \in BOOLEAN, s \in Times :
          c = cursor[t] /\ b = bValue[t] /\ s = stamp[t]
    BY ThreadHolds
  <2>1. cursor = [cursor EXCEPT ![t] = c] /\ bValue = [bValue EXCEPT ![t] = b] /\ stamp = [stamp EXCEPT ![t] = s]
    BY <2>0, ThreadStays
  <2>2. PICK f \in BOOLEAN : f = FALSE
    OBVIOUS
  <2>3. StationRests
    BY <1>3 DEF ControlsThread, Update, ReadInput, Compare, Record, Remember, Ask, Take, StationRests
  <2>4. 0 \in Times /\ 1 \in 1 .. Inputs + 1
    BY ThreadHolds
  <2>5. CASE Update(t)
    <3>1. PICK p \in Places : p \in {"read", "ask"} /\ at' = [at EXCEPT ![t] = p]
      BY <2>5 DEF Update, GotoInput, Goto, Places
    <3>2. ComesTo(t, p, 1, b, s)
      BY <2>1, <2>5, <3>1 DEF ComesTo, Update, GotoInput
    <3>3. newData' \in BOOLEAN
      BY <2>5, Zenon DEF Update
    <3>4. SharedTyped
      BY <2>5, <3>3, ThreadHolds DEF SharedTyped, Update
    <3> QED BY <2>3, <2>4, <3>1, <3>2, <3>4, ThreadMoves
  <2>6. CASE ReadInput(t)
    <3>1. SharedTyped
      BY <2>6, ThreadHolds DEF SharedTyped, ReadInput
    <3>2. CASE c <= Inputs
      <4>1. PICK v \in BOOLEAN : v = held[c]
        BY <3>2 DEF ControlsInv, ControlsTypeOK
      <4>2. ComesTo(t, "compare", c, v, s)
        BY <2>0, <2>1, <2>6, <3>2, <4>1 DEF ComesTo, ReadInput, Goto
      <4> QED BY <2>3, <3>1, <3>2, <4>2, ThreadMoves DEF Places
    <3>3. CASE ~(c <= Inputs)
      <4>1. ComesTo(t, "ask", 1, b, s)
        BY <2>0, <2>1, <2>6, <3>3 DEF ComesTo, ReadInput, GotoInput, Goto
      <4> QED BY <2>3, <2>4, <3>1, <4>1, ThreadMoves DEF Places
    <3> QED BY <3>2, <3>3
  <2>7. CASE Compare(t)
    <3>1. SharedTyped
      BY <2>7, ThreadHolds DEF SharedTyped, Compare
    <3>2. c \in 1 .. Inputs
      BY <2>0, <2>7, ThreadHolds DEF Compare
    <3>3. CASE ~Changed(t)
      <4>1. PICK d \in 1 .. Inputs + 1 : d = c + 1
        BY <3>2, WatchesKnown
      <4>2. ComesTo(t, "read", d, f, s)
        BY <2>0, <2>1, <2>2, <2>7, <3>3, <4>1 DEF ComesTo, Compare, GotoInput, Goto, Forget
      <4> QED BY <2>3, <3>1, <4>2, ThreadMoves DEF Places
    <3>4. CASE Changed(t)
      <4>1. PICK p \in Places, n \in Times :
              /\ p \in {"record", "remember"}
              /\ at' = [at EXCEPT ![t] = p] /\ stamp' = [stamp EXCEPT ![t] = n]
        BY <2>7, <3>4, ThreadHolds DEF Compare, Goto, Places
      <4>2. ComesTo(t, p, c, b, n)
        BY <2>1, <2>7, <3>4, <4>1 DEF ComesTo, Compare
      <4>3. c <= Inputs
        BY <3>2, WatchesKnown
      <4> QED BY <2>3, <3>1, <4>1, <4>2, <4>3, ThreadMoves
    <3> QED BY <3>3, <3>4
  <2>8. CASE Record(t)
    <3>1. c \in 1 .. Inputs /\ c <= Inputs
      BY <2>0, <2>8, ThreadHolds, WatchesKnown DEF Record
    <3>2. risingTime' = [risingTime EXCEPT ![c] = s]
      BY <2>0, <2>8 DEF Record
    <3>3. risingTime' \in [1 .. Inputs -> Times]
      BY <3>1, <3>2, ThreadHolds
    <3>4. SharedTyped
      BY <2>8, <3>3, ThreadHolds DEF SharedTyped, Record
    <3>5. ComesTo(t, "remember", c, b, 0)
      BY <2>1, <2>8 DEF ComesTo, Record, Goto, Forget
    <3> QED BY <2>3, <2>4, <3>1, <3>4, <3>5, ThreadMoves DEF Places
  <2>9. CASE Remember(t)
    <3>1. c \in 1 .. Inputs
      BY <2>0, <2>9, ThreadHolds DEF Remember
    <3>2. PICK d \in 1 .. Inputs + 1 : d = c + 1
      BY <3>1, WatchesKnown
    <3>3. lastValues' = [lastValues EXCEPT ![c] = b]
      BY <2>0, <2>9 DEF Remember
    <3>4. lastValues' \in [1 .. Inputs -> BOOLEAN]
      BY <3>1, <3>3, ThreadHolds
    <3>5. SharedTyped
      BY <2>9, <3>4, ThreadHolds DEF SharedTyped, Remember
    <3>6. ComesTo(t, "read", d, f, s)
      BY <2>0, <2>1, <2>2, <2>9, <3>2 DEF ComesTo, Remember, GotoInput, Goto, Forget
    <3> QED BY <2>3, <3>5, <3>6, ThreadMoves DEF Places
  <2>10. CASE Ask(t)
    <3>1. SharedTyped
      BY <2>10, ThreadHolds DEF SharedTyped, Ask
    <3>2. CASE c > Len(Watches[t])
      <4>1. ComesTo(t, "loop", 1, b, s)
        BY <2>0, <2>1, <2>10, <3>2 DEF ComesTo, Ask, GotoInput, Goto
      <4> QED BY <2>3, <2>4, <3>1, <4>1, ThreadMoves DEF Places
    <3>3. CASE ~(c > Len(Watches[t]))
      <4>1. c <= Len(Watches[t]) /\ c <= Inputs
        BY <3>3, WatchesKnown
      <4>2. PICK d \in 1 .. Inputs + 1 : d = c + 1
        BY <4>1, WatchesKnown
      <4>3. \/ at' = [at EXCEPT ![t] = "take"] /\ cursor' = cursor
            \/ at' = [at EXCEPT ![t] = "ask"] /\ cursor' = [cursor EXCEPT ![t] = d]
        BY <2>0, <2>10, <3>3, <4>2 DEF Ask, GotoInput, Goto
      <4>4. ComesTo(t, "take", c, b, s) \/ ComesTo(t, "ask", d, b, s)
        BY <2>1, <2>10, <4>3 DEF ComesTo, Ask
      <4>5. CASE ComesTo(t, "take", c, b, s)
        BY <2>3, <3>1, <4>1, <4>5, ThreadMoves DEF Places
      <4>6. CASE ComesTo(t, "ask", d, b, s)
        BY <2>3, <3>1, <4>6, ThreadMoves DEF Places
      <4> QED BY <4>4, <4>5, <4>6
    <3> QED BY <3>2, <3>3
  <2>11. CASE Take(t)
    <3>1. PICK i \in 1 .. Inputs : i = Watches[t][cursor[t]]
      BY <2>11, ThreadHolds, WatchesKnown DEF Take
    <3>2. seenTime' = [seenTime EXCEPT ![i] = risingTime[i]] /\ due' = [due EXCEPT ![i] = f]
      BY <2>2, <2>11, <3>1 DEF Take
    <3>3. seenTime' \in [1 .. Inputs -> Times] /\ due' \in [1 .. Inputs -> BOOLEAN]
      BY <3>2, ThreadHolds
    <3>4. SharedTyped
      BY <2>11, <3>3, ThreadHolds DEF SharedTyped, Take
    <3>5. ComesTo(t, "loop", 1, b, s)
      BY <2>1, <2>11 DEF ComesTo, Take, GotoInput, Goto
    <3> QED BY <2>3, <2>4, <3>4, <3>5, ThreadMoves DEF Places
  <2> QED BY <1>3, <2>5, <2>6, <2>7, <2>8, <2>9, <2>10, <2>11 DEF ControlsThread
<1>4. CASE UNCHANGED controlsVars
  <2>1. UNCHANGED <<held, announced, packets, now, lastValues, risingTime, seenTime, newData,
                    at, cursor, bValue, stamp, due>>
    BY <1>4 DEF controlsVars
  <2> QED BY <2>1, Zenon DEF ControlsInv, ControlsTypeOK, CursorsOK
<1>5. CASE ClockSet
  <2>1. now' \in 0 .. packets
    BY <1>5, WatchesKnown DEF ClockSet, ControlsInv, ControlsTypeOK, Times
  <2>2. due' \in [1 .. Inputs -> BOOLEAN]
    BY <1>5, Zenon DEF ClockSet
  <2>3. UNCHANGED <<held, announced, packets, lastValues, risingTime, seenTime, newData, at,
                    cursor, bValue, stamp>>
    BY <1>5 DEF ClockSet
  <2> QED BY <2>1, <2>2, <2>3 DEF ControlsInv, ControlsTypeOK, CursorsOK
<1> QED BY <1>1, <1>2, <1>3, <1>4, <1>5 DEF ControlsNext

(***************************************************************************)
(* The speed of a side of the drives.                                      *)
(***************************************************************************)

\* Every call of calculateSpeed() has counted up to the encoder's count.
SpeedInv ==
  /\ count \in Int /\ lastEncoderCount = count /\ forwardCount \in Int /\ reverseCount \in Int
  /\ setPoint \in Int /\ internalSP \in Int /\ previousSP \in Int /\ totalizer \in BOOLEAN
  /\ elapsed \in Int /\ setBack \in Nat
  /\ SpeedSound

LEMMA SpeedStarts == SpeedInit => SpeedInv
<1> SUFFICES ASSUME SpeedInit PROVE SpeedInv
  OBVIOUS
<1>1. totalizer \in BOOLEAN /\ ~totalizer
  BY Zenon DEF SpeedInit
<1>2. PICK R \in Nat, T \in Nat : R = RampLimit /\ T = TopSpeed
  BY SpeedAssumption
<1>3. /\ count = 0 /\ lastEncoderCount = 0 /\ forwardCount = 0 /\ reverseCount = 0
      /\ setPoint = 0 /\ internalSP = 0 /\ previousSP = 0 /\ elapsed = 0 /\ setBack = 0
  BY DEF SpeedInit
<1>4. Abs(internalSP) <= T + R * setBack
  BY <1>2, <1>3 DEF Abs
<1> QED BY <1>1, <1>2, <1>3, <1>4 DEF SpeedInv, SpeedSound

\* A step of the ramp: upward by no more than the limit, or downward by what the clock
\* was set back.
LEMMA RampStepBounds ==
  ASSUME NEW time \in -MaxBack .. MaxLapse
  PROVE  /\ time >= 0 => RampStep(time) \in Nat /\ RampStep(time) <= RampLimit * LoopTimeLimit
         /\ time < 0 => RampStep(time) \in Int /\ -RampStep(time) = RampLimit * (-time)
                        /\ RampStep(time) <= 0
<1>1. PICK R \in Nat, L \in Nat, u \in Int : R = RampLimit /\ L = LoopTimeLimit /\ u = time
  BY SpeedAssumption
<1>2. ASSUME u >= 0
      PROVE  RampStep(time) \in Nat /\ RampStep(time) <= R * L
  <2>1. PICK m \in Nat, k \in Nat : m = Lesser(u, L) /\ L = m + k
    <3>1. CASE u < L
      <4>1. L - u \in Nat /\ L = u + (L - u) /\ u \in Nat
        BY <1>2, <3>1
      <4> QED BY <3>1, <4>1 DEF Lesser
    <3>2. CASE ~(u < L)
      BY <3>2 DEF Lesser
    <3> QED BY <3>1, <3>2
  <2>2. R * m \in Nat /\ R * k \in Nat /\ R * L = R * m + R * k
    BY <2>1
  <2>3. PICK x \in Nat, y \in Nat : x = R * m /\ y = R * k
    BY <2>2
  <2>4. R * m <= R * L
    BY <2>2, <2>3
  <2> QED BY <1>1, <2>1, <2>2, <2>4 DEF RampStep
<1>3. ASSUME u < 0
      PROVE  RampStep(time) \in Int /\ -RampStep(time) = R * (-u) /\ RampStep(time) <= 0
  <2>1. PICK v \in Nat : v = -u
    BY <1>3
  <2>2. Lesser(u, L) = -v
    BY <1>3, <2>1 DEF Lesser
  <2>3. PICK x \in Nat : x = R * v
    BY <2>1
  <2>4. R * (-v) = -(R * v)
    BY <2>1
  <2>5. RampStep(time) = -x
    BY <1>1, <2>2, <2>3, <2>4 DEF RampStep
  <2> QED BY <2>1, <2>3, <2>5
<1> QED BY <1>1, <1>2, <1>3

\* The internal set point stays within the fastest set point and what it has strayed.
LEMMA Strays ==
  ASSUME NEW R \in Nat, NEW T \in Nat, NEW b \in Nat, NEW c \in Nat, NEW v \in Nat,
         NEW sp \in Int, NEW i \in Int, NEW j \in Int,
         -T <= sp, sp <= T, Abs(i) <= T + R * b,
         \/ c = b /\ j \in Lesser(i, sp) .. Greater(i, sp)
         \/ c = b + v /\ Abs(j - i) <= R * v
  PROVE  Abs(j) <= T + R * c
<1>1. R * b \in Nat /\ R * v \in Nat /\ R * (b + v) = R * b + R * v
  OBVIOUS
<1>2. PICK x \in Nat, y \in Nat : x = R * b /\ y = R * v
  BY <1>1
<1>3. Abs(i) <= T + x
  BY <1>2
<1>4. CASE c = b /\ j \in Lesser(i, sp) .. Greater(i, sp)
  <2>1. Abs(j) <= T + x
    BY <1>3, <1>4 DEF Abs, Lesser, Greater
  <2> QED BY <1>2, <1>4, <2>1
<1>5. CASE c = b + v /\ Abs(j - i) <= R * v
  <2>1. Abs(j - i) <= y
    BY <1>2, <1>5
  <2>2. Abs(j) <= T + x + y
    BY <1>3, <2>1 DEF Abs
  <2>3. R * c = x + y
    BY <1>1, <1>2, <1>5
  <2> QED BY <2>2, <2>3
<1> QED BY <1>4, <1>5

\* The two halves of SpeedInv: the counts of the encoder and the set point.
CountsInv ==
  /\ count \in Int /\ lastEncoderCount = count /\ forwardCount \in Int /\ reverseCount \in Int
  /\ forwardCount + reverseCount = count /\ reverseCount <= 0 /\ forwardCount >= 0

RampInv ==
  /\ setPoint \in Int /\ internalSP \in Int /\ previousSP \in Int /\ totalizer \in BOOLEAN
  /\ elapsed \in Int /\ setBack \in Nat
  /\ setPoint = 0 => internalSP = 0 /\ ~totalizer
  /\ setPoint # 0 /\ elapsed >= 0 =>
       /\ internalSP \in Lesser(previousSP, setPoint) .. Greater(previousSP, setPoint)
       /\ Abs(internalSP - previousSP) <= RampLimit * LoopTimeLimit
  /\ Abs(internalSP) <= TopSpeed + RampLimit * setBack

LEMMA SpeedHalves == SpeedInv <=> CountsInv /\ RampInv
BY Zenon DEF SpeedInv, SpeedSound, CountsInv, RampInv

LEMMA CountsStep ==
  ASSUME CountsInv, SpeedPass
  PROVE  CountsInv'
<1>1. PICK lapse \in 0 .. MaxLapse : CalculateSpeed(lapse)
  BY DEF SpeedPass
<1>2. PICK d \in Int : d = count' - lastEncoderCount /\ count' \in Int
  <2>1. PICK x \in Int, y \in Int : x = count' /\ y = lastEncoderCount
    BY SpeedAssumption DEF CountsInv, SpeedPass
  <2>2. x - y \in Int
    OBVIOUS
  <2> QED BY <2>1, <2>2
<1>3. /\ lastEncoderCount' = count' /\ forwardCount' = forwardCount + Greater(d, 0)
      /\ reverseCount' = reverseCount + Lesser(d, 0)
  BY <1>1, <1>2 DEF CalculateSpeed
<1>4. PICK f \in Int, r \in Int, c \in Int :
        /\ f = forwardCount /\ r = reverseCount /\ c = count /\ r <= 0 /\ f >= 0 /\ f + r = c
  BY DEF CountsInv
<1>5. count' = c + d
  <2>1. lastEncoderCount = c
    BY <1>4 DEF CountsInv
  <2>2. PICK x \in Int : x = count'
    BY <1>2
  <2>3. d = x - c
    BY <1>2, <2>1, <2>2
  <2>4. x = c + d
    BY <2>3
  <2> QED BY <2>2, <2>4
<1>6. PICK g \in Int, l \in Int : g = Greater(d, 0) /\ l = Lesser(d, 0) /\ g + l = d /\ g >= 0 /\ l <= 0
  BY DEF Lesser, Greater
<1>7. forwardCount' = f + g /\ reverseCount' = r + l
  BY <1>3, <1>4, <1>6
<1> QED BY <1>2, <1>3, <1>4, <1>5, <1>6, <1>7 DEF CountsInv

LEMMA RampStays ==
  ASSUME RampInv, UNCHANGED <<setPoint, internalSP, totalizer, previousSP, elapsed, setBack>>
  PROVE  RampInv'
<1>1. totalizer' \in BOOLEAN /\ (totalizer' <=> totalizer)
  BY Zenon DEF RampInv
<1>2. UNCHANGED <<setPoint, internalSP, previousSP, elapsed, setBack>>
  OBVIOUS
<1> QED BY <1>1, <1>2 DEF RampInv

LEMMA RampMoves ==
  ASSUME RampInv, Control
  PROVE  RampInv'
<1>1. CASE UNCHANGED <<setPoint, internalSP, totalizer, previousSP, elapsed, setBack>>
  BY <1>1, RampStays
<1>2. ASSUME NEW time \in -MaxBack .. MaxLapse, NEW sp \in SetPoints,
             Loop(time, sp), setPoint' = sp, previousSP' = internalSP, elapsed' = time,
             setBack' = IF sp = 0 THEN 0 ELSE setBack + Greater(-time, 0)
      PROVE  RampInv'
  <2>1. PICK T \in Nat, R \in Nat, M \in Int, s \in Int, u \in Int :
          /\ T = TopSpeed /\ R = RampLimit /\ M = RampLimit * LoopTimeLimit /\ u = time
          /\ s = sp /\ -T <= s /\ s <= T
    BY SpeedAssumption
  <2>2. PICK i \in Int, b \in Nat : i = internalSP /\ b = setBack
    BY DEF RampInv
  <2>3. CASE s = 0
    <3>1. internalSP' = 0 /\ totalizer' \in BOOLEAN /\ ~totalizer'
      BY <1>2, <2>1, <2>3, Zenon DEF Loop
    <3>2. setBack' = 0 /\ setPoint' = 0 /\ previousSP' = i /\ elapsed' = u
      BY <1>2, <2>1, <2>2, <2>3
    <3>3. Abs(0) <= T + R * 0
      BY DEF Abs
    <3> QED BY <2>1, <3>1, <3>2, <3>3 DEF RampInv
  <2>4. CASE s # 0
    <3>1. totalizer' \in BOOLEAN
      BY <1>2, <2>1, <2>4, Zenon DEF Loop, RampInv
    <3>2. PICK r \in Int :
            /\ r = RampStep(time)
            /\ u >= 0 => r >= 0 /\ r <= M
            /\ u < 0 => r <= 0 /\ -r = R * (-u)
      BY <2>1, RampStepBounds
    <3>3. internalSP' = IF Abs(s - i) <= r THEN s ELSE IF s > i THEN i + r ELSE i - r
      BY <1>2, <2>1, <2>2, <2>4, <3>2 DEF Loop
    <3>4. PICK j \in Int : j = internalSP'
      BY <3>3
    <3>5. u >= 0 => j \in Lesser(i, s) .. Greater(i, s) /\ Abs(j - i) <= M
      BY <3>2, <3>3, <3>4 DEF Abs, Lesser, Greater
    <3>6. u < 0 => Abs(j - i) <= -r
      BY <3>2, <3>3, <3>4 DEF Abs
    <3>7. PICK c \in Nat, v \in Nat :
            /\ c = setBack'
            /\ (u >= 0 /\ c = b) \/ (u < 0 /\ v = -u /\ c = b + v)
      <4>1. PICK v \in Nat : v = Greater(-u, 0)
        BY DEF Greater
      <4>2. setBack' = b + v
        BY <1>2, <2>1, <2>2, <2>4, <4>1
      <4>3. (u >= 0 /\ v = 0) \/ (u < 0 /\ v = -u)
        BY <4>1 DEF Greater
      <4>4. PICK c \in Nat : c = b + v
        OBVIOUS
      <4>5. (u >= 0 /\ c = b) \/ (u < 0 /\ v = -u /\ c = b + v)
        BY <4>3, <4>4
      <4> QED BY <4>2, <4>4, <4>5
    <3>8. Abs(i) <= T + R * b
      BY <2>1, <2>2 DEF RampInv
    <3>9. \/ c = b /\ j \in Lesser(i, s) .. Greater(i, s)
          \/ c = b + v /\ Abs(j - i) <= R * v
      BY <3>2, <3>5, <3>6, <3>7
    <3>10. Abs(j) <= T + R * c
      BY <2>1, <3>8, <3>9, Strays
    <3> QED BY <1>2, <2>1, <2>2, <2>4, <3>1, <3>4, <3>5, <3>7, <3>10 DEF RampInv
  <2> QED BY <2>3, <2>4
<1> QED BY <1>1, <1>2 DEF Control

LEMMA SpeedSteps == SpeedInv /\ [SpeedPass]_speedVars => SpeedInv'
<1> SUFFICES ASSUME SpeedInv, [SpeedPass]_speedVars PROVE SpeedInv'
  OBVIOUS
<1>1. CountsInv /\ RampInv
  BY SpeedHalves
<1>2. CASE SpeedPass
  <2>1. Control
    BY <1>2 DEF SpeedPass
  <2>2. CountsInv' /\ RampInv'
    BY <1>1, <1>2, <2>1, CountsStep, RampMoves
  <2> QED BY <2>2, SpeedHalves, PTL
<1>3. CASE UNCHANGED speedVars
  <2>1. CountsInv'
    BY <1>1, <1>3 DEF speedVars, CountsInv
  <2>2. UNCHANGED <<setPoint, internalSP, totalizer, previousSP, elapsed, setBack>>
    BY <1>3 DEF speedVars
  <2>3. RampInv'
    BY <1>1, <2>2, RampStays
  <2> QED BY <2>1, <2>3, SpeedHalves, PTL
<1> QED BY <1>2, <1>3

(***************************************************************************)
(* The reader of programs.                                                 *)
(***************************************************************************)

\* The lines of a file up to m that are not empty, and those behind the first.
Filled(f, m) == {n \in 1 .. m : f[n] # ""}
FilledRest(f, m) == {n \in 2 .. m : f[n] # ""}

LEMMA FilledFinite ==
  ASSUME NEW f, NEW m \in Nat
  PROVE  IsFiniteSet(Filled(f, m)) /\ Cardinality(Filled(f, m)) \in Nat
<1>1. IsFiniteSet(1 .. m)
  BY FS_Interval
<1>2. Filled(f, m) \in SUBSET (1 .. m)
  BY DEF Filled
<1>3. IsFiniteSet(Filled(f, m))
  BY <1>1, <1>2, FS_Subset
<1> QED BY <1>3, FS_CardinalityType

\* One more line.
LEMMA FilledNext ==
  ASSUME NEW f, NEW m \in Nat
  PROVE  /\ f[m + 1] = "" => Filled(f, m + 1) = Filled(f, m)
         /\ f[m + 1] # "" => /\ Filled(f, m + 1) = Filled(f, m) \cup {m + 1}
                             /\ Cardinality(Filled(f, m + 1)) = Cardinality(Filled(f, m)) + 1
<1>1. \A n : n \in 1 .. m + 1 <=> n \in 1 .. m \/ n = m + 1
  OBVIOUS
<1>2. ASSUME f[m + 1] = "" PROVE Filled(f, m + 1) = Filled(f, m)
  BY <1>1, <1>2 DEF Filled
<1>3. ASSUME f[m + 1] # "" PROVE Filled(f, m + 1) = Filled(f, m) \cup {m + 1}
  BY <1>1, <1>3 DEF Filled
<1>4. m + 1 \notin Filled(f, m)
  <2>1. m + 1 \notin 1 .. m
    OBVIOUS
  <2> QED BY <2>1 DEF Filled
<1>5. Cardinality(Filled(f, m) \cup {m + 1}) = Cardinality(Filled(f, m)) + 1
  BY <1>4, FilledFinite, FS_AddElement
<1> QED BY <1>2, <1>3, <1>5

\* What the first reader counts is what there is, if the first line is not empty, and
\* else one more.
LEMMA FirstLineCounts ==
  ASSUME NEW f, NEW m \in Nat
  PROVE  /\ Cardinality(FilledRest(f, m)) \in Nat
         /\ 1 \in Filled(f, m) => Cardinality(Filled(f, m)) = 1 + Cardinality(FilledRest(f, m))
         /\ 1 \notin Filled(f, m) => Cardinality(Filled(f, m)) = Cardinality(FilledRest(f, m))
<1>1. \A n : n \in 1 .. m <=> n \in 2 .. m \/ (n = 1 /\ m >= 1)
  OBVIOUS
<1>2. FilledRest(f, m) \in SUBSET Filled(f, m)
  BY <1>1 DEF Filled, FilledRest
<1>3. IsFiniteSet(FilledRest(f, m)) /\ Cardinality(FilledRest(f, m)) \in Nat
  BY <1>2, FilledFinite, FS_Subset, FS_CardinalityType
<1>4. 1 \notin FilledRest(f, m)
  BY DEF FilledRest
<1>5. ASSUME 1 \in Filled(f, m)
      PROVE  Cardinality(Filled(f, m)) = 1 + Cardinality(FilledRest(f, m))
  <2>1. Filled(f, m) = FilledRest(f, m) \cup {1}
    <3>1. f[1] # "" /\ 1 \in 1 .. m
      BY <1>5 DEF Filled
    <3>2. \A n : n \in Filled(f, m) <=> n \in FilledRest(f, m) \/ n = 1
      BY <1>1, <3>1 DEF Filled, FilledRest
    <3> QED BY <3>2
  <2>2. Cardinality(FilledRest(f, m) \cup {1}) = Cardinality(FilledRest(f, m)) + 1
    BY <1>3, <1>4, FS_AddElement
  <2> QED BY <1>3, <2>1, <2>2
<1>6. ASSUME 1 \notin Filled(f, m)
      PROVE  Cardinality(Filled(f, m)) = Cardinality(FilledRest(f, m))
  <2>1. Filled(f, m) = FilledRest(f, m)
    <3>1. \A n : n \in Filled(f, m) => n # 1
      BY <1>6
    <3>2. \A n : n \in Filled(f, m) <=> n \in FilledRest(f, m)
      BY <1>1, <3>1 DEF Filled, FilledRest
    <3> QED BY <3>2
  <2> QED BY <2>1
<1> QED BY <1>3, <1>5, <1>6

CsvTypeOK ==
  /\ \E n \in 0 .. MaxLines : lines \in [1 .. n -> Line]
  /\ reading \in {"height", "rows", "returned", "error"}
  /\ nextLine \in 1 .. Len(lines) + 1 /\ height \in Nat /\ currentAuto \in Seq(Nat)

\* The second reader has stored the lines it has passed that are not empty, in their
\* order, and the first has counted the same lines, and the first line besides.
CsvStored(m) ==
  /\ Len(currentAuto) = Cardinality(Filled(lines, m))
  /\ \A i \in 1 .. Len(currentAuto) : currentAuto[i] \in Filled(lines, m)
  /\ \A n \in Filled(lines, m) : \E i \in 1 .. Len(currentAuto) : currentAuto[i] = n
  /\ \A i, j \in 1 .. Len(currentAuto) : i < j => currentAuto[i] < currentAuto[j]

CsvInv ==
  /\ CsvTypeOK
  /\ reading # "height" => height = 1 + Cardinality(FilledRest(lines, Len(lines)))
  /\ CsvStored(nextLine - 1)
  /\ reading = "returned" => Len(currentAuto) = height

LEMMA LinesAreRead ==
  ASSUME CsvTypeOK
  PROVE  /\ Len(lines) \in Nat /\ Len(currentAuto) \in Nat
         /\ \E m \in Nat : nextLine = m + 1 /\ nextLine - 1 = m /\ m <= Len(lines)
<1>1. PICK n \in 0 .. MaxLines : lines \in [1 .. n -> Line]
  BY DEF CsvTypeOK
<1>2. n \in Nat
  BY <1>1, MaxLinesAssumption
<1>3. Len(lines) = n
  BY <1>1, <1>2
<1>4. Len(currentAuto) \in Nat
  BY DEF CsvTypeOK
<1>5. nextLine \in 1 .. n + 1
  BY <1>3 DEF CsvTypeOK
<1>6. nextLine - 1 \in Nat /\ nextLine = (nextLine - 1) + 1 /\ nextLine - 1 <= n
  BY <1>2, <1>5
<1> QED BY <1>2, <1>3, <1>4, <1>6

LEMMA CsvStarts == CsvInit => CsvInv
<1> SUFFICES ASSUME CsvInit PROVE CsvInv
  OBVIOUS
<1>1. PICK n \in 0 .. MaxLines : lines \in [1 .. n -> Line]
  BY DEF CsvInit
<1>2. n \in Nat
  BY <1>1, MaxLinesAssumption
<1>3. Len(lines) = n
  BY <1>1, <1>2
<1>4. \A f : Filled(f, 0) = {}
  BY DEF Filled
<1>5. nextLine \in 1 .. Len(lines) + 1 /\ nextLine - 1 = 0
  BY <1>2, <1>3 DEF CsvInit
<1>6. currentAuto = <<>> /\ currentAuto \in Seq(Nat) /\ Len(currentAuto) = 0
  BY DEF CsvInit
<1>7. CsvTypeOK
  BY <1>1, <1>5, <1>6 DEF CsvTypeOK, CsvInit
<1>8. CsvStored(0)
  BY <1>4, <1>6, FS_EmptySet DEF CsvStored
<1>9. reading = "height"
  BY DEF CsvInit
<1> QED BY <1>5, <1>7, <1>8, <1>9 DEF CsvInv

LEMMA CsvSteps == CsvInv /\ [CsvNext]_csvVars => CsvInv'
<1> SUFFICES ASSUME CsvInv, [CsvNext]_csvVars PROVE CsvInv'
  OBVIOUS
<1>0. PICK len \in Nat, k \in Nat, m \in Nat :
        /\ len = Len(lines) /\ k = Len(currentAuto) /\ nextLine = m + 1 /\ nextLine - 1 = m /\ m <= len
  BY LinesAreRead DEF CsvInv
<1>00. CsvStored(m) /\ CsvTypeOK
  BY <1>0 DEF CsvInv
<1>1. CASE CountLines
  <2>1. height' = 1 + Cardinality(FilledRest(lines, len))
    BY <1>0, <1>1 DEF CountLines, FilledRest
  <2>2. height' \in Nat
    BY <2>1, FirstLineCounts
  <2>3. UNCHANGED <<lines, nextLine, currentAuto>> /\ reading' = "rows"
    BY <1>1 DEF CountLines
  <2>4. CsvTypeOK'
    BY <1>00, <2>2, <2>3 DEF CsvTypeOK
  <2>5. CsvStored(nextLine - 1)'
    BY <1>0, <1>00, <2>3 DEF CsvStored
  <2> QED BY <1>0, <2>1, <2>3, <2>4, <2>5 DEF CsvInv
<1>2. CASE SkipLine
  <2>1. UNCHANGED <<lines, reading, height, currentAuto>> /\ reading = "rows"
    BY <1>2 DEF SkipLine
  <2>2. CASE nextLine > Len(lines)
    <3>1. nextLine' = nextLine
      BY <1>2, <2>2 DEF SkipLine
    <3> QED BY <2>1, <3>1 DEF CsvInv, CsvTypeOK, CsvStored
  <2>3. CASE ~(nextLine > Len(lines))
    <3>1. m + 1 <= len /\ nextLine' = (m + 1) + 1
      BY <1>0, <1>2, <2>3 DEF SkipLine
    <3>2. nextLine' \in 1 .. Len(lines') + 1 /\ nextLine' - 1 = m + 1
      BY <1>0, <2>1, <3>1
    <3>3. lines[m + 1] = ""
      BY <1>0, <1>2, <3>1 DEF SkipLine, AtRow
    <3>4. Filled(lines, m + 1) = Filled(lines, m)
      BY <3>3, FilledNext
    <3>5. CsvStored(nextLine - 1)'
      BY <1>00, <2>1, <3>2, <3>4 DEF CsvStored
    <3>6. CsvTypeOK'
      BY <1>00, <2>1, <3>2 DEF CsvTypeOK
    <3> QED BY <2>1, <3>5, <3>6 DEF CsvInv
  <2> QED BY <2>2, <2>3
<1>3. CASE FillRow
  <2>1. /\ UNCHANGED <<lines, height>> /\ reading = "rows" /\ reading' \in {"rows", "error"}
        /\ m + 1 <= len /\ lines[m + 1] # "" /\ nextLine' = (m + 1) + 1
        /\ currentAuto' = Append(currentAuto, m + 1)
    BY <1>0, <1>3 DEF FillRow, AtRow
  <2>2. PICK s : s = currentAuto'
    OBVIOUS
  <2>3. /\ s \in Seq(Nat) /\ Len(s) = k + 1 /\ s[k + 1] = m + 1
        /\ \A i \in 1 .. k : s[i] = currentAuto[i]
    <3>1. PICK c \in Seq(Nat), e \in Nat : c = currentAuto /\ e = m + 1
      BY <1>00 DEF CsvTypeOK
    <3>2. s = Append(c, e) /\ Len(c) = k
      BY <1>0, <2>1, <2>2, <3>1
    <3>3. s \in Seq(Nat) /\ Len(s) = k + 1 /\ s[k + 1] = e /\ \A i \in 1 .. k : s[i] = c[i]
      BY <3>2, AppendProperties
    <3> QED BY <3>1, <3>3
  <2>4. nextLine' \in 1 .. Len(lines') + 1 /\ nextLine' - 1 = m + 1
    <3>1. Len(lines') = len
      BY <1>0, <2>1
    <3>2. PICK n \in Nat : n = (m + 1) + 1
      OBVIOUS
    <3>3. n \in 1 .. len + 1 /\ n - 1 = m + 1
      <4>1. m + 1 <= len
        BY <2>1
      <4> QED BY <3>2, <4>1
    <3>4. nextLine' = n
      BY <2>1, <3>2
    <3> QED BY <3>1, <3>3, <3>4
  <2>5. CsvTypeOK'
    BY <1>00, <2>1, <2>2, <2>3, <2>4 DEF CsvTypeOK
  <2>6. /\ Filled(lines, m + 1) = Filled(lines, m) \cup {m + 1}
        /\ Cardinality(Filled(lines, m + 1)) = k + 1
    <3>1. /\ Filled(lines, m + 1) = Filled(lines, m) \cup {m + 1}
          /\ Cardinality(Filled(lines, m + 1)) = Cardinality(Filled(lines, m)) + 1
      BY <1>0, <2>1, FilledNext
    <3>2. Cardinality(Filled(lines, m)) = k
      <4>1. Len(currentAuto) = Cardinality(Filled(lines, m))
        BY <1>00 DEF CsvStored
      <4> QED BY <1>0, <4>1
    <3> QED BY <3>1, <3>2
  <2>7. \A i \in 1 .. k + 1 : i \in 1 .. k \/ i = k + 1
    OBVIOUS
  <2>8. \A i \in 1 .. k : s[i] \in Filled(lines, m) /\ s[i] < m + 1
    <3> SUFFICES ASSUME NEW i \in 1 .. k PROVE s[i] \in Filled(lines, m) /\ s[i] < m + 1
      OBVIOUS
    <3>1. s[i] \in Filled(lines, m)
      BY <1>0, <1>00, <2>3 DEF CsvStored
    <3>2. s[i] \in 1 .. m
      BY <3>1 DEF Filled
    <3> QED BY <3>1, <3>2
  <2>9. \A i \in 1 .. k + 1 : s[i] \in Filled(lines, m + 1)
    BY <2>3, <2>6, <2>7, <2>8
  <2>10. \A n \in Filled(lines, m + 1) : \E i \in 1 .. k + 1 : s[i] = n
    <3> SUFFICES ASSUME NEW n \in Filled(lines, m + 1) PROVE \E i \in 1 .. k + 1 : s[i] = n
      OBVIOUS
    <3>1. k + 1 \in 1 .. k + 1 /\ \A i \in 1 .. k : i \in 1 .. k + 1
      OBVIOUS
    <3>2. CASE n = m + 1
      BY <2>3, <3>1, <3>2
    <3>3. CASE n \in Filled(lines, m)
      <4>1. PICK i \in 1 .. k : currentAuto[i] = n
        BY <1>0, <1>00, <3>3 DEF CsvStored
      <4> QED BY <2>3, <3>1, <4>1
    <3> QED BY <2>6, <3>2, <3>3
  <2>11. \A i, j \in 1 .. k + 1 : i < j => s[i] < s[j]
    <3> SUFFICES ASSUME NEW i \in 1 .. k + 1, NEW j \in 1 .. k + 1, i < j PROVE s[i] < s[j]
      OBVIOUS
    <3>1. i \in 1 .. k
      OBVIOUS
    <3>2. CASE j = k + 1
      BY <2>3, <2>8, <3>1, <3>2
    <3>3. CASE j \in 1 .. k
      <4>1. currentAuto[i] < currentAuto[j]
        BY <1>0, <1>00, <3>1, <3>3 DEF CsvStored
      <4> QED BY <2>3, <3>1, <3>3, <4>1
    <3> QED BY <2>7, <3>2, <3>3
  <2>12. CsvStored(nextLine - 1)'
    BY <2>1, <2>2, <2>3, <2>4, <2>6, <2>9, <2>10, <2>11 DEF CsvStored
  <2> QED BY <2>1, <2>5, <2>12 DEF CsvInv
<1>4. CASE Return
  <2>1. UNCHANGED <<lines, nextLine, height, currentAuto>> /\ Len(currentAuto) = height
        /\ reading' = "returned" /\ reading # "height"
    BY <1>4 DEF Return
  <2> QED BY <2>1 DEF CsvInv, CsvTypeOK, CsvStored
<1>5. CASE UNCHANGED csvVars
  BY <1>5 DEF csvVars, CsvInv, CsvTypeOK, CsvStored
<1> QED BY <1>1, <1>2, <1>3, <1>4, <1>5 DEF CsvNext

LEMMA CsvInvSound == CsvInv => CsvSound
<1> SUFFICES ASSUME CsvInv PROVE CsvSound
  OBVIOUS
<1>0. PICK len \in Nat, k \in Nat, m \in Nat :
        /\ len = Len(lines) /\ k = Len(currentAuto) /\ nextLine = m + 1 /\ nextLine - 1 = m /\ m <= len
  BY LinesAreRead DEF CsvInv
<1>00. CsvStored(m) /\ CsvTypeOK
  BY <1>0 DEF CsvInv
<1>1. PICK all \in Nat, rest \in Nat, h \in Nat :
        /\ all = Cardinality(Filled(lines, len)) /\ rest = Cardinality(FilledRest(lines, len)) /\ h = height
        /\ all = IF 1 \in Filled(lines, len) THEN 1 + rest ELSE rest
        /\ reading # "height" => h = 1 + rest
  BY <1>0, FirstLineCounts, FilledFinite DEF CsvInv, CsvTypeOK
<1>2. Filled(lines, m) \in SUBSET Filled(lines, len) /\ IsFiniteSet(Filled(lines, len))
  <2>1. \A n \in 1 .. m : n \in 1 .. len
    BY <1>0
  <2> QED BY <2>1, FilledFinite DEF Filled
<1>3. ASSUME reading = "returned"
      PROVE  /\ \A n \in 1 .. Len(lines) : lines[n] # "" <=> \E i \in 1 .. height : currentAuto[i] = n
             /\ \A i, j \in 1 .. height : i < j => currentAuto[i] < currentAuto[j]
  <2>1. k = h /\ Cardinality(Filled(lines, m)) = k
    BY <1>0, <1>00, <1>1, <1>3 DEF CsvInv, CsvStored
  <2>2. Cardinality(Filled(lines, m)) <= all
    BY <1>1, <1>2, FS_Subset
  <2>3. all = h
    BY <1>1, <1>3, <2>1, <2>2
  <2>4. Filled(lines, m) = Filled(lines, len)
    BY <1>1, <1>2, <2>1, <2>3, FS_Subset
  <2>5. \A n \in 1 .. len : lines[n] # "" <=> n \in Filled(lines, m)
    BY <2>4 DEF Filled
  <2> QED BY <1>0, <1>00, <1>1, <2>1, <2>5 DEF CsvStored
<1>4. ASSUME reading = "rows", nextLine > Len(lines), Len(currentAuto) < height
      PROVE  lines = <<>> \/ lines[1] = ""
  <2>1. m = len /\ k < h
    BY <1>0, <1>1, <1>4
  <2>2. all < h
    BY <1>0, <1>00, <1>1, <2>1 DEF CsvStored
  <2>3. 1 \notin Filled(lines, len)
    BY <1>1, <1>4, <2>2
  <2>4. CASE len = 0
    <3>1. PICK n \in 0 .. MaxLines : lines \in [1 .. n -> Line]
      BY <1>00 DEF CsvTypeOK
    <3>2. n \in Nat
      BY <3>1, MaxLinesAssumption
    <3>3. lines \in Seq(Line)
      BY <3>1, <3>2
    <3>4. PICK f \in Seq(Line) : f = lines
      BY <3>3
    <3>5. Len(f) = 0
      BY <1>0, <2>4, <3>4
    <3> QED BY <3>4, <3>5, EmptySeq
  <2>5. CASE len # 0
    <3>1. 1 \in 1 .. len
      BY <2>5
    <3> QED BY <2>3, <3>1 DEF Filled
  <2> QED BY <2>4, <2>5
<1> QED BY <1>3, <1>4 DEF CsvSound

(***************************************************************************)
(* The shooter.                                                            *)
(***************************************************************************)

\* The parts of the type: the data, where the threads stand, and what lasts for a pass.
ShooterData ==
  /\ isPressed \in BOOLEAN /\ fireWhenReady \in BOOLEAN /\ visionOff \in BOOLEAN
  /\ speed \in Speeds
  /\ lastPressed \in BOOLEAN /\ manualControl \in BOOLEAN
  /\ fireOverride \in BOOLEAN /\ ready \in BOOLEAN
  /\ flywheel \in BOOLEAN /\ feeder \in BOOLEAN
  /\ robotMode \in ShooterModes

ShooterPlaces ==
  /\ standing \in [ShooterThreads -> PassSteps \cup CallSteps]
  /\ standing["Shooter"] \in PassSteps
  /\ standing["Autonomous"] \in CallSteps /\ standing["Robot"] \in AbortSteps

ShooterPass ==
  /\ fireOverride => standing["Shooter"] \in Overriding
  /\ ready => standing["Shooter"] \in Readied

LEMMA ShooterParts == ShooterTypeOK <=> ShooterData /\ ShooterPlaces /\ ShooterPass
BY Zenon DEF ShooterTypeOK, ShooterData, ShooterPlaces, ShooterPass

LEMMA ShooterStarts == ShooterInit => ShooterTypeOK
<1> SUFFICES ASSUME ShooterInit PROVE ShooterTypeOK
  OBVIOUS
<1>1. ~fireOverride /\ ~ready
  BY Zenon DEF ShooterInit
<1>2. ShooterData
  BY DEF ShooterInit, ShooterData, Speeds, ShooterModes
<1>3. ShooterPlaces
  BY DEF ShooterInit, ShooterPlaces, ShooterThreads, Callers, PassSteps, CallSteps, AbortSteps
<1> QED BY <1>1, <1>2, <1>3, ShooterParts DEF ShooterPass

LEMMA ShooterGoes ==
  ASSUME ShooterPlaces, NEW from, NEW to \in PassSteps, Step("Shooter", from, to)
  PROVE  ShooterPlaces' /\ standing["Shooter"] = from /\ standing'["Shooter"] = to
BY DEF ShooterPlaces, Step, ShooterGoto, ShooterThreads, Callers

LEMMA CallerGoes ==
  ASSUME ShooterPlaces, NEW t \in Callers, NEW to \in CallSteps, ShooterGoto(t, to),
         t = "Robot" => to \in AbortSteps
  PROVE  ShooterPlaces' /\ standing'["Shooter"] = standing["Shooter"]
BY DEF ShooterPlaces, ShooterGoto, ShooterThreads, Callers

LEMMA DataSteps == ShooterData /\ [ShooterNext]_shooterVars => ShooterData'
<1> SUFFICES ASSUME ShooterData, [ShooterNext]_shooterVars PROVE ShooterData'
  OBVIOUS
<1> USE DEF ShooterData, switches, pass, outputs
<1>1. CASE ShooterThread
  <2>1. CASE BeginPass
    BY <2>1 DEF BeginPass
  <2>2. CASE Controls
    BY <2>2 DEF Controls
  <2>3. CASE TakeVision
    BY <2>3 DEF TakeVision
  <2>4. CASE TakePress
    BY <2>4 DEF TakePress
  <2>5. CASE TakeFire
    BY <2>5 DEF TakeFire, Speeds
  <2>6. CASE Release
    BY <2>6 DEF Release
  <2>7. CASE Unfire
    BY <2>7 DEF Unfire
  <2>8. CASE Edge
    BY <2>8 DEF Edge
  <2>9. CASE EdgeSpeed
    BY <2>9 DEF EdgeSpeed, Speeds
  <2>10. CASE Keep
    BY <2>10 DEF Keep
  <2>11. CASE Turret
    BY <2>11 DEF Turret
  <2>12. CASE Wheel
    BY <2>12 DEF Wheel
  <2>13. CASE WheelControl
    BY <2>13 DEF WheelControl, Power
  <2>14. CASE Manual
    BY <2>14 DEF Manual
  <2>15. CASE Adjust
    BY <2>15 DEF Adjust, Speeds, Power
  <2>16. CASE Feed
    BY <2>16 DEF Feed
  <2> QED BY <1>1, <2>1, <2>2, <2>3, <2>4, <2>5, <2>6, <2>7, <2>8,
             <2>9, <2>10, <2>11, <2>12, <2>13, <2>14, <2>15, <2>16 DEF ShooterThread
<1>2. CASE ToggleOn \/ ToggleOff \/ UnderWay \/ FireOn \/ FireOff
  <2>1. CASE ToggleOn
    BY <2>1 DEF ToggleOn
  <2>2. CASE ToggleOff
    BY <2>2 DEF ToggleOff
  <2>3. CASE AskSpeed
    BY <2>3 DEF AskSpeed, Speeds
  <2>4. CASE SetPressed
    BY <2>4 DEF SetPressed
  <2>5. CASE SetVision
    BY <2>5 DEF SetVision
  <2>6. CASE FireOn
    BY <2>6 DEF FireOn
  <2>7. CASE FireOff
    BY <2>7 DEF FireOff
  <2> QED BY <1>2, <2>1, <2>2, <2>3, <2>4, <2>5, <2>6, <2>7 DEF UnderWay
<1>3. ASSUME NEW t \in Callers, Abort(t) \/ AbortUnderWay(t) PROVE ShooterData'
  BY <1>3 DEF Abort, AbortUnderWay, AbortPressed, AbortVision
<1>4. CASE ShooterDriverStation
  BY <1>4 DEF ShooterDriverStation
<1>5. CASE UNCHANGED shooterVars
  BY <1>5 DEF shooterVars, ShooterData
<1> QED BY <1>1, <1>2, <1>3, <1>4, <1>5 DEF ShooterNext

\* Where the threads stand after a step; only a step of its own moves the Shooter thread.
LEMMA PlacesSteps ==
  ShooterPlaces /\ [ShooterNext]_shooterVars
    => ShooterPlaces' /\ (ShooterThread \/ standing'["Shooter"] = standing["Shooter"])
<1> SUFFICES ASSUME ShooterPlaces, [ShooterNext]_shooterVars
             PROVE  ShooterPlaces' /\ (ShooterThread \/ standing'["Shooter"] = standing["Shooter"])
  OBVIOUS
<1> DEFINE Moved == ShooterPlaces' /\ (ShooterThread \/ standing'["Shooter"] = standing["Shooter"])
<1>1. CASE ShooterThread
  <2>1. CASE BeginPass
    BY <1>1, <2>1, ShooterGoes DEF BeginPass, PassSteps
  <2>2. CASE Controls
    BY <1>1, <2>2, ShooterGoes DEF Controls, PassSteps
  <2>3. CASE TakeVision
    BY <1>1, <2>3, ShooterGoes DEF TakeVision, PassSteps
  <2>4. CASE TakePress
    BY <1>1, <2>4, ShooterGoes DEF TakePress, PassSteps
  <2>5. CASE TakeFire
    BY <1>1, <2>5, ShooterGoes DEF TakeFire, PassSteps
  <2>6. CASE Release
    BY <1>1, <2>6, ShooterGoes DEF Release, PassSteps
  <2>7. CASE Unfire
    BY <1>1, <2>7, ShooterGoes DEF Unfire, PassSteps
  <2>8. CASE Edge
    BY <1>1, <2>8, ShooterGoes DEF Edge, PassSteps
  <2>9. CASE EdgeSpeed
    BY <1>1, <2>9, ShooterGoes DEF EdgeSpeed, PassSteps
  <2>10. CASE Keep
    BY <1>1, <2>10, ShooterGoes DEF Keep, PassSteps
  <2>11. CASE Turret
    BY <1>1, <2>11, ShooterGoes DEF Turret, PassSteps
  <2>12. CASE Wheel
    BY <1>1, <2>12, ShooterGoes DEF Wheel, PassSteps
  <2>13. CASE WheelControl
    BY <1>1, <2>13, ShooterGoes DEF WheelControl, PassSteps
  <2>14. CASE Manual
    BY <1>1, <2>14, ShooterGoes DEF Manual, PassSteps
  <2>15. CASE Adjust
    BY <1>1, <2>15, ShooterGoes DEF Adjust, PassSteps
  <2>16. CASE Feed
    BY <1>1, <2>16, ShooterGoes DEF Feed, PassSteps
  <2> QED BY <1>1, <2>1, <2>2, <2>3, <2>4, <2>5, <2>6, <2>7, <2>8,
             <2>9, <2>10, <2>11, <2>12, <2>13, <2>14, <2>15, <2>16 DEF ShooterThread
<1>2. CASE ToggleOn \/ ToggleOff \/ UnderWay \/ FireOn \/ FireOff
  <2>1. CASE ToggleOn
    BY <2>1, CallerGoes DEF ToggleOn, Step, Callers, CallSteps
  <2>2. CASE ToggleOff
    BY <2>2, CallerGoes DEF ToggleOff, Step, Callers, CallSteps
  <2>3. CASE AskSpeed
    BY <2>3, CallerGoes DEF AskSpeed, Step, Callers, CallSteps
  <2>4. CASE SetPressed
    BY <2>4, CallerGoes DEF SetPressed, Step, Callers, CallSteps
  <2>5. CASE SetVision
    BY <2>5, CallerGoes DEF SetVision, Step, Callers, CallSteps
  <2>6. CASE FireOn
    BY <2>6 DEF FireOn, ShooterPlaces
  <2>7. CASE FireOff
    BY <2>7 DEF FireOff, ShooterPlaces
  <2> QED BY <1>2, <2>1, <2>2, <2>3, <2>4, <2>5, <2>6, <2>7 DEF UnderWay
<1>3. ASSUME NEW t \in Callers, Abort(t) \/ AbortUnderWay(t) PROVE Moved
  BY <1>3, CallerGoes DEF Abort, AbortUnderWay, AbortPressed, AbortVision, Step, CallSteps,
    AbortSteps
<1>4. CASE ShooterDriverStation
  BY <1>4 DEF ShooterDriverStation, ShooterPlaces
<1>5. CASE UNCHANGED shooterVars
  BY <1>5 DEF shooterVars, ShooterPlaces
<1> QED BY <1>1, <1>2, <1>3, <1>4, <1>5 DEF ShooterNext

LEMMA PassLasts ==
  ASSUME ShooterPlaces, ShooterPass, [ShooterNext]_shooterVars
  PROVE  ShooterPass'
<1> USE DEF ShooterPass, Overriding, Readied, pass
<1>1. CASE ShooterThread
  <2>1. CASE BeginPass
    BY <2>1, ShooterGoes DEF BeginPass, PassSteps
  <2>2. CASE Controls
    BY <2>2, ShooterGoes DEF Controls, PassSteps
  <2>3. CASE TakeVision
    BY <2>3, ShooterGoes DEF TakeVision, PassSteps
  <2>4. CASE TakePress
    BY <2>4, ShooterGoes DEF TakePress, PassSteps
  <2>5. CASE TakeFire
    BY <2>5, ShooterGoes DEF TakeFire, PassSteps
  <2>6. CASE Release
    BY <2>6, ShooterGoes DEF Release, PassSteps
  <2>7. CASE Unfire
    BY <2>7, ShooterGoes DEF Unfire, PassSteps
  <2>8. CASE Edge
    BY <2>8, ShooterGoes DEF Edge, PassSteps
  <2>9. CASE EdgeSpeed
    BY <2>9, ShooterGoes DEF EdgeSpeed, PassSteps
  <2>10. CASE Keep
    BY <2>10, ShooterGoes DEF Keep, PassSteps
  <2>11. CASE Turret
    BY <2>11, ShooterGoes DEF Turret, PassSteps
  <2>12. CASE Wheel
    BY <2>12, ShooterGoes DEF Wheel, PassSteps
  <2>13. CASE WheelControl
    BY <2>13, ShooterGoes DEF WheelControl, PassSteps, Power
  <2>14. CASE Manual
    BY <2>14, ShooterGoes DEF Manual, PassSteps
  <2>15. CASE Adjust
    BY <2>15, ShooterGoes DEF Adjust, PassSteps, Power
  <2>16. CASE Feed
    BY <2>16, ShooterGoes DEF Feed, PassSteps
  <2> QED BY <1>1, <2>1, <2>2, <2>3, <2>4, <2>5, <2>6, <2>7, <2>8,
             <2>9, <2>10, <2>11, <2>12, <2>13, <2>14, <2>15, <2>16 DEF ShooterThread
<1>2. CASE ~ShooterThread
  <2>1. standing'["Shooter"] = standing["Shooter"]
    BY <1>2, PlacesSteps
  <2>2. UNCHANGED <<fireOverride, ready>>
    BY <1>2 DEF ShooterNext, shooterVars, ToggleOn, ToggleOff, UnderWay, AskSpeed, SetPressed,
                SetVision, FireOn, FireOff, Abort, AbortUnderWay, AbortPressed, AbortVision,
                ShooterDriverStation
  <2> QED BY <2>1, <2>2
<1> QED BY <1>1, <1>2

LEMMA ShooterSteps == ShooterTypeOK /\ [ShooterNext]_shooterVars => ShooterTypeOK'
<1> SUFFICES ASSUME ShooterTypeOK, [ShooterNext]_shooterVars PROVE ShooterTypeOK'
  OBVIOUS
<1>1. ShooterData /\ ShooterPlaces /\ ShooterPass
  BY ShooterParts
<1>2. ShooterData' /\ ShooterPlaces' /\ ShooterPass'
  BY <1>1, DataSteps, PlacesSteps, PassLasts
<1> QED BY <1>2, ShooterParts, PTL

\* Whatever the sequencer asks of it and wherever an abort or a change of mode finds its
\* pass, the shooter keeps its type: in particular the override and the readiness of one
\* pass never reach the feeder in the next, no thread is found in another's code, and no
\* speed worked out from a distance becomes the wanted one.
THEOREM ShooterTyped == ShooterSpec => []ShooterTypeOK
BY ShooterStarts, ShooterSteps, PTL DEF ShooterSpec

(***************************************************************************)
(* All parts.                                                              *)
(***************************************************************************)

PartsInv == TypeOK /\ ControlsInv /\ ThreadInv /\ SpeedInv /\ CsvInv

\* Whatever part runs, its types hold, and what its module says of it.
THEOREM PartsSound == MCSpec => []SubsystemsSound
<1>1. MCInit => PartsInv
  BY BallAcqStarts, ControlsStart, ThreadStarts, SpeedStarts, CsvStarts DEF MCInit, PartsInv
<1>2. PartsInv /\ [MCNext]_allVars => PartsInv'
  <2> SUFFICES ASSUME PartsInv, [MCNext]_allVars PROVE PartsInv'
    OBVIOUS
  <2>1. /\ [Next]_vars /\ [ControlsNext]_controlsVars /\ [ThreadNext]_threadVars
        /\ [SpeedPass]_speedVars /\ [CsvNext]_csvVars
    BY DEF MCNext, allVars
  <2> QED BY <2>1, BallAcqSteps, ControlsSteps, ThreadSteps, SpeedSteps, CsvSteps DEF PartsInv
<1>3. PartsInv => SubsystemsSound
  BY CsvInvSound DEF PartsInv, ControlsInv, ThreadInv, SpeedInv, SubsystemsSound
<1> QED BY <1>1, <1>2, <1>3, PTL DEF MCSpec
===============================================================================
