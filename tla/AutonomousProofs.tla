--------------------------- MODULE AutonomousProofs ---------------------------
(***************************************************************************)
(* Theorems about Autonomous, for every program.                           *)
(***************************************************************************)
EXTENDS Autonomous, TLAPS

\* While a command is under way it is the one of row currStep; a pass performs
\* a command only then.
UnderWay ==
  ~incStep => currStep \in 0..Last /\ FetchedFrom(currCommand, Program[currStep])

PerformsUnderWay ==
  /\ pc["Autonomous"] \in {"perform", "lift"} => ~incStep
  /\ pc["Autonomous"] = "lift" => currCommand = "DRIVES_LIFT"

RowInv == TypeOK /\ UnderWay /\ PerformsUnderWay

\* In a well-formed program a row follows wherever the sequencer moves on.
HasNextRow == loaded /\ incStep => currStep < Last
LoadedUnderWay == ~incStep => loaded /\ currStep > 0
JumpTargets ==
  /\ critStep \in 0..Last
  /\ backgroundLeft # Off => moveToStep \in 1..Last

RunInv == HasNextRow /\ LoadedUnderWay /\ JumpTargets /\ (threw => ~loaded)
-------------------------------------------------------------------------------
(***************************************************************************)
(* Rows and parameters, for all programs.                                  *)
(***************************************************************************)

LEMMA Bounds == Last \in Nat /\ Horizon \in Nat
  BY ProgramAssumption

LEMMA RowInit == ASSUME Init PROVE RowInv
<1>1. pc \in [Threads -> {"loop", "idle"}] /\ pc["Autonomous"] = "loop"
  BY DEF Init, Threads
<1>2. currStep \in 0..MaxStep /\ critStep \in 0..MaxStep /\ moveToStep \in 0..MaxStep
  BY Bounds DEF Init, MaxStep
<1>3. /\ critTime \in Off..Horizon /\ elapsed \in 0..Horizon /\ waitLeft \in 0..Horizon
      /\ backgroundLeft \in Off..(Horizon + 1)
  BY Bounds DEF Init, Off
<1>4. currCommand \in Commands /\ drives \in DrivesStates
  BY DEF Init, Commands, RowOps, DrivesStates
<1>5. TypeOK
  BY <1>1, <1>2, <1>3, <1>4 DEF Init, TypeOK
<1> QED BY <1>1, <1>5 DEF Init, RowInv, UnderWay, PerformsUnderWay

\* What a row holds, whichever it is.
LEMMA RowFacts ==
  ASSUME NEW i \in 0..Last
  PROVE  LET row == Program[i] IN
         /\ row \in Rows
         /\ row.op \in {"BACKGROUND_DELAY", "DELAY"} => row.a \in 0..Horizon
         /\ row.op = "BACKGROUND_DELAY" => row.b \in 0..MaxStep
         /\ row.op = "SETCRITSTEP" => row.a \in 0..MaxStep /\ row.b \in 0..Horizon
  BY ProgramAssumption DEF MaxStep, Rows

\* A command that takes numbers from its row has been fetched from that row.
LEMMA RowOfCommand ==
  ASSUME RowInv, pc["Autonomous"] = "perform",
         currCommand \notin {"AUTOEND", "DRIVES_DONE", "WAITING"}
  PROVE  currStep \in 0..Last /\ Row.op = currCommand /\ Row \in Rows
  BY RowFacts DEF RowInv, UnderWay, PerformsUnderWay, FetchedFrom, Row

LEMMA RowStep == RowInv /\ [Next]_vars => RowInv'
<1> SUFFICES ASSUME RowInv, [Next]_vars PROVE RowInv'
  OBVIOUS
<1> USE Bounds
    DEF RowInv, TypeOK, UnderWay, PerformsUnderWay, FetchedFrom, Step, Goto, Threads,
        flags, sequence, critical, waits, timers, robot, MaxStep, Off
<1>1. CASE Execute          BY <1>1 DEF Execute
<1>2. CASE Load
  <2>1. 0 \in 0..MaxStep /\ 0 \in 0..Horizon /\ Off \in Off..Horizon
    BY Bounds
  <2> QED BY <1>2, <2>1 DEF Load
<1>3. CASE Enter            BY <1>3 DEF Enter
<1>4. CASE Mark             BY <1>4 DEF Mark
<1>5. CASE CheckCrit
  <2>1. CASE CritDue
    <3>1. critStep - 1 \in 0..MaxStep /\ Off \in Off..Horizon
      BY <2>1, Bounds DEF CritDue
    <3>2. incStep' = TRUE /\ currStep' = critStep - 1 /\ critTime' = Off
      BY <1>5, <2>1 DEF CheckCrit
    <3> QED BY <1>5, <3>1, <3>2 DEF CheckCrit
  <2>2. CASE ~CritDue  BY <1>5, <2>2 DEF CheckCrit
  <2> QED BY <2>1, <2>2
<1>6. CASE CheckBackground
  <2>1. CASE BackgroundDue /\ moveToStep # 0
    <3>1. moveToStep - 1 \in 0..MaxStep /\ Off \in Off..(Horizon + 1)
      BY <2>1, Bounds
    <3>2. incStep' = TRUE /\ currStep' = moveToStep - 1 /\ backgroundLeft' = Off
      BY <1>6, <2>1 DEF CheckBackground
    <3>3. currCommand' = currCommand
      BY <1>6, <2>1 DEF CheckBackground
    <3> QED BY <1>6, <3>1, <3>2, <3>3 DEF CheckBackground
  <2>2. CASE BackgroundDue /\ moveToStep = 0
    BY <1>6, <2>2 DEF CheckBackground, BackgroundDue, Commands, RowOps
  <2>3. CASE ~BackgroundDue
    BY <1>6, <2>3 DEF CheckBackground
  <2> QED BY <2>1, <2>2, <2>3
<1>7. CASE Fetch
  <2>1. currStep' \in 0..Last /\ currStep' = currStep + 1 /\ incStep' = FALSE
    BY <1>7 DEF Fetch, Readable
  <2>2. Program[currStep'] \in Rows
    BY <2>1, RowFacts
  <2>3. currCommand' \in Commands /\ FetchedFrom(currCommand, Program[currStep])'
    BY <1>7, <2>1, <2>2 DEF Fetch, Commands, RowOps, Rows
  <2>4. TypeOK'
    <3>1. currStep' \in 0..MaxStep
      BY <2>1
    <3>4. incStep' \in BOOLEAN /\ currCommand' \in Commands
      BY <2>1, <2>3
    <3>2. pc' = [pc EXCEPT !["Autonomous"] = "perform"]
      BY <1>7 DEF Fetch
    <3>3. /\ UNCHANGED <<mode, phase, flags, loaded, critical>>
          /\ UNCHANGED <<timers, robot, threw>>
      BY <1>7 DEF Fetch
    <3> QED BY <3>1, <3>2, <3>3, <3>4
  <2>5. UnderWay'
    BY <2>1, <2>3
  <2>6. PerformsUnderWay'
    BY <1>7, <2>1 DEF Fetch
  <2> QED BY <2>4, <2>5, <2>6
<1>8. CASE Refetch          BY <1>8 DEF Refetch, Commands, RowOps
<1>9. CASE FetchThrows      BY <1>9 DEF FetchThrows
<1>10. CASE Commanding
  <2> USE DEF Perform
  <2>1. CASE DrivesOrder
    BY <2>1, RowOfCommand DEF DrivesOrder, OrderMotion, DriveOps, DrivesStates, Commands, Row
  <2>2. CASE DrivesLift      BY <2>2 DEF DrivesLift
  <2>3. CASE MoveToLift      BY <2>3 DEF MoveToLift, OrderMotion, DrivesStates, Commands
  <2>4. CASE DrivesStop      BY <2>4 DEF DrivesStop, DrivesStates
  <2>5. CASE HandOver        BY <2>5 DEF HandOver
  <2>6. CASE BallAcqToggle
    BY <2>6 DEF BallAcqToggle, BallMotorsAfter, BallMotors
  <2>7. CASE ShooterToggle   BY <2>7 DEF ShooterToggle
  <2>9. CASE BackgroundDelay
    <3>1. CASE backgroundLeft = Off
      <4>1. Row.a \in 0..Horizon /\ Row.b \in 0..MaxStep
        BY <2>9, RowOfCommand, RowFacts DEF BackgroundDelay, Row
      <4> QED BY <2>9, <3>1, <4>1 DEF BackgroundDelay
    <3>2. CASE backgroundLeft # Off
      BY <2>9, <3>2 DEF BackgroundDelay, Commands, RowOps
    <3> QED BY <3>1, <3>2
  <2>10. CASE Delay
    BY <2>10, RowOfCommand, RowFacts DEF Delay, Row, Commands
  <2>11. CASE Wait           BY <2>11 DEF Wait, DrivesDone
  <2>12. CASE SetCritStep
    BY <2>12, RowOfCommand, RowFacts DEF SetCritStep, Row
  <2>13. CASE End            BY <2>13 DEF End, AbortCommands, DrivesStates
  <2>14. CASE Hold           BY <2>14 DEF Hold
  <2>15. CASE Unknown        BY <2>15 DEF Unknown, Commands, RowOps
  <2>16. CASE ShortRow
    BY <2>16, RowFacts DEF ShortRow, Row, RowOps, DriveOps
  <2> QED BY <1>10, <2>1, <2>2, <2>3, <2>4, <2>5, <2>6, <2>7, <2>9, <2>10, <2>11,
             <2>12, <2>13, <2>14, <2>15, <2>16 DEF Commanding
<1>11. CASE RobotThread
  <2>1. CASE SetRunAuto
    BY <2>1 DEF SetRunAuto, CurrentPhase, Modes
  <2>2. CASE TestAutoRun     BY <2>2 DEF TestAutoRun
  <2>3. CASE RobotAborts     BY <2>3 DEF RobotAborts, AbortCommands, DrivesStates
  <2>4. CASE ClearAutoRun    BY <2>4 DEF ClearAutoRun
  <2> QED BY <1>11, <2>1, <2>2, <2>3, <2>4 DEF RobotThread
<1>12. CASE DrivesPass       BY <1>12 DEF DrivesPass, DrivesStates
<1>13. CASE MotionEnds       BY <1>13 DEF MotionEnds, DrivesStates
<1>14. CASE DriverStation    BY <1>14 DEF DriverStation
<1>15. CASE Tick             BY <1>15 DEF Tick
<1>16. CASE UNCHANGED vars   BY <1>16 DEF vars
<1> QED BY <1>1, <1>2, <1>3, <1>4, <1>5, <1>6, <1>7, <1>8, <1>9, <1>10, <1>11, <1>12,
           <1>13, <1>14, <1>15, <1>16 DEF Next, AutonomousThread

LEMMA RowInvariant == Spec => []RowInv
  BY RowInit, RowStep, PTL DEF Spec

\* Every variable keeps its type, for every program: the step counter stays on the
\* program or one row past it, the timers below the longest time in it.
THEOREM TypeCorrect == Spec => []TypeOK
  BY RowInvariant, PTL DEF RowInv

\* A command is always performed with the parameters of its own row, for every
\* program and wherever the critical step and the background timer jump.
THEOREM ParametersAreItsOwn == Spec => []ParametersMatch
<1>1. RowInv => ParametersMatch
  BY DEF RowInv, UnderWay, PerformsUnderWay, ParametersMatch, TypeOK
<1> QED BY <1>1, RowInvariant, PTL
-------------------------------------------------------------------------------
(***************************************************************************)
(* Well-formed programs run without exceptions and never lose the target   *)
(* of their timer.                                                         *)
(***************************************************************************)

LEMMA RunInit == ASSUME Init, WellFormed PROVE RunInv
  BY Bounds DEF Init, WellFormed, RunInv, HasNextRow, LoadedUnderWay, JumpTargets, Off

\* A row that has been fetched: long enough, a known command, with jumps into
\* the program, and never the last one but for END and HOLD.
LEMMA WellFormedRow ==
  ASSUME WellFormed, RowInv, RunInv, ~incStep
  PROVE  /\ currStep \in 1..Last
         /\ Row.op \notin {"UNKNOWN", "READ_OK", "READ_FAILED"}
         /\ Row.cols >= Columns(Row.op)
         /\ Row.op = "BACKGROUND_DELAY" => Row.b \in 1..Last
         /\ Row.op = "SETCRITSTEP" => Row.a \in 0..Last
         /\ Row.op \notin {"AUTOEND", "HOLD"} => currStep < Last
<1>1. currStep \in 1..Last
  BY Bounds DEF RowInv, UnderWay, RunInv, LoadedUnderWay
<1> QED BY <1>1, Bounds DEF WellFormed, Row

\* A row whose command asks for the next row is not the last one.
LEMMA NotLast ==
  ASSUME WellFormed, RowInv, RunInv, pc["Autonomous"] = "perform",
         currCommand \notin {"AUTOEND", "HOLD"}
  PROVE  currStep < Last /\ loaded
<1>1. ~incStep /\ FetchedFrom(currCommand, Row)
  BY DEF RowInv, UnderWay, PerformsUnderWay, Row
<1>2. Row.op \notin {"AUTOEND", "HOLD"}
  BY <1>1 DEF FetchedFrom, DriveOps
<1> QED BY <1>1, <1>2, WellFormedRow DEF RunInv, LoadedUnderWay

LEMMA RunStep ==
  ASSUME WellFormed, RowInv, RunInv, [Next]_vars
  PROVE  RunInv'
<1>0. RowInv'
  BY RowStep
<1> USE Bounds DEF RunInv, HasNextRow, LoadedUnderWay, JumpTargets, Step, Goto,
                   flags, sequence, critical, waits, timers, robot
<1>1. CASE Execute          BY <1>1 DEF Execute
<1>2. CASE Load
  <2>1. 0 < Last
    BY DEF WellFormed
  <2>2. /\ loaded' /\ incStep' /\ currStep' = 0 /\ critStep' = 0 /\ threw' = FALSE
        /\ UNCHANGED <<backgroundLeft, moveToStep>>
    BY <1>2 DEF Load
  <2> QED BY <2>1, <2>2
<1>3. CASE Enter            BY <1>3 DEF Enter
<1>4. CASE Mark             BY <1>4 DEF Mark
<1>5. CASE CheckCrit
  <2>1. CASE CritDue
    <3>1. critStep - 1 < Last
      OBVIOUS
    <3> QED BY <1>5, <2>1, <3>1 DEF CheckCrit
  <2>2. CASE ~CritDue  BY <1>5, <2>2 DEF CheckCrit
  <2> QED BY <2>1, <2>2
<1>6. CASE CheckBackground
  <2>1. CASE BackgroundDue
    <3>1. moveToStep \in 1..Last
      BY <2>1 DEF BackgroundDue, Off
    <3>2. /\ currStep' = moveToStep - 1 /\ incStep' = TRUE /\ backgroundLeft' = Off
          /\ UNCHANGED <<loaded, critStep, moveToStep, threw>>
      <4>1. moveToStep # 0
        BY <3>1
      <4>2. /\ currStep' = moveToStep - 1 /\ backgroundLeft' = Off
            /\ UNCHANGED <<loaded, critStep, moveToStep, threw>>
        BY <1>6, <2>1, <4>1 DEF CheckBackground
      <4>3. incStep' = TRUE
        BY <1>6, <2>1, <4>1 DEF CheckBackground
      <4> QED BY <4>2, <4>3
    <3>3. currStep' < Last
      BY <3>1, <3>2
    <3> QED BY <3>2, <3>3
  <2>2. CASE ~BackgroundDue  BY <1>6, <2>2 DEF CheckBackground
  <2> QED BY <2>1, <2>2
<1>7. CASE Fetch
  <2>1. currStep \in Nat
    BY DEF RowInv, TypeOK, MaxStep
  <2> QED BY <1>7, <2>1 DEF Fetch, Readable
<1>8. CASE Refetch          BY <1>8 DEF Refetch
<1>9. CASE FetchThrows
  <2>1. ~loaded
    BY <1>9 DEF FetchThrows, Readable, RowInv, TypeOK, MaxStep
  <2> QED BY <1>9, <2>1 DEF FetchThrows
<1>10. CASE Commanding
  <2> USE DEF Perform
  <2>1. CASE DrivesOrder     BY <2>1 DEF DrivesOrder
  <2>2. CASE DrivesLift      BY <2>2 DEF DrivesLift
  <2>3. CASE MoveToLift      BY <2>3 DEF MoveToLift
  <2>4. CASE DrivesStop      BY <2>4, NotLast DEF DrivesStop
  <2>5. CASE HandOver        BY <2>5, NotLast DEF HandOver
  <2>6. CASE BallAcqToggle   BY <2>6, NotLast DEF BallAcqToggle
  <2>7. CASE ShooterToggle   BY <2>7, NotLast DEF ShooterToggle
  <2>9. CASE BackgroundDelay
    <3>1. CASE backgroundLeft = Off
      <4>1. Row.op = "BACKGROUND_DELAY" /\ ~incStep
        BY <2>9, RowOfCommand DEF BackgroundDelay, RowInv, PerformsUnderWay
      <4>2. Row.b \in 1..Last
        BY <4>1, WellFormedRow
      <4> QED BY <2>9, <3>1, <4>2, NotLast DEF BackgroundDelay
    <3>2. CASE backgroundLeft # Off
      BY <2>9, <3>2 DEF BackgroundDelay
    <3> QED BY <3>1, <3>2
  <2>10. CASE Delay          BY <2>10 DEF Delay
  <2>11. CASE Wait
    <3>1. currStep < Last /\ loaded /\ currStep > 0
      BY <2>11, NotLast DEF Wait, RowInv, PerformsUnderWay
    <3> QED BY <2>11, <3>1 DEF Wait
  <2>12. CASE SetCritStep
    <3>1. Row.op = "SETCRITSTEP" /\ ~incStep
      BY <2>12, RowOfCommand DEF SetCritStep, RowInv, PerformsUnderWay
    <3>2. Row.a \in 0..Last
      BY <3>1, WellFormedRow
    <3> QED BY <2>12, <3>2, NotLast DEF SetCritStep
  <2>13. CASE End
    BY <2>13 DEF End, AbortCommands, RowInv, PerformsUnderWay
  <2>14. CASE Hold
    BY <2>14 DEF Hold, RowInv, PerformsUnderWay
  <2>15. CASE Unknown
    <3>1. Row.op \in {"UNKNOWN", "READ_OK", "READ_FAILED"} /\ ~incStep
      BY <2>15, RowOfCommand DEF Unknown, RowInv, PerformsUnderWay
    <3> QED BY <3>1, WellFormedRow
  <2>16. CASE ShortRow
    <3>1. ~incStep /\ FetchedFrom(currCommand, Row) /\ currCommand \in RowOps
      BY <2>16 DEF ShortRow, RowInv, UnderWay, PerformsUnderWay, Row
    <3>2. Row.op = currCommand
      BY <2>16, <3>1 DEF ShortRow, FetchedFrom, RowOps, DriveOps
    <3> QED BY <2>16, <3>1, <3>2, WellFormedRow DEF ShortRow, ReadsRow
  <2> QED BY <1>10, <2>1, <2>2, <2>3, <2>4, <2>5, <2>6, <2>7, <2>9, <2>10, <2>11,
             <2>12, <2>13, <2>14, <2>15, <2>16 DEF Commanding
<1>11. CASE RobotThread
  BY <1>11 DEF RobotThread, SetRunAuto, TestAutoRun, RobotAborts, ClearAutoRun
<1>12. CASE DrivesPass       BY <1>12 DEF DrivesPass
<1>13. CASE MotionEnds       BY <1>13 DEF MotionEnds
<1>14. CASE DriverStation    BY <1>14 DEF DriverStation
<1>15. CASE Tick             BY <1>15 DEF Tick, RowInv, TypeOK, Off
<1>16. CASE UNCHANGED vars   BY <1>16 DEF vars
<1> QED BY <1>1, <1>2, <1>3, <1>4, <1>5, <1>6, <1>7, <1>8, <1>9, <1>10, <1>11, <1>12,
           <1>13, <1>14, <1>15, <1>16 DEF Next, AutonomousThread

LEMMA RunInvariant == ASSUME WellFormed PROVE Spec => []RunInv
<1>1. Init => RunInv
  BY RunInit
<1>2. RowInv /\ RunInv /\ [Next]_vars => RunInv'
  BY RunStep
<1> QED BY <1>1, <1>2, RowInvariant, PTL DEF Spec

\* A well-formed program makes no pass end in an exception, but for passes in an
\* autonomous mode entered before any program was loaded.
THEOREM NoPassThrows == Spec => []ThrowsOnlyUnloaded
<1>1. CASE WellFormed
  <2>1. RunInv => ThrowsOnlyUnloaded
    BY DEF RunInv, ThrowsOnlyUnloaded
  <2> QED BY <1>1, <2>1, RunInvariant, PTL
<1>2. CASE ~WellFormed
  BY <1>2, PTL DEF ThrowsOnlyUnloaded
<1> QED BY <1>1, <1>2

\* The background timer of a well-formed program always has a step to move to:
\* the branch "This should never happen" is not reached.
THEOREM TimerAlwaysHasTarget == Spec => []TimerHasTarget
<1>1. CASE WellFormed
  <2>1. RunInv => TimerHasTarget
    BY Bounds DEF RunInv, JumpTargets, TimerHasTarget
  <2> QED BY <1>1, <2>1, RunInvariant, PTL
<1>2. CASE ~WellFormed
  BY <1>2, PTL DEF TimerHasTarget
<1> QED BY <1>1, <1>2
===============================================================================
