------------------------------ MODULE Autonomous ------------------------------
(***************************************************************************)
(* The autonomous sequencer (Autonomous.java): a thread that steps through *)
(* a program of numbered commands while the robot is enabled in autonomous *)
(* mode, and setRunAuto(), by which the Robot thread (Robot.java) starts   *)
(* and stops it.  The two threads share runAuto, autoRun and the           *)
(* subsystems they command, without a lock; one step here is at most one   *)
(* access to what the other thread reads.  A pass of execute() is several  *)
(* steps, between which the mode may change and the Robot thread may run.  *)
(*                                                                         *)
(* Drives is seen as its callers see it, every operation one step; module  *)
(* Drives models what happens inside.  Of the shooter and the ball         *)
(* acquisition only what the sequencer last asked of them is kept.         *)
(*                                                                         *)
(* Time is kept relative: elapsed since autoStartTime, and the time left   *)
(* to waitTime and backgroundWaitTime.                                     *)
(***************************************************************************)
EXTENDS Integers

CONSTANTS
  Last,        \* index of the last row of the program
  Program,     \* currentAuto: row 0 tells whether the file was read
  Horizon      \* no time in the program is longer; elapsed stops counting there

DriveOps == {"DRIVES_FORWARD", "DRIVES_TURN", "DRIVES_MOVE"}
RowOps   == DriveOps \cup {"DRIVES_LIFT", "DRIVES_SETCOORDS", "DRIVES_STOP",
             "BALLACQ_TOGGLE", "SHOOTER_TOGGLE", "SHOOTER_SETUP", "SHOOTER_TURRET",
             "BACKGROUND_DELAY", "DELAY", "SETCRITSTEP", "AUTOEND", "HOLD",
             "UNKNOWN", "READ_OK", "READ_FAILED"}
Commands == RowOps \cup {"DRIVES_DONE", "WAITING"}

\* A row: the command, its first two parameters where they matter here (on/off, a
\* selector, a step or a time) and how many integers the row has.
Rows == [op : RowOps, a : Nat, b : Nat, cols : Nat \ {0}]

\* How many integers of its row a command reads.
Columns(op) ==
  IF op \in {"DRIVES_TURN", "DRIVES_MOVE"} THEN 4
  ELSE IF op \in {"DRIVES_FORWARD", "DRIVES_SETCOORDS", "BALLACQ_TOGGLE",
                  "BACKGROUND_DELAY", "SETCRITSTEP"} THEN 3
  ELSE IF op = "SHOOTER_TOGGLE" THEN 5
  ELSE IF op \in {"DRIVES_LIFT", "SHOOTER_SETUP", "SHOOTER_TURRET", "DELAY"} THEN 2
  ELSE 1

ASSUME ProgramAssumption ==
  /\ Last \in Nat /\ Horizon \in Nat
  /\ Program \in [0..Last -> Rows]
  /\ \A i \in 0..Last : LET row == Program[i] IN
       /\ row.op \in {"BACKGROUND_DELAY", "DELAY"} => row.a <= Horizon
       /\ row.op = "BACKGROUND_DELAY" => row.b <= Last + 1
       /\ row.op = "SETCRITSTEP" => row.a <= Last + 1 /\ row.b <= Horizon

VARIABLES
  pc,          \* where the Autonomous and the Robot thread stand
  mode,        \* the control word of the driver station
  phase,       \* Robot: the mode whose method was called last
  runAuto, autoRun,
  loaded,      \* currentAuto # null
  currStep, currCommand, incStep,
  critStep, critTime,          \* critTime since autoStartTime, or Off
  elapsed,                     \* time since autoStartTime
  waitLeft,                    \* until waitTime
  backgroundLeft, moveToStep,  \* until backgroundWaitTime has passed, or Off
  drives,      \* what Drives is doing
  shooter,     \* which of isPressed and fireWhenReady are set
  acq,         \* which motors of BallAcq were told to run
  targetType,  \* SharedData.targetType
  threw        \* whether the last pass ended in an exception

flags     == <<runAuto, autoRun>>
sequence  == <<loaded, currStep, currCommand, incStep>>
critical  == <<critStep, critTime>>
waits     == <<waitLeft, backgroundLeft, moveToStep>>
timers    == <<elapsed, waits>>
robot     == <<drives, shooter, acq, targetType>>
vars == <<pc, mode, phase, flags, sequence, critical, timers, robot, threw>>

Off == -1

\* A step counter that has run off the program stops counting here: no step a
\* row names is greater, so further counting makes no difference.
MaxStep == Last + 1

BallMotors == {1, 2, 3}  \* the acquisition, the belt, the horizontal belt
Threads == {"Autonomous", "Robot"}
Modes == [enabled : BOOLEAN, control : {"auto", "teleop"}]
DrivesStates == {"standby", "motion", "stopping", "abort", "teleop"}

TypeOK ==
  /\ pc \in [Threads -> {"loop", "enter", "mark", "crit", "background", "fetch",
                         "perform", "lift", "idle", "test", "abort", "clear"}]
  /\ mode \in Modes
  /\ phase \in {"disabled", "auto", "teleop"}
  /\ runAuto \in BOOLEAN /\ autoRun \in BOOLEAN
  /\ loaded \in BOOLEAN
  /\ currStep \in 0..MaxStep
  /\ currCommand \in Commands
  /\ incStep \in BOOLEAN
  /\ critStep \in 0..MaxStep /\ critTime \in Off..Horizon
  /\ elapsed \in 0..Horizon /\ waitLeft \in 0..Horizon
  /\ backgroundLeft \in Off..(Horizon + 1) /\ moveToStep \in 0..MaxStep
  /\ drives \in DrivesStates
  /\ shooter \subseteq {"isPressed", "fireWhenReady"}
  /\ acq \subseteq BallMotors
  /\ targetType \in {"NONE", "LIFT"}
  /\ threw \in BOOLEAN

Goto(t, to) == pc' = [pc EXCEPT ![t] = to]
Step(t, from, to) == pc[t] = from /\ Goto(t, to)

InAuto == mode.enabled /\ mode.control = "auto"

Init ==
  /\ pc = [t \in Threads |-> IF t = "Autonomous" THEN "loop" ELSE "idle"]
  /\ mode \in Modes
  /\ phase = "disabled"
  /\ runAuto = FALSE /\ autoRun = FALSE
  /\ loaded = FALSE
  /\ currStep = 0 /\ currCommand = "READ_OK" /\ incStep = TRUE
  /\ critStep = 0 /\ critTime = Off
  /\ elapsed = Horizon /\ waitLeft = 0
  /\ backgroundLeft = Off /\ moveToStep = 0
  /\ drives = "standby"
  /\ shooter = {} /\ acq = {} /\ targetType = "NONE"
  /\ threw = FALSE
-------------------------------------------------------------------------------
(***************************************************************************)
(* What the sequencer asks of the other subsystems.                        *)
(***************************************************************************)

\* isAutoDone(), and a motion order: refused while the drives are busy.
DrivesDone == drives \in {"standby", "teleop"}
OrderMotion == drives' = IF DrivesDone THEN "motion" ELSE drives

\* autoChanger(): subselector 1 stops the motor, 2 to 4 run it.
BallMotorsAfter(motor, sub) ==
  IF motor \notin BallMotors \/ sub \notin 1..(IF motor = 1 THEN 4 ELSE 3) THEN acq
  ELSE IF sub = 1 THEN acq \ {motor} ELSE acq \cup {motor}

\* abortCommands(), called by both threads: drives at rest stay ready for an
\* order, and BallAcq is not told anything.
AbortCommands ==
  /\ drives' = IF DrivesDone THEN "standby" ELSE "abort"
  /\ shooter' = {}
-------------------------------------------------------------------------------
(***************************************************************************)
(* The Autonomous thread: execute() and runAuto().                         *)
(***************************************************************************)

\* execute(): run a pass of the program, or, disabled in autonomous mode, load
\* it and start over.
Execute ==
  /\ InAuto /\ runAuto
  /\ Step("Autonomous", "loop", "enter")
  /\ threw' = FALSE
  /\ UNCHANGED <<mode, phase, flags, sequence, critical, timers, robot>>

\* Mutant of Load: forgets the target of the background timer, but not the timer.
LoadForgetsTarget ==
  /\ ~mode.enabled /\ mode.control = "auto"
  /\ pc["Autonomous"] = "loop"
  /\ loaded' = TRUE /\ currStep' = 0 /\ incStep' = TRUE
  /\ elapsed' = 0 /\ critTime' = Off /\ critStep' = 0 /\ moveToStep' = 0
  /\ threw' = FALSE
  /\ UNCHANGED <<pc, mode, phase, flags, currCommand, waitLeft, backgroundLeft, robot>>

Load ==
  /\ ~mode.enabled /\ mode.control = "auto"
  /\ pc["Autonomous"] = "loop"
  /\ loaded' = TRUE /\ currStep' = 0 /\ incStep' = TRUE
  /\ elapsed' = 0 /\ critTime' = Off /\ critStep' = 0
  /\ threw' = FALSE
  /\ UNCHANGED <<pc, mode, phase, flags, currCommand, waitLeft, backgroundLeft,
                 moveToStep, robot>>

\* runAuto() tests the mode once more, and not again in this pass.
Enter ==
  /\ Step("Autonomous", "enter", IF InAuto THEN "mark" ELSE "loop")
  /\ UNCHANGED <<mode, phase, flags, sequence, critical, timers, robot, threw>>

Mark ==
  /\ Step("Autonomous", "mark", "crit")
  /\ autoRun' = TRUE
  /\ UNCHANGED <<mode, phase, runAuto, sequence, critical, timers, robot, threw>>

\* The critical step, when its time has come and the program is not there yet.
CritDue == critTime # Off /\ elapsed >= critTime /\ currStep < critStep

\* Mutant of CheckCrit: moves to the critical step without ending the command
\* under way.
CritKeepsWaiting ==
  /\ Step("Autonomous", "crit", "background")
  /\ currStep' = IF CritDue THEN critStep - 1 ELSE currStep
  /\ critTime' = IF CritDue THEN Off ELSE critTime
  /\ UNCHANGED <<mode, phase, flags, loaded, currCommand, incStep, critStep, timers,
                 robot, threw>>

CheckCrit ==
  /\ Step("Autonomous", "crit", "background")
  /\ incStep'  = (incStep \/ CritDue)
  /\ currStep' = IF CritDue THEN critStep - 1 ELSE currStep
  /\ critTime' = IF CritDue THEN Off ELSE critTime
  /\ UNCHANGED <<mode, phase, flags, loaded, currCommand, critStep, timers, robot, threw>>

\* The background timer.
BackgroundDue == backgroundLeft = 0

\* Mutant of CheckBackground: jumps without ending the command under way.
JumpKeepsCommand ==
  /\ Step("Autonomous", "background", "fetch")
  /\ currStep' = IF BackgroundDue THEN moveToStep - 1 ELSE currStep
  /\ backgroundLeft' = IF BackgroundDue THEN Off ELSE backgroundLeft
  /\ UNCHANGED <<mode, phase, flags, loaded, currCommand, incStep, critical, elapsed,
                 waitLeft, moveToStep, robot, threw>>

\* Mutant of CheckBackground: does not reset the timer, which fires in every pass.
JumpKeepsTimer ==
  /\ Step("Autonomous", "background", "fetch")
  /\ currStep' = IF BackgroundDue THEN moveToStep - 1 ELSE currStep
  /\ incStep' = (incStep \/ BackgroundDue)
  /\ UNCHANGED <<mode, phase, flags, loaded, currCommand, critical, timers, robot, threw>>

CheckBackground ==
  /\ Step("Autonomous", "background", "fetch")
  /\ LET jump == BackgroundDue /\ moveToStep # 0
         lost == BackgroundDue /\ moveToStep = 0
     IN  /\ currStep' = IF jump THEN moveToStep - 1 ELSE currStep
         /\ incStep' = (incStep \/ jump)
         /\ currCommand' = IF lost THEN "AUTOEND" ELSE currCommand
  /\ backgroundLeft' = IF BackgroundDue THEN Off ELSE backgroundLeft
  /\ UNCHANGED <<mode, phase, flags, loaded, critical, elapsed, waitLeft, moveToStep,
                 robot, threw>>

\* The next row, when the last command is finished.
Readable == loaded /\ currStep + 1 <= Last

Fetch ==
  /\ Step("Autonomous", "fetch", "perform")
  /\ incStep /\ Readable
  /\ currStep' = currStep + 1
  /\ incStep' = FALSE
  /\ currCommand' = IF Program[0].op = "READ_FAILED" THEN "AUTOEND"
                    ELSE Program[currStep + 1].op
  /\ UNCHANGED <<mode, phase, flags, loaded, critical, timers, robot, threw>>

Refetch ==
  /\ Step("Autonomous", "fetch", "perform")
  /\ ~incStep
  /\ currCommand' = IF currStep > Last \/ Program[0].op = "READ_FAILED" THEN "AUTOEND"
                    ELSE currCommand
  /\ UNCHANGED <<mode, phase, flags, loaded, currStep, incStep, critical, timers, robot,
                 threw>>

\* There is no next row: the index is out of bounds (or currentAuto null), and
\* the exception leaves the pass before the test that would end the program.
FetchThrows ==
  /\ Step("Autonomous", "fetch", "loop")
  /\ incStep /\ ~Readable
  /\ currStep' = IF currStep < MaxStep THEN currStep + 1 ELSE currStep
  /\ threw' = TRUE
  /\ UNCHANGED <<mode, phase, flags, loaded, currCommand, incStep, critical, timers, robot>>
-------------------------------------------------------------------------------
(***************************************************************************)
(* The commands.  Each reads its parameters from row currStep, which has   *)
(* to be long enough.                                                      *)
(***************************************************************************)

Row == Program[currStep]

Perform(cmds) ==
  /\ Step("Autonomous", "perform", "loop")
  /\ currCommand \in cmds
  /\ UNCHANGED <<mode, phase, flags, loaded, currStep, elapsed, threw>>

ReadsRow == Row.cols >= Columns(currCommand)

DrivesOrder ==
  /\ Perform(DriveOps) /\ ReadsRow
  /\ OrderMotion
  /\ currCommand' = "DRIVES_DONE"
  /\ UNCHANGED <<incStep, critical, waits, shooter, acq, targetType>>

\* DRIVES_LIFT: the camera gets Timer.delay(3) to find the lift, inside the
\* pass, and only then the drives are told to move.
DrivesLift ==
  /\ Step("Autonomous", "perform", "lift")
  /\ currCommand = "DRIVES_LIFT"
  /\ targetType' = "LIFT"
  /\ UNCHANGED <<mode, phase, flags, sequence, critical, timers, drives, shooter, acq, threw>>

MoveToLift ==
  /\ Step("Autonomous", "lift", "loop")
  /\ ReadsRow
  /\ OrderMotion
  /\ currCommand' = "DRIVES_DONE"
  /\ UNCHANGED <<mode, phase, flags, loaded, currStep, incStep, critical, timers, shooter,
                 acq, targetType, threw>>

DrivesStop ==
  /\ Perform({"DRIVES_STOP"})
  /\ \/ drives' = "standby" /\ incStep' = TRUE
     \/ drives' = "stopping" /\ UNCHANGED incStep
  /\ UNCHANGED <<currCommand, critical, waits, shooter, acq, targetType>>

\* The commands that only hand something to a subsystem.
HandOver ==
  /\ Perform({"DRIVES_SETCOORDS", "SHOOTER_TURRET"}) /\ ReadsRow
  /\ incStep' = TRUE
  /\ UNCHANGED <<currCommand, critical, waits, robot>>

BallAcqToggle ==
  /\ Perform({"BALLACQ_TOGGLE"}) /\ ReadsRow
  /\ acq' = IF mode.control = "auto" THEN BallMotorsAfter(Row.a, Row.b) ELSE acq
  /\ incStep' = TRUE
  /\ UNCHANGED <<currCommand, critical, waits, drives, shooter, targetType>>

\* shooterSystemState() and shooterSystemFire() turn nothing on outside
\* autonomous mode.
ShooterToggle ==
  /\ Perform({"SHOOTER_TOGGLE", "SHOOTER_SETUP"}) /\ ReadsRow
  /\ LET switch == IF currCommand = "SHOOTER_TOGGLE" THEN "isPressed" ELSE "fireWhenReady"
     IN  shooter' = IF Row.a = 1 /\ mode.control = "auto" THEN shooter \cup {switch}
                                                          ELSE shooter \ {switch}
  /\ incStep' = TRUE
  /\ UNCHANGED <<currCommand, critical, waits, drives, acq, targetType>>

\* Only one background timer at a time: a second one ends the program.
BackgroundDelay ==
  /\ Perform({"BACKGROUND_DELAY"})
  /\ \/ /\ backgroundLeft = Off /\ ReadsRow
        /\ backgroundLeft' = Row.a + 1
        /\ moveToStep' = Row.b
        /\ incStep' = TRUE
        /\ UNCHANGED currCommand
     \/ /\ backgroundLeft # Off
        /\ currCommand' = "AUTOEND"
        /\ UNCHANGED <<incStep, backgroundLeft, moveToStep>>
  /\ UNCHANGED <<critical, waitLeft, robot>>

Delay ==
  /\ Perform({"DELAY"}) /\ ReadsRow
  /\ waitLeft' = Row.a
  /\ currCommand' = "WAITING"
  /\ UNCHANGED <<incStep, critical, backgroundLeft, moveToStep, robot>>

Wait ==
  /\ Perform({"DRIVES_DONE", "WAITING"})
  /\ incStep' = (incStep \/ IF currCommand = "WAITING" THEN waitLeft = 0 ELSE DrivesDone)
  /\ UNCHANGED <<currCommand, critical, waits, robot>>

\* Mutant of SetCritStep: counts the critical time from now instead of from the
\* start of the program.
SetCritStepFromNow ==
  /\ Perform({"SETCRITSTEP"}) /\ ReadsRow
  /\ critStep' = Row.a
  /\ critTime' = elapsed + Row.b
  /\ incStep' = TRUE
  /\ UNCHANGED <<currCommand, waits, robot>>

SetCritStep ==
  /\ Perform({"SETCRITSTEP"}) /\ ReadsRow
  /\ critStep' = Row.a
  /\ critTime' = Row.b
  /\ incStep' = TRUE
  /\ UNCHANGED <<currCommand, waits, robot>>

End ==
  /\ Perform({"AUTOEND"})
  /\ AbortCommands
  /\ incStep' = FALSE
  /\ targetType' = "NONE"
  /\ UNCHANGED <<currCommand, critical, waits, acq>>

\* Mutant of Hold: goes on to the next row.
HoldAdvances ==
  /\ Perform({"HOLD"})
  /\ incStep' = TRUE
  /\ UNCHANGED <<currCommand, critical, waits, robot>>

Hold ==
  /\ Perform({"HOLD"})
  /\ incStep' = FALSE
  /\ UNCHANGED <<currCommand, critical, waits, robot>>

Unknown ==
  /\ Perform({"UNKNOWN", "READ_OK", "READ_FAILED"})
  /\ incStep' = FALSE
  /\ currCommand' = "AUTOEND"
  /\ targetType' = "NONE"
  /\ UNCHANGED <<critical, waits, drives, shooter, acq>>

\* A row too short for its command: the exception leaves the pass with what the
\* command had done by then.
ShortRow ==
  /\ pc["Autonomous"] \in {"perform", "lift"}
  /\ pc["Autonomous"] = "perform" => currCommand # "DRIVES_LIFT"
  /\ currCommand \in RowOps /\ currCommand # "AUTOEND" /\ ~ReadsRow
  /\ currCommand = "BACKGROUND_DELAY" => backgroundLeft = Off
  /\ Goto("Autonomous", "loop")
  /\ backgroundLeft' = IF currCommand = "BACKGROUND_DELAY" /\ Row.cols = 2
                       THEN Row.a + 1 ELSE backgroundLeft
  /\ critStep' = IF currCommand = "SETCRITSTEP" /\ Row.cols = 2 THEN Row.a ELSE critStep
  /\ threw' = TRUE
  /\ UNCHANGED <<mode, phase, flags, sequence, critTime, elapsed, waitLeft, moveToStep, robot>>
-------------------------------------------------------------------------------
(***************************************************************************)
(* The Robot thread: SampleRobot calls the method of the current mode when *)
(* it is not the mode it called last, and each calls setRunAuto().         *)
(***************************************************************************)

CurrentPhase == IF mode.enabled THEN mode.control ELSE "disabled"

SetRunAuto ==
  /\ CurrentPhase # phase
  /\ Step("Robot", "idle", "test")
  /\ phase' = CurrentPhase
  /\ runAuto' = (CurrentPhase = "auto")
  /\ UNCHANGED <<mode, autoRun, sequence, critical, timers, robot, threw>>

TestAutoRun ==
  /\ Step("Robot", "test", IF ~runAuto /\ autoRun THEN "abort" ELSE "idle")
  /\ UNCHANGED <<mode, phase, flags, sequence, critical, timers, robot, threw>>

RobotAborts ==
  /\ Step("Robot", "abort", "clear")
  /\ AbortCommands
  /\ UNCHANGED <<mode, phase, flags, sequence, critical, timers, acq, targetType, threw>>

ClearAutoRun ==
  /\ Step("Robot", "clear", "idle")
  /\ autoRun' = FALSE
  /\ UNCHANGED <<mode, phase, runAuto, sequence, critical, timers, robot, threw>>
-------------------------------------------------------------------------------
(***************************************************************************)
(* The surroundings: the drives, the driver station, the time.             *)
(***************************************************************************)

\* The Drives thread handles an abort and a stop, and takes up the joysticks.
DrivesPass ==
  /\ \/ drives \in {"abort", "stopping"} /\ drives' = "standby"
     \/ drives = "standby" /\ mode = [enabled |-> TRUE, control |-> "teleop"]
        /\ drives' = "teleop"
  /\ UNCHANGED <<pc, mode, phase, flags, sequence, critical, timers, shooter, acq,
                 targetType, threw>>

\* A motion reaches its target, or never does (a robot can be stuck).
MotionEnds ==
  /\ drives = "motion" /\ drives' = "standby"
  /\ UNCHANGED <<pc, mode, phase, flags, sequence, critical, timers, shooter, acq,
                 targetType, threw>>

DriverStation ==
  /\ mode' \in Modes
  /\ mode'.control = mode.control \/ ~mode.enabled
  /\ UNCHANGED <<pc, phase, flags, sequence, critical, timers, robot, threw>>

Tick ==
  /\ elapsed'  = IF elapsed < Horizon THEN elapsed + 1 ELSE elapsed
  /\ waitLeft' = IF waitLeft > 0 THEN waitLeft - 1 ELSE waitLeft
  /\ backgroundLeft' = IF backgroundLeft > 0 THEN backgroundLeft - 1 ELSE backgroundLeft
  /\ UNCHANGED <<pc, mode, phase, flags, sequence, critical, moveToStep, robot, threw>>
-------------------------------------------------------------------------------
Commanding ==
  \/ DrivesOrder \/ DrivesLift \/ MoveToLift \/ DrivesStop \/ HandOver
  \/ BallAcqToggle \/ ShooterToggle \/ BackgroundDelay \/ Delay
  \/ Wait \/ SetCritStep \/ End \/ Hold \/ Unknown \/ ShortRow

AutonomousThread ==
  \/ Execute \/ Load \/ Enter \/ Mark \/ CheckCrit \/ CheckBackground
  \/ Fetch \/ Refetch \/ FetchThrows \/ Commanding

RobotThread == SetRunAuto \/ TestAutoRun \/ RobotAborts \/ ClearAutoRun

Next ==
  \/ AutonomousThread \/ RobotThread
  \/ DrivesPass \/ MotionEnds \/ DriverStation \/ Tick

Spec == Init /\ [][Next]_vars

\* The threads run and time passes.  Nothing says that a motion ends or that
\* the field stays in a mode.
FairSpec ==
  /\ Spec
  /\ WF_vars(AutonomousThread) /\ WF_vars(RobotThread) /\ WF_vars(DrivesPass)
  /\ WF_vars(Tick)
-------------------------------------------------------------------------------
(***************************************************************************)
(* Properties.                                                             *)
(***************************************************************************)

\* Whether a command was fetched from a row: a motion becomes DRIVES_DONE while
\* it is waited for, a delay WAITING, and anything may be cut short by AUTOEND.
FetchedFrom(cmd, row) ==
  \/ cmd = row.op
  \/ cmd = "DRIVES_DONE" /\ row.op \in DriveOps \cup {"DRIVES_LIFT"}
  \/ cmd = "WAITING" /\ row.op = "DELAY"
  \/ cmd = "AUTOEND"

\* A command takes its parameters from row currStep, and the critical step and
\* the background timer move currStep while a command is under way (lines
\* 279-298): the command performed is still always the one of that row.
ParametersMatch ==
  pc["Autonomous"] = "perform" /\ currCommand # "AUTOEND" =>
    currStep <= Last /\ FetchedFrom(currCommand, Program[currStep])

\* Programs that end in END or HOLD, with rows long enough, no unknown command,
\* and jumps to rows they have.
WellFormed ==
  /\ Last > 0
  /\ Program[0].op = "READ_OK"
  /\ Program[Last].op \in {"AUTOEND", "HOLD"}
  /\ \A i \in 1..Last : LET row == Program[i] IN
       /\ row.op \notin {"UNKNOWN", "READ_OK", "READ_FAILED"}
       /\ row.cols >= Columns(row.op)
       /\ row.op = "BACKGROUND_DELAY" => row.b \in 1..Last
       /\ row.op = "SETCRITSTEP" => row.a \in 0..Last

\* No pass of a well-formed program ends in an exception (the index at line 302,
\* the parameters at 321-424), wherever the critical step and the timer jump,
\* unless autonomous mode was entered before any program was loaded.
ThrowsOnlyUnloaded == WellFormed /\ threw => ~loaded

\* The background timer never fires without a step to move to: the branch that
\* logs "This should never happen" (line 294) is dead, even for a timer that
\* outlives the run that started it.
TimerHasTarget == WellFormed /\ backgroundLeft # Off => moveToStep # 0

\* The critical step has fired in this pass, and the background timer, due in the
\* same pass, is about to put an earlier step in its place (lines 282 and 292):
\* critTime is cleared already, so the critical step does not fire again.
Overruled ==
  /\ pc["Autonomous"] = "background"
  /\ critTime = Off /\ currStep = critStep - 1
  /\ BackgroundDue /\ moveToStep \in 1..(critStep - 1)

\* While autonomous mode lasts, an armed critical step is reached (line 22: "what
\* must happen if all else fails"), though a motion never ends, a row throws in
\* every pass or the background timer moves the program back before it or after
\* it; but not where the background timer fires in the very pass it fires in.
CritStepReached ==
  critTime # Off ~> currStep >= critStep \/ ~(InAuto /\ runAuto) \/ Overruled

\* A program without motions, left in autonomous mode, comes to its HOLD or END
\* and stays there, also after its background timer has moved it back.
ProgramSettles ==
  <>[](InAuto /\ runAuto /\ loaded) => <>[](currCommand \in {"HOLD", "AUTOEND"})
-------------------------------------------------------------------------------
(***************************************************************************)
(* What the program says of itself, and does not keep.                     *)
(***************************************************************************)

\* "Aborts active commands in other subsystems" (line 496): once setRunAuto(FALSE)
\* has returned and no pass is under way, no motion the program ordered goes on.
LeavingAborts ==
  ~runAuto /\ pc["Robot"] = "idle" /\ pc["Autonomous"] = "loop" => drives # "motion"
===============================================================================
