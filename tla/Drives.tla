-------------------------------- MODULE Drives --------------------------------
(***************************************************************************)
(* The drive subsystem (Drives.java): the Drives thread, which runs        *)
(* execute() in a loop, and the operations other threads call on it.       *)
(*                                                                         *)
(* No field of Drives is protected by a lock, so every read or write of a  *)
(* field another thread also touches is a step of its own.  Reads and      *)
(* writes only the Drives thread makes are merged into the next such step. *)
(* Accesses are sequentially consistent (see README, "Memory model").      *)
(*                                                                         *)
(* Speeds and powers are abstracted to where they come from: "zero",       *)
(* "auto" (an autonomous motion), "joystick" or "check" (the test power of *)
(* the motor diagnostics).  Whether a motion has reached its target and    *)
(* whether the wheels have come to a stop depends on sensors and is left   *)
(* open.                                                                   *)
(***************************************************************************)
EXTENDS Naturals

CONSTANT Orders     \* the operations the Autonomous thread issues

MotionOrders == {"autoDriveDistance", "autoDrivePoint", "autoDriveCoordinate",
                 "moveToLift", "autoTurnToHeading", "autoTurnToAngle", "autoTurnLift"}

ASSUME OrdersAssumption == Orders \subseteq MotionOrders \cup {"stopDrives"}

VARIABLES
  driveState,       \* currentDriveState
  autoReady,
  wheels,           \* rightWantedSpeed, leftWantedSpeed
  setPower,         \* rightSetPower, leftSetPower
  motors,           \* what the front and the back motor pair were last set to
  isDiagnostic,
  diagnosticState,  \* currentDiagnosticState
  mode,             \* the control word of the driver station
  pc,               \* where each thread stands
  duty,             \* Drives thread: the case execute() switched to in this pass
  order             \* Autonomous thread: the operation it is inside

control == <<driveState, autoReady, wheels, setPower>>
bench   == <<motors, isDiagnostic, diagnosticState>>
vars    == <<control, bench, mode, pc, duty, order>>

DriveStates == {"STANDBY", "AUTO_DRIVE_DISTANCE", "AUTO_DRIVE_POINT", "AUTO_TURN",
                "AUTO_ABORT", "AUTO_STOP", "TELEOP", "DISABLED"}
MotionStates == {"AUTO_DRIVE_DISTANCE", "AUTO_DRIVE_POINT", "AUTO_TURN"}
DiagnosticStates == {"DONE", "TOP", "TOP_WAIT", "FRONT", "FRONT_WAIT", "BACK", "BACK_WAIT"}
Speeds == {"zero", "auto", "joystick"}
Powers == Speeds \cup {"check"}
Modes  == [enabled : BOOLEAN, control : {"auto", "teleop", "test"}]

Threads == {"Drives", "Autonomous"}
StopSteps  == {"stopClear", "stopEnter", "stopZero", "park", "report"}
DriveSteps == StopSteps \cup {"loop", "dispatch", "standby", "standbyDisabled",
               "standbyTeleop", "claim", "steer", "halt", "abort", "teleop",
               "disabled", "toDisabled", "toTeleop", "toStandby", "power", "motors"}
CallSteps  == StopSteps \cup {"idle", "clearFirst", "engage", "clearLast"}

TypeOK ==
  /\ driveState \in DriveStates
  /\ autoReady \in BOOLEAN
  /\ wheels \in Speeds
  /\ setPower \in Speeds
  /\ motors \in [{"front", "back"} -> Powers]
  /\ isDiagnostic \in BOOLEAN
  /\ diagnosticState \in DiagnosticStates
  /\ mode \in Modes
  /\ pc \in [Threads -> DriveSteps \cup CallSteps]
  /\ pc["Drives"] \in DriveSteps
  /\ pc["Autonomous"] \in CallSteps
  /\ duty \in DriveStates
  /\ order \in Orders \cup {"none"}

\* isAutoDone(): the test every motion order makes before it is accepted.
isAutoDone == driveState = "STANDBY" \/ autoReady

\* Orders that reset autoReady before they set the state, those that do it
\* after (autoDriveDistance, autoDrivePoint), and the one that never does.
ClearsFirst == {"autoDriveCoordinate", "moveToLift", "autoTurnToHeading", "autoTurnToAngle"}
ClearsLast  == {"autoDriveDistance", "autoDrivePoint"}

\* Mutant: the turns set no state.
OrderedStateUnset(o) ==
  IF o \in {"autoDriveDistance", "moveToLift"} THEN "AUTO_DRIVE_DISTANCE" ELSE "null"

OrderedState(o) ==
  IF o \in {"autoDriveDistance", "moveToLift"} THEN "AUTO_DRIVE_DISTANCE"
  ELSE IF o \in {"autoDrivePoint", "autoDriveCoordinate"} THEN "AUTO_DRIVE_POINT"
  ELSE "AUTO_TURN"

Goto(t, to) == pc' = [pc EXCEPT ![t] = to]

Step(t, from, to) == pc[t] = from /\ Goto(t, to)

\* Where a thread continues when stopDrives() returns to it.
Return(t) == Goto(t, IF t = "Drives" THEN "power" ELSE "idle")

Init ==
  /\ driveState = "STANDBY"
  /\ autoReady = TRUE
  /\ wheels = "zero"
  /\ setPower = "zero"
  /\ motors = [m \in {"front", "back"} |-> "zero"]
  /\ isDiagnostic = FALSE
  /\ diagnosticState = "DONE"
  /\ mode \in {m \in Modes : ~m.enabled}
  /\ pc = [t \in Threads |-> IF t = "Drives" THEN "loop" ELSE "idle"]
  /\ duty = "STANDBY"
  /\ order = "none"
-------------------------------------------------------------------------------
(***************************************************************************)
(* The Drives thread.                                                      *)
(***************************************************************************)

\* GenericSubsystem.run(): no pass is made while the robot is in test mode.
BeginPass ==
  /\ Step("Drives", "loop", "dispatch")
  /\ mode.control # "test"
  /\ UNCHANGED <<control, bench, mode, duty, order>>

\* Mutant: no case for AUTO_ABORT and AUTO_STOP.
CaseStepMotionsOnly(s) ==
  CASE s = "STANDBY"        -> "standby"
    [] s \in MotionStates   -> "claim"
    [] s = "TELEOP"         -> "teleop"
    [] s = "DISABLED"       -> "disabled"
    [] OTHER                -> "power"

CaseStep(s) ==
  CASE s = "STANDBY"        -> "standby"
    [] s \in MotionStates   -> "claim"
    [] s = "AUTO_ABORT"     -> "abort"
    [] s = "AUTO_STOP"      -> "stopClear"
    [] s = "TELEOP"         -> "teleop"
    [] s = "DISABLED"       -> "disabled"

Dispatch ==
  /\ Step("Drives", "dispatch", CaseStep(driveState))
  /\ duty' = driveState
  /\ UNCHANGED <<control, bench, mode, order>>

\* case STANDBY
StandbyReady ==
  /\ Step("Drives", "standby", "standbyDisabled")
  /\ autoReady' = TRUE
  /\ UNCHANGED <<driveState, wheels, setPower, bench, mode, duty, order>>

StandbyDisabled ==
  /\ Step("Drives", "standbyDisabled", IF mode.enabled THEN "standbyTeleop" ELSE "toDisabled")
  /\ UNCHANGED <<control, bench, mode, duty, order>>

StandbyTeleop ==
  /\ Step("Drives", "standbyTeleop", IF mode.control = "teleop" THEN "toTeleop" ELSE "power")
  /\ UNCHANGED <<control, bench, mode, duty, order>>

\* Mutant: the motion does not reset autoReady.
ClaimKeepsReady ==
  /\ Step("Drives", "claim", "steer")
  /\ UNCHANGED <<control, bench, mode, duty, order>>

\* case AUTO_DRIVE_DISTANCE, AUTO_DRIVE_POINT, AUTO_TURN
Claim ==
  /\ Step("Drives", "claim", "steer")
  /\ autoReady' = FALSE
  /\ UNCHANGED <<driveState, wheels, setPower, bench, mode, duty, order>>

\* driveDistance() and drivePoint() set the wheel speeds and then test whether
\* the target is reached; turn() tests first.
Steer ==
  /\ pc["Drives"] = "steer"
  /\ \/ /\ wheels' = "auto"
        /\ Goto("Drives", "power")
     \/ /\ wheels' = IF duty = "AUTO_TURN" THEN wheels ELSE "auto"
        /\ Goto("Drives", "halt")
  /\ UNCHANGED <<driveState, autoReady, setPower, bench, mode, duty, order>>

\* Mutant: a motion that has reached its target keeps the wheel speeds.
HaltKeepsWheels ==
  /\ Step("Drives", "halt", "park")
  /\ UNCHANGED <<control, bench, mode, duty, order>>

Halt ==
  /\ Step("Drives", "halt", "park")
  /\ wheels' = "zero"
  /\ UNCHANGED <<driveState, autoReady, setPower, bench, mode, duty, order>>

\* Mutant: abort() stops the motors but not the wanted speeds.
AbortKeepsWheels ==
  /\ Step("Drives", "abort", "toStandby")
  /\ setPower' = "zero"
  /\ motors' = [m \in {"front", "back"} |-> "zero"]
  /\ UNCHANGED <<driveState, autoReady, wheels, isDiagnostic, diagnosticState, mode, duty, order>>

\* case AUTO_ABORT: abort(), then the state.
Abort ==
  /\ Step("Drives", "abort", "toStandby")
  /\ wheels' = "zero"
  /\ setPower' = "zero"
  /\ motors' = [m \in {"front", "back"} |-> "zero"]
  /\ UNCHANGED <<driveState, autoReady, isDiagnostic, diagnosticState, mode, duty, order>>

\* case DISABLED
Disabled ==
  /\ Step("Drives", "disabled", "toStandby")
  /\ wheels' = "zero"
  /\ UNCHANGED <<driveState, autoReady, setPower, bench, mode, duty, order>>

\* The last write of the cases STANDBY, AUTO_ABORT and DISABLED, whatever
\* driveState has become since the switch read it.
WrittenState == [toDisabled |-> "DISABLED", toTeleop |-> "TELEOP", toStandby |-> "STANDBY"]

WriteState ==
  /\ pc["Drives"] \in DOMAIN WrittenState
  /\ driveState' = WrittenState[pc["Drives"]]
  /\ Goto("Drives", "power")
  /\ UNCHANGED <<autoReady, wheels, setPower, bench, mode, duty, order>>

\* diagnostics(): one stage of the motor test.  Each *_WAIT stage ends when 500
\* ms have passed, which is left open.
Diagnostics ==
  \/ /\ diagnosticState \in {"TOP_WAIT", "FRONT_WAIT", "BACK_WAIT"}
     /\ UNCHANGED <<motors, diagnosticState>>
  \/ /\ diagnosticState = "DONE"
     /\ motors' = [m \in {"front", "back"} |-> "zero"]
     /\ UNCHANGED diagnosticState
  \/ /\ diagnosticState = "TOP"
     /\ diagnosticState' = "TOP_WAIT"
     /\ UNCHANGED motors
  \/ /\ diagnosticState = "TOP_WAIT"
     /\ diagnosticState' = "FRONT"
     /\ UNCHANGED motors
  \/ /\ diagnosticState = "FRONT"
     /\ diagnosticState' = "FRONT_WAIT"
     /\ motors' = [motors EXCEPT !["front"] = "check"]
  \/ /\ diagnosticState = "FRONT_WAIT"
     /\ diagnosticState' = "BACK"
     /\ motors' = [motors EXCEPT !["front"] = "zero"]
  \/ /\ diagnosticState = "BACK"
     /\ diagnosticState' = "BACK_WAIT"
     /\ motors' = [motors EXCEPT !["back"] = "check"]
  \/ /\ diagnosticState = "BACK_WAIT"
     /\ diagnosticState' = "DONE"
     /\ motors' = [motors EXCEPT !["back"] = "zero"]

\* case TELEOP: the diagnostics while XBOX_BACK is held, and the joysticks.
Teleop ==
  /\ Step("Drives", "teleop", "power")
  /\ \/ /\ isDiagnostic' = TRUE
        /\ Diagnostics
     \/ /\ isDiagnostic' = FALSE
        /\ diagnosticState' = "TOP"
        /\ UNCHANGED motors
  /\ wheels' = "joystick"
  /\ UNCHANGED <<driveState, autoReady, setPower, mode, duty, order>>

\* After the switch: the powers from the wanted speeds (open loop or PID), then
\* the motors, unless isDiagnostic leaves the motors to diagnostics().
ComputePower ==
  /\ Step("Drives", "power", "motors")
  /\ setPower' = IF isDiagnostic THEN setPower ELSE wheels
  /\ UNCHANGED <<driveState, autoReady, wheels, bench, mode, duty, order>>

\* Mutant: the motors are only set to a power other than zero.
SetMotorsNonzero ==
  /\ Step("Drives", "motors", "loop")
  /\ motors' = IF isDiagnostic \/ setPower = "zero" THEN motors
               ELSE [m \in {"front", "back"} |-> setPower]
  /\ UNCHANGED <<control, isDiagnostic, diagnosticState, mode, duty, order>>

SetMotors ==
  /\ Step("Drives", "motors", "loop")
  /\ motors' = IF isDiagnostic THEN motors ELSE [m \in {"front", "back"} |-> setPower]
  /\ UNCHANGED <<control, isDiagnostic, diagnosticState, mode, duty, order>>
-------------------------------------------------------------------------------
(***************************************************************************)
(* stopDrives(), run by the Autonomous thread (DRIVES_STOP) and by the     *)
(* Drives thread itself (case AUTO_STOP).                                  *)
(***************************************************************************)

StopClear(t) ==
  /\ Step(t, "stopClear", "stopEnter")
  /\ autoReady' = FALSE
  /\ UNCHANGED <<driveState, wheels, setPower, bench, mode, duty, order>>

StopEnter(t) ==
  /\ Step(t, "stopEnter", "stopZero")
  /\ driveState' = "AUTO_STOP"
  /\ UNCHANGED <<autoReady, wheels, setPower, bench, mode, duty, order>>

\* The speeds and powers, then the test whether the wheels stand still.
StopZero(t) ==
  /\ pc[t] = "stopZero"
  /\ wheels' = "zero"
  /\ setPower' = "zero"
  /\ Return(t) \/ Goto(t, "park")
  /\ UNCHANGED <<driveState, autoReady, bench, mode, duty, order>>

\* The end of stopDrives() and of every motion: the state, then autoReady.
Park(t) ==
  /\ Step(t, "park", "report")
  /\ driveState' = "STANDBY"
  /\ UNCHANGED <<autoReady, wheels, setPower, bench, mode, duty, order>>

Report(t) ==
  /\ pc[t] = "report"
  /\ autoReady' = TRUE
  /\ Return(t)
  /\ UNCHANGED <<driveState, wheels, setPower, bench, mode, duty, order>>
-------------------------------------------------------------------------------
(***************************************************************************)
(* Operations called by other threads.                                     *)
(***************************************************************************)

\* A motion order starts with the test of isAutoDone(); when it fails the order
\* returns false and nothing changes.
StartOrder(o) ==
  /\ o \in MotionOrders
  /\ isAutoDone
  /\ Step("Autonomous", "idle", IF o \in ClearsFirst THEN "clearFirst" ELSE "engage")
  /\ order' = o
  /\ UNCHANGED <<control, bench, mode, duty>>

StartStop ==
  /\ "stopDrives" \in Orders
  /\ Step("Autonomous", "idle", "stopClear")
  /\ order' = "stopDrives"
  /\ UNCHANGED <<control, bench, mode, duty>>

ClearFirst ==
  /\ Step("Autonomous", "clearFirst", "engage")
  /\ autoReady' = FALSE
  /\ UNCHANGED <<driveState, wheels, setPower, bench, mode, duty, order>>

Engage ==
  /\ Step("Autonomous", "engage", IF order \in ClearsLast THEN "clearLast" ELSE "idle")
  /\ driveState' = OrderedState(order)
  /\ UNCHANGED <<autoReady, wheels, setPower, bench, mode, duty, order>>

ClearLast ==
  /\ Step("Autonomous", "clearLast", "idle")
  /\ autoReady' = FALSE
  /\ UNCHANGED <<driveState, wheels, setPower, bench, mode, duty, order>>

\* abortAuto(), by the Autonomous thread between orders and by the Robot thread
\* at any time: one write.
AbortAuto ==
  /\ driveState' = "AUTO_ABORT"
  /\ UNCHANGED <<autoReady, wheels, setPower, bench, mode, pc, duty, order>>

\* The driver station (external): modes change while the robot is disabled.
DriverStation ==
  /\ mode' \in Modes
  /\ mode'.control = mode.control \/ ~mode.enabled
  /\ UNCHANGED <<control, bench, pc, duty, order>>
-------------------------------------------------------------------------------
DrivesThread ==
  \/ BeginPass \/ Dispatch \/ StandbyReady \/ StandbyDisabled \/ StandbyTeleop
  \/ Claim \/ Steer \/ Halt \/ Abort \/ Disabled \/ WriteState
  \/ Teleop \/ ComputePower \/ SetMotors

StopDrives(t) == StopClear(t) \/ StopEnter(t) \/ StopZero(t) \/ Park(t) \/ Report(t)

Caller ==
  \/ \E o \in Orders : StartOrder(o)
  \/ StartStop \/ ClearFirst \/ Engage \/ ClearLast

Next ==
  \/ DrivesThread \/ Caller
  \/ \E t \in Threads : StopDrives(t)
  \/ AbortAuto \/ DriverStation

Spec == Init /\ [][Next]_vars

\* Every thread that can take a step eventually does (the JVM schedules all of
\* them at the same priority and none blocks).
FairSpec ==
  /\ Spec
  /\ WF_vars(DrivesThread) /\ WF_vars(ClearFirst \/ Engage \/ ClearLast)
  /\ \A t \in Threads : WF_vars(StopDrives(t))
-------------------------------------------------------------------------------
(***************************************************************************)
(* What the drives promise, as long as nobody calls stopDrives() on them   *)
(* from another thread.                                                    *)
(***************************************************************************)

\* In STANDBY, and on the way through DISABLED, no wheel has a speed to hold:
\* whichever thread wrote the state last, and whatever state that write
\* overwrote, the robot does not go on driving with nobody in charge of it.
StandbyAtRest == driveState \in {"STANDBY", "DISABLED"} => wheels = "zero"

\* isAutoDone() never answers true to the sequencer while an autonomous motion
\* holds the wheels, although STANDBY sets autoReady at the same time as an
\* order clears it.
DoneMeansStill == isAutoDone => wheels # "auto"

\* A pass that finds the drives in STANDBY finds the motors off, except for
\* motors the diagnostics were testing when TELEOP was left.
StandbyMotorsOff ==
  pc["Drives"] \in {"loop", "dispatch"} /\ driveState = "STANDBY" /\ ~isDiagnostic
    => motors = [m \in {"front", "back"} |-> "zero"]

\* What a caller sees of all this is the contract: the answer of isAutoDone()
\* becomes true only at rest and is false when a motion takes the wheels, and
\* the joysticks never take them from a motion directly.
Contract == INSTANCE DrivesContract WITH done <- isAutoDone

HonoursContract == Contract!Spec

\* An abort of a running motion is honoured: the wheels are taken from the
\* motion unless the robot is put in test mode, where no pass is made.
\* It is stated for an abort that meets no order half issued.
AbortHonoured ==
  driveState = "AUTO_ABORT" /\ wheels = "auto" /\ pc["Autonomous"] = "idle"
    ~> wheels # "auto" \/ mode.control = "test"

\* So is a stop that found the wheels turning: a pass of execute() that was
\* under way may set the wheel speeds again, but a later one stops them.
StopHonoured ==
  driveState = "AUTO_STOP" /\ wheels = "auto" /\ pc["Autonomous"] = "idle"
    ~> wheels # "auto" \/ mode.control = "test"
-------------------------------------------------------------------------------
(***************************************************************************)
(* What comments in Drives.java say and the code does not do.              *)
(***************************************************************************)

\* "@return if the drives have actually stopped" (stopDrives): when it is about
\* to answer true, no wheel has a speed to hold.
StoppedMeansStopped == pc["Autonomous"] = "report" => wheels = "zero"
===============================================================================
