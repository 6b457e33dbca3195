-------------------------------- MODULE Shooter --------------------------------
(***************************************************************************)
(* The shooter (Shooter.java): the Shooter thread, which runs execute() in *)
(* a loop, and the operations the Autonomous and the Robot thread call on  *)
(* it.  As in Drives, every access to a field another thread also touches  *)
(* is a step of its own.                                                   *)
(*                                                                         *)
(* The wanted speed is the initial one or one somebody asked for, the      *)
(* program or the operator's buttons.  Whether the turret is on its target *)
(* and the wheel at its speed depends on sensors and is left open, and so  *)
(* is what the operator holds and how the diagnostics drive the flywheel;  *)
(* the turret angle and the shroud are left out.                           *)
(***************************************************************************)
CONSTANT Orders   \* what the Autonomous thread asks of the shooter

ASSUME OrdersAssumption ==
  Orders \subseteq {"toggleOn", "toggleOff", "fireOn", "fireOff", "end"}

VARIABLES
  isPressed, fireWhenReady, visionOff,  \* written by all three threads
  speed,          \* the speed for control without vision, as last written
  lastPressed, manualControl,
  fireOverride, ready,                  \* locals of a pass
  flywheel,       \* has its motor power?
  feeder,
  robotMode,      \* isAutonomous(), isOperatorControl() or isTest()
  standing        \* where each thread stands

switches    == <<isPressed, fireWhenReady, visionOff>>
pass        == <<lastPressed, manualControl, fireOverride, ready>>
outputs     == <<flywheel, feeder>>
shooterVars == <<switches, speed, pass, outputs, robotMode, standing>>

Callers        == {"Autonomous", "Robot"}
ShooterThreads == Callers \cup {"Shooter"}
Speeds         == {"initial", "asked"}
ShooterModes   == {"auto", "teleop", "test"}

PassSteps == {"loop", "controls", "noVision", "press", "fire", "release", "unfire",
              "edge", "speed", "keep", "turret", "wheel",
              "control", "adjust", "feed"}
CallSteps == {"idle", "askSpeed", "askPressed", "askVision", "offPressed",
              "abortPressed", "abortVision"}
AbortSteps == {"idle", "abortPressed", "abortVision"}
Overriding == {"edge", "speed", "keep", "turret", "wheel", "control", "adjust", "feed"}
Readied    == {"wheel", "control", "adjust", "feed"}

\* The wanted speed is the initial one or one asked for, never one worked out from a
\* distance.  What a pass has found out lasts to its end: the override and the
\* readiness of one pass never reach the next.  Each thread stands in its own code,
\* the Robot thread in an abort or outside.
ShooterTypeOK ==
  /\ isPressed \in BOOLEAN /\ fireWhenReady \in BOOLEAN /\ visionOff \in BOOLEAN
  /\ speed \in Speeds
  /\ lastPressed \in BOOLEAN /\ manualControl \in BOOLEAN
  /\ fireOverride \in BOOLEAN /\ ready \in BOOLEAN
  /\ flywheel \in BOOLEAN /\ feeder \in BOOLEAN
  /\ robotMode \in ShooterModes
  /\ standing \in [ShooterThreads -> PassSteps \cup CallSteps]
  /\ standing["Shooter"] \in PassSteps
  /\ standing["Autonomous"] \in CallSteps /\ standing["Robot"] \in AbortSteps
  /\ fireOverride => standing["Shooter"] \in Overriding
  /\ ready => standing["Shooter"] \in Readied

ShooterGoto(t, to) == standing' = [standing EXCEPT ![t] = to]
Step(t, from, to) == standing[t] = from /\ ShooterGoto(t, to)

ShooterInit ==
  /\ isPressed = FALSE /\ fireWhenReady = FALSE /\ visionOff = FALSE
  /\ speed = "initial"
  /\ lastPressed = FALSE /\ manualControl = FALSE
  /\ fireOverride = FALSE /\ ready = FALSE
  /\ flywheel = FALSE /\ feeder = FALSE
  /\ robotMode \in ShooterModes
  /\ standing = [t \in ShooterThreads |-> IF t = "Shooter" THEN "loop" ELSE "idle"]
-------------------------------------------------------------------------------
(***************************************************************************)
(* The Shooter thread: a pass of execute().                                *)
(***************************************************************************)

\* The diagnostics, when their button is held, drive the flywheel.
BeginPass ==
  /\ Step("Shooter", "loop", "controls")
  /\ robotMode # "test"
  /\ flywheel' \in BOOLEAN
  /\ UNCHANGED <<switches, speed, pass, feeder, robotMode>>

\* In autonomous mode the switches are the program's.
Controls ==
  /\ Step("Shooter", "controls", CASE robotMode = "auto"   -> "edge"
                                   [] robotMode = "teleop" -> "noVision"
                                   [] OTHER                -> "release")
  /\ UNCHANGED <<switches, speed, pass, outputs, robotMode>>

TakeVision ==
  /\ Step("Shooter", "noVision", "press")
  /\ visionOff' = FALSE
  /\ UNCHANGED <<isPressed, fireWhenReady, speed, pass, outputs, robotMode>>

TakePress ==
  /\ Step("Shooter", "press", "fire")
  /\ isPressed' \in BOOLEAN
  /\ UNCHANGED <<fireWhenReady, visionOff, speed, pass, outputs, robotMode>>

\* The fire button, the override, and FLIP_BOILER_SHOT, which turns manual
\* control on and then starts at the initial speed.
TakeFire ==
  /\ Step("Shooter", "fire", "edge")
  /\ fireWhenReady' \in BOOLEAN
  /\ manualControl' \in BOOLEAN
  /\ fireOverride' \in BOOLEAN
  /\ speed' = IF manualControl' /\ ~manualControl THEN "initial" ELSE speed
  /\ UNCHANGED <<isPressed, visionOff, lastPressed, ready, outputs, robotMode>>

\* Neither autonomous nor operator control.
Release ==
  /\ Step("Shooter", "release", "unfire")
  /\ isPressed' = FALSE
  /\ UNCHANGED <<fireWhenReady, visionOff, speed, pass, outputs, robotMode>>

Unfire ==
  /\ Step("Shooter", "unfire", "edge")
  /\ fireWhenReady' = FALSE
  /\ manualControl' = FALSE
  /\ UNCHANGED <<isPressed, visionOff, speed, lastPressed, fireOverride, ready,
                 outputs, robotMode>>

\* Has isPressed changed?  It is read for the test and again for the branch, so
\* that a change in between takes the branch the other way.
Edge ==
  /\ Step("Shooter", "edge", IF lastPressed # isPressed THEN "speed" ELSE "turret")
  /\ UNCHANGED <<switches, speed, pass, outputs, robotMode>>

EdgeSpeed ==
  /\ Step("Shooter", "speed", "keep")
  /\ speed' = IF isPressed /\ ~manualControl THEN "initial" ELSE speed
  /\ UNCHANGED <<switches, pass, outputs, robotMode>>

\* Mutant of Keep: does not record the edge.
KeepForgets ==
  /\ Step("Shooter", "keep", "turret")
  /\ UNCHANGED <<switches, speed, pass, outputs, robotMode>>

Keep ==
  /\ Step("Shooter", "keep", "turret")
  /\ lastPressed' = isPressed
  /\ UNCHANGED <<switches, speed, manualControl, fireOverride, ready, outputs, robotMode>>

\* turretCtrl(): always ready under manual control or without vision.
Turret ==
  /\ Step("Shooter", "turret", "wheel")
  /\ ready' \in IF visionOff \/ manualControl THEN {TRUE} ELSE BOOLEAN
  /\ UNCHANGED <<switches, speed, lastPressed, manualControl, fireOverride,
                 outputs, robotMode>>

\* speedCtrl(): not pressed, the flywheel is stopped and not ready.
Wheel ==
  /\ Step("Shooter", "wheel", IF isPressed THEN "control" ELSE "feed")
  /\ flywheel' = (flywheel /\ isPressed)
  /\ ready' = (ready /\ isPressed)
  /\ UNCHANGED <<switches, speed, lastPressed, manualControl, fireOverride,
                 feeder, robotMode>>

\* The motor: left alone where the wheel is SPEED_ALLOWED_OFF under the speed exactly.
Power == flywheel' \in {flywheel, TRUE} /\ ready' \in {ready, FALSE}

\* Mutant of WheelControl: writes the speed for the distance over the wanted one.
WheelOverwrites ==
  /\ Step("Shooter", "control", "feed")
  /\ ~visionOff /\ ~manualControl
  /\ Power
  /\ speed' = "camera"
  /\ UNCHANGED <<switches, lastPressed, manualControl, fireOverride, feeder, robotMode>>

\* Pressed, the wheel is controlled to the speed for the distance,
WheelControl ==
  /\ Step("Shooter", "control", "feed")
  /\ ~visionOff /\ ~manualControl
  /\ Power
  /\ UNCHANGED <<switches, speed, lastPressed, manualControl, fireOverride, feeder, robotMode>>

\* or, without vision or under manual control, to the wanted one, which the operator's
\* buttons change by 25 first, in any mode.  It is read and written back: one the
\* program stores in between is lost.
Manual ==
  /\ Step("Shooter", "control", "adjust")
  /\ visionOff \/ manualControl
  /\ UNCHANGED <<switches, speed, pass, outputs, robotMode>>

Adjust ==
  /\ Step("Shooter", "adjust", "feed")
  /\ speed' \in {speed, "asked"}
  /\ Power
  /\ UNCHANGED <<switches, lastPressed, manualControl, fireOverride, feeder, robotMode>>

\* Mutant of Feed: starts the feeder and never stops it.
FeedKeepsOn ==
  /\ Step("Shooter", "feed", "loop")
  /\ feeder' = (feeder \/ (ready /\ fireWhenReady) \/ fireOverride)
  /\ ready' = FALSE /\ fireOverride' = FALSE
  /\ UNCHANGED <<switches, speed, lastPressed, manualControl, flywheel, robotMode>>

Feed ==
  /\ Step("Shooter", "feed", "loop")
  /\ feeder' = ((ready /\ fireWhenReady) \/ fireOverride)
  /\ ready' = FALSE /\ fireOverride' = FALSE
  /\ UNCHANGED <<switches, speed, lastPressed, manualControl, flywheel, robotMode>>
-------------------------------------------------------------------------------
(***************************************************************************)
(* Operations called by other threads.                                     *)
(***************************************************************************)

\* shooterSystemState(1, ...): outside autonomous mode it turns the shooter off.
ToggleOn ==
  /\ "toggleOn" \in Orders
  /\ Step("Autonomous", "idle", IF robotMode = "auto" THEN "askSpeed" ELSE "offPressed")
  /\ UNCHANGED <<switches, speed, pass, outputs, robotMode>>

\* shooterSystemState(0, ...)
ToggleOff ==
  /\ "toggleOff" \in Orders
  /\ Step("Autonomous", "idle", "offPressed")
  /\ UNCHANGED <<switches, speed, pass, outputs, robotMode>>

AskSpeed ==
  /\ Step("Autonomous", "askSpeed", "askPressed")
  /\ speed' = "asked"
  /\ UNCHANGED <<switches, pass, outputs, robotMode>>

SetPressed ==
  /\ standing["Autonomous"] \in {"askPressed", "offPressed"}
  /\ isPressed' = (standing["Autonomous"] = "askPressed")
  /\ ShooterGoto("Autonomous", "askVision")
  /\ UNCHANGED <<fireWhenReady, visionOff, speed, pass, outputs, robotMode>>

SetVision ==
  /\ Step("Autonomous", "askVision", "idle")
  /\ visionOff' \in BOOLEAN
  /\ UNCHANGED <<isPressed, fireWhenReady, speed, pass, outputs, robotMode>>

\* shooterSystemFire(): outside autonomous mode it stops firing.
FireOn ==
  /\ "fireOn" \in Orders
  /\ standing["Autonomous"] = "idle"
  /\ fireWhenReady' = (robotMode = "auto")
  /\ UNCHANGED <<isPressed, visionOff, speed, pass, outputs, robotMode, standing>>

FireOff ==
  /\ "fireOff" \in Orders
  /\ standing["Autonomous"] = "idle"
  /\ fireWhenReady' = FALSE
  /\ UNCHANGED <<isPressed, visionOff, speed, pass, outputs, robotMode, standing>>

\* abortCommands(), by AUTOEND and by setRunAuto(false).
Abort(t) ==
  /\ t = "Autonomous" => "end" \in Orders
  /\ Step(t, "idle", "abortPressed")
  /\ fireWhenReady' = FALSE
  /\ UNCHANGED <<isPressed, visionOff, speed, pass, outputs, robotMode>>

AbortPressed(t) ==
  /\ Step(t, "abortPressed", "abortVision")
  /\ isPressed' = FALSE
  /\ UNCHANGED <<fireWhenReady, visionOff, speed, pass, outputs, robotMode>>

AbortVision(t) ==
  /\ Step(t, "abortVision", "idle")
  /\ visionOff' = TRUE
  /\ UNCHANGED <<isPressed, fireWhenReady, speed, pass, outputs, robotMode>>

\* The driver station (external).
ShooterDriverStation ==
  /\ robotMode' \in ShooterModes
  /\ UNCHANGED <<switches, speed, pass, outputs, standing>>
-------------------------------------------------------------------------------
ShooterThread ==
  \/ BeginPass \/ Controls \/ TakeVision \/ TakePress \/ TakeFire \/ Release \/ Unfire
  \/ Edge \/ EdgeSpeed \/ Keep
  \/ Turret \/ Wheel \/ WheelControl \/ Manual \/ Adjust \/ Feed

UnderWay == AskSpeed \/ SetPressed \/ SetVision
AbortUnderWay(t) == AbortPressed(t) \/ AbortVision(t)

ShooterNext ==
  \/ ShooterThread
  \/ ToggleOn \/ ToggleOff \/ UnderWay \/ FireOn \/ FireOff
  \/ \E t \in Callers : Abort(t) \/ AbortUnderWay(t)
  \/ ShooterDriverStation

ShooterSpec == ShooterInit /\ [][ShooterNext]_shooterVars

ShooterFairSpec ==
  /\ ShooterSpec
  /\ WF_shooterVars(ShooterThread) /\ WF_shooterVars(UnderWay)
  /\ \A t \in Callers : WF_shooterVars(AbortUnderWay(t))
-------------------------------------------------------------------------------
(***************************************************************************)
(* Properties.                                                             *)
(***************************************************************************)

\* Once the program or an abort has stopped firing, the feeder stops too, whatever
\* the pass under way had read, unless firing is ordered again or the operator takes
\* over.  Once the shooting system is off, flywheel and feeder both come to a stop, also
\* where fireWhenReady is left set, unless the system is switched on again or the
\* operator takes over.
SwitchesObeyed ==
  /\ (robotMode = "auto" /\ ~fireWhenReady)
       ~> (~feeder \/ fireWhenReady \/ robotMode # "auto")
  /\ (robotMode = "auto" /\ ~isPressed)
       ~> ((~flywheel /\ ~feeder) \/ isPressed \/ robotMode # "auto")

\* A change of the switch made by another thread is recorded in the end, unless it
\* is taken back: no pass meets the same change as new for ever, which would put the
\* speed back and choose the camera's target again in each.
EdgeTakenUp ==
  (robotMode = "auto" /\ isPressed # lastPressed)
    ~> (isPressed = lastPressed \/ robotMode # "auto")
===============================================================================
