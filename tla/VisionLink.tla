------------------------------ MODULE VisionLink ------------------------------
(***************************************************************************)
(* The link between the camera computer and the robot: the Vision thread   *)
(* (Vision.java), the listener of the network table                        *)
(* (VisionNetworkTable.java), the image data (SharedData.java), and the    *)
(* Shooter thread as it reads them.  Each access to shared data is a step. *)
(*                                                                         *)
(* A distance, an angle and a time are abstracted to the number of the     *)
(* image they come from; 0 is no image, or a cleared time.  Images that    *)
(* the listener or setTarget() refuses change nothing and are left out, as *)
(* are the target's coordinates, which nothing reads.                      *)
(***************************************************************************)
EXTENDS Naturals, Sequences

CONSTANT MaxImages   \* bound on the images received

ASSUME MaxImagesAssumption == MaxImages \in Nat

VARIABLES
  targetType,      \* SharedData.targetType, written by four threads
  target, led,     \* of the Vision thread
  liftMode,        \* the mode last sent to the camera computer
  image,           \* of each target: distance, angle and time as stored
  received,        \* number of the last image
  storing,         \* what the listener has still to store of it
  aim,             \* the Shooter's angle, and the time that vouched for it
  mode,
  pc               \* where Vision and Shooter stand

vision == <<target, led, liftMode>>
images == <<image, received, storing>>
vars   == <<targetType, vision, images, aim, mode, pc>>

Target   == {"NONE", "BOILER", "LIFT"}
Targets  == Target \ {"NONE"}
Fields   == {"distance", "angle", "time"}
Modes    == {"auto", "teleop", "test"}
Numbers  == 0 .. MaxImages

TypeOK ==
  /\ targetType \in Target /\ target \in Target
  /\ led \in BOOLEAN /\ liftMode \in BOOLEAN
  /\ image \in [Targets -> [Fields -> Numbers]]
  /\ received \in Numbers
  /\ storing \in Seq(Targets \X Fields) /\ Len(storing) <= 3
  /\ aim \in [angle : Numbers, time : Numbers]
  /\ mode \in Modes
  /\ pc.Vision \in {"loop", "check", "led", "send", "take", "boiler", "lift"}
  /\ pc.Shooter \in {"loop", "angle"}

Init ==
  /\ targetType = "NONE" /\ target = "NONE"
  /\ led = FALSE /\ liftMode = FALSE
  /\ image = [t \in Targets |-> [f \in Fields |-> 0]]
  /\ received = 0 /\ storing = <<>>
  /\ aim = [angle |-> 0, time |-> 0]
  /\ mode \in Modes
  /\ pc = [Vision |-> "loop", Shooter |-> "loop"]

Step(thread, from, to) == pc[thread] = from /\ pc' = [pc EXCEPT ![thread] = to]
-------------------------------------------------------------------------------
(***************************************************************************)
(* The Vision thread: a pass of execute().                                 *)
(***************************************************************************)

\* Under operator control two switches choose between the boiler and nothing.
OperatorTarget ==
  /\ Step("Vision", "loop", "check")
  /\ mode # "test"
  /\ targetType' \in IF mode = "teleop" THEN {"BOILER", "NONE"} ELSE {targetType}
  /\ UNCHANGED <<vision, images, aim, mode>>

CheckTarget ==
  /\ Step("Vision", "check", IF targetType # target THEN "led" ELSE "loop")
  /\ UNCHANGED <<targetType, vision, images, aim, mode>>

SetLed ==
  /\ Step("Vision", "led", "send")
  /\ led' = (targetType # "NONE")
  /\ UNCHANGED <<targetType, target, liftMode, images, aim, mode>>

ServerUpdate ==
  /\ Step("Vision", "send", "take")
  /\ liftMode' = (targetType = "LIFT")
  /\ UNCHANGED <<targetType, target, led, images, aim, mode>>

\* Mutant of TakeTarget: only remembers a target it is to look for.
TakeTargetNotNone ==
  /\ Step("Vision", "take", "boiler")
  /\ target' = IF targetType = "NONE" THEN target ELSE targetType
  /\ UNCHANGED <<targetType, led, liftMode, images, aim, mode>>

TakeTarget ==
  /\ Step("Vision", "take", "boiler")
  /\ target' = targetType
  /\ UNCHANGED <<targetType, led, liftMode, images, aim, mode>>

ClearImageData(t) ==
  image' = IF target = t THEN image ELSE [image EXCEPT ![t].time = 0]

ClearBoiler ==
  /\ Step("Vision", "boiler", "lift")
  /\ ClearImageData("BOILER")
  /\ UNCHANGED <<targetType, vision, received, storing, aim, mode>>

ClearLift ==
  /\ Step("Vision", "lift", "loop")
  /\ ClearImageData("LIFT")
  /\ UNCHANGED <<targetType, vision, received, storing, aim, mode>>
-------------------------------------------------------------------------------
(***************************************************************************)
(* The listener of the network table, on a thread of the library.          *)
(***************************************************************************)

\* Mutant of SetTargetOrder: the boiler's time is stored before its angle.
TimeFirst(t) == << <<t, "distance">>, <<t, "time">>, <<t, "angle">> >>

\* The order in which setTarget() stores an image.
SetTargetOrder(t) ==
  IF t = "BOILER"
  THEN << <<t, "distance">>, <<t, "angle">>, <<t, "time">> >>
  ELSE << <<t, "angle">>, <<t, "time">>, <<t, "distance">> >>

\* Mutant of valueChanged: takes an image before the last one is stored.
ValueChangedReenters ==
  /\ received < MaxImages
  /\ received' = received + 1
  /\ \E t \in Targets : storing' = storing \o SetTargetOrder(t)
  /\ UNCHANGED <<targetType, vision, image, aim, mode, pc>>

\* An image of either target: the camera computer may not know the mode yet.
valueChanged ==
  /\ storing = <<>> /\ received < MaxImages
  /\ received' = received + 1
  /\ \E t \in Targets : storing' = SetTargetOrder(t)
  /\ UNCHANGED <<targetType, vision, image, aim, mode, pc>>

SetTarget ==
  /\ storing # <<>>
  /\ image' = [image EXCEPT ![Head(storing)[1]][Head(storing)[2]] = received]
  /\ storing' = Tail(storing)
  /\ UNCHANGED <<targetType, vision, received, aim, mode, pc>>
-------------------------------------------------------------------------------
(***************************************************************************)
(* The Shooter thread aims; others choose the target and the mode.         *)
(***************************************************************************)

\* In autonomous mode the turret follows an image only while it is less than three
\* seconds old, which one that was cleared never is.
GetImageTime ==
  /\ Step("Shooter", "loop", "angle")
  /\ mode # "test"
  /\ mode = "auto" => image["BOILER"].time # 0
  /\ aim' = [aim EXCEPT !.time = IF mode = "auto" THEN image["BOILER"].time ELSE 0]
  /\ UNCHANGED <<targetType, vision, images, mode>>

Aim ==
  /\ Step("Shooter", "angle", "loop")
  /\ aim' = [aim EXCEPT !.angle = image["BOILER"].angle]
  /\ UNCHANGED <<targetType, vision, images, mode>>

\* The shooter's edges choose BOILER or NONE, the sequencer LIFT or NONE.
ChooseTarget ==
  /\ targetType' \in Target
  /\ UNCHANGED <<vision, images, aim, mode, pc>>

\* External.
DriverStation ==
  /\ mode' \in Modes
  /\ UNCHANGED <<targetType, vision, images, aim, pc>>
-------------------------------------------------------------------------------
VisionThread ==
  \/ OperatorTarget \/ CheckTarget \/ SetLed \/ ServerUpdate \/ TakeTarget
  \/ ClearBoiler \/ ClearLift

Next ==
  \/ VisionThread \/ valueChanged \/ SetTarget \/ GetImageTime \/ Aim
  \/ ChooseTarget \/ DriverStation

Spec == Init /\ [][Next]_vars

FairSpec == Spec /\ WF_vars(VisionThread)
-------------------------------------------------------------------------------
(***************************************************************************)
(* Properties.                                                             *)
(***************************************************************************)

\* The turret is never turned by an image older than the one whose time let it
\* follow: the angle is stored before the time and read after it, although the
\* listener, Vision's clearing and the Shooter interleave.
AimVouchedFor == pc.Shooter = "loop" => aim.angle >= aim.time

\* A target that somebody chose and nobody replaced is taken by the Vision thread in
\* the end, whatever it was doing for the one before.
TargetTaken ==
  \A t \in Target :
    <>[](targetType = t /\ mode # "test") => <>[](target = t)
===============================================================================
