-------------------------------- MODULE BallAcq --------------------------------
(***************************************************************************)
(* The ball acquisition (BallAcq.java): two motors that acquire, or feed   *)
(* the shooter in a timed cycle that unjams itself, and the horizontal     *)
(* belt of the hopper.  The BallAcq thread acts on three states, which     *)
(* autoChanger() writes on the Autonomous thread; each access to one of    *)
(* them is a step of its own.  transport() is left out: nothing calls it.  *)
(***************************************************************************)
EXTENDS Integers, Sequences

CONSTANTS
  FullSpeed,   \* of the horizontal belt, in steps of BELT_RAMP
  Asks         \* what the sequencer asks of autoChanger()

ASSUME FullSpeedAssumption == FullSpeed \in Nat \ {0}

VARIABLES
  currentAcqStatus, currentBeltState, currentHorizontalBeltState,
  beltTimeOver,     \* is the time since startBeltTime over?
  wantedSpeed,      \* of the two motors: 1 acquires, -1 feeds
  wantedBeltSpeed,  \* of the horizontal belt
  mode, enabled,    \* the driver station's control word
  pc,               \* where the BallAcq thread stands
  todo,             \* the states its pass has still to write
  asked             \* what autoChanger() has still to write

states == <<currentAcqStatus, currentBeltState, currentHorizontalBeltState>>
motors == <<wantedSpeed, wantedBeltSpeed>>
vars   == <<states, beltTimeOver, motors, mode, enabled, pc, todo, asked>>

State               == {"STANDBY", "FORWARD", "BACKWARD", "SHOOTING"}
BeltState           == {"FORWARD", "FORWARD_WAIT", "REVERSE", "REVERSE_WAIT", "STANDBY"}
HorizontalBeltState == {"RIGHT", "LEFT", "STANDBY"}
Modes               == {"auto", "teleop", "test"}

\* A write: which of the three states (the selector of autoChanger) becomes what.
Acq(s)   == [selector |-> 1, to |-> s]
Belt(s)  == [selector |-> 2, to |-> s]
Horiz(s) == [selector |-> 3, to |-> s]
Writes   == {Acq(s) : s \in State} \cup {Belt(s) : s \in BeltState}
              \cup {Horiz(s) : s \in HorizontalBeltState}

\* What autoChanger() can be told to write.
Selections == Writes \ {Belt("FORWARD_WAIT"), Belt("REVERSE_WAIT")}

ASSUME AsksAssumption == Asks \subseteq Selections

TypeOK ==
  /\ currentAcqStatus \in State
  /\ currentBeltState \in BeltState
  /\ currentHorizontalBeltState \in HorizontalBeltState
  /\ beltTimeOver \in BOOLEAN
  /\ wantedSpeed \in -1 .. 1
  /\ wantedBeltSpeed \in -(FullSpeed + 1) .. FullSpeed + 1
  /\ mode \in Modes /\ enabled \in BOOLEAN
  /\ pc \in {"loop", "status", "belt", "horizontal"}
  /\ todo \in Seq(Writes) /\ Len(todo) <= 3
  /\ asked \in Seq(Asks) /\ Len(asked) <= 1

Init ==
  /\ currentAcqStatus = "STANDBY" /\ currentBeltState = "STANDBY"
  /\ currentHorizontalBeltState = "STANDBY"
  /\ beltTimeOver = TRUE
  /\ wantedSpeed = 0 /\ wantedBeltSpeed = 0
  /\ mode \in Modes /\ enabled = FALSE
  /\ pc = "loop" /\ todo = <<>> /\ asked = <<>>

Perform(w) ==
  /\ currentAcqStatus' = IF w.selector = 1 THEN w.to ELSE currentAcqStatus
  /\ currentBeltState' = IF w.selector = 2 THEN w.to ELSE currentBeltState
  /\ currentHorizontalBeltState' =
       IF w.selector = 3 THEN w.to ELSE currentHorizontalBeltState
-------------------------------------------------------------------------------
(***************************************************************************)
(* The BallAcq thread: a pass of execute().  Its motors are set from the   *)
(* wanted speeds at its end, which no other thread reads in between.       *)
(***************************************************************************)

AllOff    == <<Acq("STANDBY"), Belt("STANDBY"), Horiz("STANDBY")>>
FeedRight == <<Acq("SHOOTING"), Belt("FORWARD"), Horiz("RIGHT")>>
FeedLeft  == <<Acq("SHOOTING"), Belt("REVERSE"), Horiz("LEFT")>>
AcqOn     == <<Acq("FORWARD"), Belt("STANDBY")>>

\* Mutant of SetAcqState: does not turn the horizontal belt off.
SetAcqStateLeavesBelt ==
  /\ pc = "loop" /\ mode # "test"
  /\ pc' = "status"
  /\ todo' \in IF ~enabled THEN {SubSeq(AllOff, 1, 2)}
               ELSE IF mode = "teleop" THEN {AcqOn, FeedRight, AllOff, FeedLeft, <<>>}
               ELSE {<<>>}
  /\ UNCHANGED <<states, beltTimeOver, motors, mode, enabled, asked>>

\* In teleop the POV, at most one direction of which has an edge, decides.
SetAcqState ==
  /\ pc = "loop" /\ mode # "test"
  /\ pc' = "status"
  /\ todo' \in IF ~enabled THEN {AllOff}
               ELSE IF mode = "teleop" THEN {AcqOn, FeedRight, AllOff, FeedLeft, <<>>}
               ELSE {<<>>}
  /\ UNCHANGED <<states, beltTimeOver, motors, mode, enabled, asked>>

WriteNext ==
  /\ todo # <<>>
  /\ Perform(Head(todo))
  /\ todo' = Tail(todo)
  /\ UNCHANGED <<beltTimeOver, motors, mode, enabled, pc, asked>>

ActOnStatus ==
  /\ pc = "status" /\ todo = <<>>
  /\ pc' = IF currentAcqStatus = "SHOOTING" THEN "belt" ELSE "horizontal"
  /\ wantedSpeed' = CASE currentAcqStatus = "STANDBY"  -> 0
                      [] currentAcqStatus = "FORWARD"  -> 1
                      [] currentAcqStatus = "BACKWARD" -> -1
                      [] OTHER -> wantedSpeed
  /\ UNCHANGED <<states, beltTimeOver, wantedBeltSpeed, mode, enabled, todo, asked>>

BeltSpeed ==
  CASE currentBeltState \in {"FORWARD", "FORWARD_WAIT"} -> -1
    [] currentBeltState \in {"REVERSE", "REVERSE_WAIT"} -> 1
    [] OTHER -> 0

\* Mutant of NextBeltState: goes on in reverse after the time in reverse.
ReverseAgain ==
  CASE currentBeltState = "FORWARD" -> <<Belt("FORWARD_WAIT")>>
    [] currentBeltState = "REVERSE" -> <<Belt("REVERSE_WAIT")>>
    [] currentBeltState \in {"FORWARD_WAIT", "REVERSE_WAIT"} /\ beltTimeOver ->
         <<Belt("REVERSE")>>
    [] OTHER -> <<>>

NextBeltState ==
  CASE currentBeltState = "FORWARD" -> <<Belt("FORWARD_WAIT")>>
    [] currentBeltState = "REVERSE" -> <<Belt("REVERSE_WAIT")>>
    [] currentBeltState = "FORWARD_WAIT" /\ beltTimeOver -> <<Belt("REVERSE")>>
    [] currentBeltState = "REVERSE_WAIT" /\ beltTimeOver -> <<Belt("FORWARD")>>
    [] OTHER -> <<>>

\* The cycle while shooting.  The state is written by the next step.
ActOnBelt ==
  /\ pc = "belt" /\ pc' = "horizontal"
  /\ wantedSpeed' = BeltSpeed
  /\ todo' = NextBeltState
  /\ beltTimeOver' = (beltTimeOver /\ currentBeltState \notin {"FORWARD", "REVERSE"})
  /\ UNCHANGED <<states, wantedBeltSpeed, mode, enabled, asked>>

\* Mutant of Ramp: never stops at full speed.
RampOn(speed) == {speed + 1}

\* A step of the ramp.  Whether the sum of FullSpeed steps is below full speed
\* depends on how the doubles were rounded.
Ramp(speed) ==
  CASE speed < FullSpeed -> {speed + 1}
    [] speed = FullSpeed -> {speed, speed + 1}
    [] OTHER -> {FullSpeed}

ActOnHorizontalBelt ==
  /\ pc = "horizontal" /\ todo = <<>>
  /\ pc' = "loop"
  /\ wantedBeltSpeed' \in
       CASE currentHorizontalBeltState = "STANDBY" -> {0}
         [] currentHorizontalBeltState = "LEFT"    -> {-s : s \in Ramp(-wantedBeltSpeed)}
         [] OTHER                                  -> Ramp(wantedBeltSpeed)
  /\ UNCHANGED <<states, beltTimeOver, wantedSpeed, mode, enabled, todo, asked>>
-------------------------------------------------------------------------------
(***************************************************************************)
(* The Autonomous thread, the driver station (external) and time.          *)
(***************************************************************************)

\* BALLACQ_TOGGLE: the sequencer acts in enabled autonomous mode.
AutoChanger ==
  /\ asked = <<>> /\ mode = "auto" /\ enabled
  /\ \E w \in Asks : asked' = <<w>>
  /\ UNCHANGED <<states, beltTimeOver, motors, mode, enabled, pc, todo>>

\* autoChanger() writes, wherever the BallAcq thread stands, or finds that the mode
\* has changed.
Change ==
  /\ asked # <<>>
  /\ \/ Perform(Head(asked))
     \/ mode # "auto" /\ UNCHANGED states
  /\ asked' = <<>>
  /\ UNCHANGED <<beltTimeOver, motors, mode, enabled, pc, todo>>

DriverStation ==
  /\ mode' \in Modes /\ enabled' \in BOOLEAN
  /\ UNCHANGED <<states, beltTimeOver, motors, pc, todo, asked>>

Tick ==
  /\ beltTimeOver' = TRUE
  /\ UNCHANGED <<states, motors, mode, enabled, pc, todo, asked>>
-------------------------------------------------------------------------------
BallAcqThread ==
  \/ SetAcqState \/ WriteNext \/ ActOnStatus \/ ActOnBelt \/ ActOnHorizontalBelt

Next == BallAcqThread \/ AutoChanger \/ Change \/ DriverStation \/ Tick

Spec == Init /\ [][Next]_vars

FairSpec == Spec /\ WF_vars(BallAcqThread) /\ WF_vars(Change) /\ WF_vars(Tick)
-------------------------------------------------------------------------------
(***************************************************************************)
(* Properties.                                                             *)
(***************************************************************************)

\* A disabled robot's belts and rollers come to rest and stay so, although a cycle
\* or an autoChanger() of the sequencer under way may still write a state after the
\* robot was disabled.
DisabledComesToRest ==
  <>[](~enabled /\ mode # "test") => <>[](wantedSpeed = 0 /\ wantedBeltSpeed = 0)

\* Feeding the shooter in autonomous mode does not jam: as long as nobody gives
\* another order the cycle keeps turning both ways.
CycleAlternates ==
  <>[](mode = "auto" /\ currentAcqStatus = "SHOOTING" /\ currentBeltState # "STANDBY"
        /\ asked = <<>>)
    => []<>(wantedSpeed = -1) /\ []<>(wantedSpeed = 1)
===============================================================================
