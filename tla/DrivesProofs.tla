----------------------------- MODULE DrivesProofs -----------------------------
(***************************************************************************)
(* Theorems about Drives, for every set of orders the Autonomous thread    *)
(* issues.  The invariants other than type correctness assume that it      *)
(* never issues stopDrives: with it they are false (see the README).       *)
(***************************************************************************)
EXTENDS Drives, TLAPS

\* Steps the Drives thread is in only while it runs stopDrives().
OnlyStopping == {"stopClear", "stopEnter", "stopZero"}

\* Without stopDrives nothing ever gets into AUTO_STOP.
NeverStopping ==
  /\ driveState # "AUTO_STOP"
  /\ pc["Drives"] \notin OnlyStopping
  /\ pc["Autonomous"] \notin StopSteps

\* Nobody but the Drives thread writes STANDBY or DISABLED, so a pass that
\* found another state and has not written yet still sees another state.
Busy == {"claim", "steer", "halt", "teleop"}
BusyNotStandby == pc["Drives"] \in Busy => driveState \notin {"STANDBY", "DISABLED"}

\* A pass that will write STANDBY, TELEOP or DISABLED has no wheel speed, and
\* so has a pass in the case STANDBY.
AtRestSteps == {"standby", "standbyDisabled", "standbyTeleop", "park", "report"}
                 \cup DOMAIN WrittenState
ParkingAtRest == pc["Drives"] \in AtRestSteps => wheels = "zero"

\* A pass that is about to set the wheel speeds of a motion, or has set them,
\* has reset autoReady.
MovingNotReady == pc["Drives"] \in {"steer", "halt"} \/ wheels = "auto" => ~autoReady

\* Powers computed in STANDBY are zero.
StandbyPowerOff ==
  pc["Drives"] = "motors" /\ driveState = "STANDBY" /\ ~isDiagnostic => setPower = "zero"

\* Neither does anybody else write TELEOP: it is not entered during a motion.
TeleopNotMoving ==
  /\ pc["Drives"] \in {"claim", "steer", "halt"} => driveState # "TELEOP"
  /\ driveState = "TELEOP" \/ pc["Drives"] = "teleop" => wheels # "auto"

RestInv ==
  /\ TypeOK
  /\ NeverStopping
  /\ StandbyAtRest
  /\ BusyNotStandby
  /\ ParkingAtRest
  /\ MovingNotReady
  /\ TeleopNotMoving
  /\ StandbyPowerOff
  /\ StandbyMotorsOff
-------------------------------------------------------------------------------
(***************************************************************************)
(* Type correctness.                                                       *)
(***************************************************************************)

LEMMA ReturnType ==
  ASSUME TypeOK, NEW t \in Threads, Return(t)
  PROVE  /\ pc' \in [Threads -> DriveSteps \cup CallSteps]
         /\ pc'["Drives"] \in DriveSteps
         /\ pc'["Autonomous"] \in CallSteps
  BY DEF TypeOK, Return, Goto, Threads, DriveSteps, CallSteps

LEMMA TypeInit == Init => TypeOK
  BY DEF Init, TypeOK, DriveStates, Speeds, Powers, DiagnosticStates, Modes, Threads,
         DriveSteps, CallSteps

LEMMA TypeStep == TypeOK /\ [Next]_vars => TypeOK'
<1> SUFFICES ASSUME TypeOK, [Next]_vars PROVE TypeOK'
  OBVIOUS
<1> USE DEF TypeOK, Step, Goto, Threads, DriveSteps, CallSteps, StopSteps,
            control, bench
<1>1. CASE DrivesThread
  <2>1. CASE BeginPass        BY <2>1 DEF BeginPass
  <2>2. CASE Dispatch
    <3>1. CaseStep(driveState) \in DriveSteps
      BY DEF CaseStep, DriveStates, MotionStates
    <3> QED BY <2>2, <3>1 DEF Dispatch
  <2>3. CASE StandbyReady     BY <2>3 DEF StandbyReady
  <2>4. CASE StandbyDisabled  BY <2>4 DEF StandbyDisabled
  <2>5. CASE StandbyTeleop    BY <2>5 DEF StandbyTeleop
  <2>6. CASE Claim            BY <2>6 DEF Claim
  <2>7. CASE Steer            BY <2>7 DEF Steer, Speeds
  <2>8. CASE Halt             BY <2>8 DEF Halt, Speeds
  <2>9. CASE Abort            BY <2>9 DEF Abort, Speeds, Powers
  <2>10. CASE Disabled        BY <2>10 DEF Disabled, Speeds
  <2>11. CASE WriteState      BY <2>11 DEF WriteState, WrittenState, DriveStates
  <2>12. CASE Teleop          BY ZenonT(40), <2>12 DEF Teleop, Diagnostics, DiagnosticStates, Speeds, Powers
  <2>13. CASE ComputePower    BY <2>13 DEF ComputePower
  <2>14. CASE SetMotors       BY <2>14 DEF SetMotors, Powers
  <2> QED BY <1>1, <2>1, <2>2, <2>3, <2>4, <2>5, <2>6, <2>7, <2>8, <2>9, <2>10,
             <2>11, <2>12, <2>13, <2>14 DEF DrivesThread
<1>2. CASE Caller
  <2>1. ASSUME NEW o \in Orders, StartOrder(o) PROVE TypeOK'
    BY <2>1 DEF StartOrder
  <2>2. CASE StartStop   BY <2>2 DEF StartStop
  <2>3. CASE ClearFirst  BY <2>3 DEF ClearFirst
  <2>4. CASE Engage      BY <2>4 DEF Engage, OrderedState, DriveStates
  <2>5. CASE ClearLast   BY <2>5 DEF ClearLast
  <2> QED BY <1>2, <2>1, <2>2, <2>3, <2>4, <2>5 DEF Caller
<1>3. ASSUME NEW t \in Threads, StopDrives(t) PROVE TypeOK'
  <2>1. CASE StopClear(t)  BY <2>1 DEF StopClear
  <2>2. CASE StopEnter(t)  BY <2>2 DEF StopEnter, DriveStates
  <2>3. CASE StopZero(t)
    <3>1. CASE Return(t)        BY <2>3, <3>1, ReturnType DEF StopZero, Speeds
    <3>2. CASE Goto(t, "park")  BY <2>3, <3>2 DEF StopZero, Speeds
    <3> QED BY <2>3, <3>1, <3>2 DEF StopZero
  <2>4. CASE Park(t)       BY <2>4 DEF Park, DriveStates
  <2>5. CASE Report(t)     BY <2>5, ReturnType DEF Report
  <2> QED BY <1>3, <2>1, <2>2, <2>3, <2>4, <2>5 DEF StopDrives
<1>4. CASE AbortAuto       BY <1>4 DEF AbortAuto, DriveStates
<1>5. CASE DriverStation   BY <1>5 DEF DriverStation
<1>6. CASE UNCHANGED vars  BY <1>6 DEF vars
<1> QED BY <1>1, <1>2, <1>3, <1>4, <1>5, <1>6 DEF Next

\* Every variable of Drives keeps its type, whatever the other threads call.
THEOREM TypeCorrect == Spec => []TypeOK
  BY TypeInit, TypeStep, PTL DEF Spec
-------------------------------------------------------------------------------
(***************************************************************************)
(* Rest: the strengthened invariant is inductive when stopDrives is not    *)
(* among the orders.                                                       *)
(***************************************************************************)

LEMMA RestInit == ASSUME Init PROVE RestInv
  BY TypeInit DEF Init, RestInv, NeverStopping, StandbyAtRest, BusyNotStandby, ParkingAtRest,
      MovingNotReady, TeleopNotMoving, StandbyPowerOff, StandbyMotorsOff, OnlyStopping, StopSteps, Threads,
      Busy, AtRestSteps, WrittenState

LEMMA RestStep ==
  ASSUME "stopDrives" \notin Orders, RestInv, [Next]_vars
  PROVE  RestInv'
<1>0. TypeOK'
  BY TypeStep DEF RestInv
<1> USE <1>0 DEF RestInv, NeverStopping, StandbyAtRest, BusyNotStandby, ParkingAtRest,
      MovingNotReady, TeleopNotMoving, StandbyPowerOff, StandbyMotorsOff, OnlyStopping, StopSteps, Threads,
      Busy, AtRestSteps, WrittenState, TypeOK, Step, Goto, control, bench
<1>1. CASE DrivesThread
  <2>1. CASE BeginPass        BY <2>1 DEF BeginPass
  <2>2. CASE Dispatch         BY <2>2 DEF Dispatch, CaseStep, DriveStates, MotionStates
  <2>3. CASE StandbyReady     BY <2>3 DEF StandbyReady
  <2>4. CASE StandbyDisabled  BY <2>4 DEF StandbyDisabled
  <2>5. CASE StandbyTeleop    BY <2>5 DEF StandbyTeleop
  <2>6. CASE Claim            BY <2>6 DEF Claim
  <2>7. CASE Steer            BY <2>7 DEF Steer
  <2>8. CASE Halt             BY <2>8 DEF Halt
  <2>9. CASE Abort            BY <2>9 DEF Abort
  <2>10. CASE Disabled        BY <2>10 DEF Disabled
  <2>11. CASE WriteState      BY <2>11 DEF WriteState
  <2>12. CASE Teleop          BY <2>12 DEF Teleop
  <2>13. CASE ComputePower    BY <2>13 DEF ComputePower
  <2>14. CASE SetMotors       BY <2>14 DEF SetMotors
  <2> QED BY <1>1, <2>1, <2>2, <2>3, <2>4, <2>5, <2>6, <2>7, <2>8, <2>9, <2>10,
             <2>11, <2>12, <2>13, <2>14 DEF DrivesThread
<1>2. CASE Caller
  <2>1. ASSUME NEW o \in Orders, StartOrder(o) PROVE RestInv'
    BY <2>1 DEF StartOrder
  <2>2. ~StartStop
    BY DEF StartStop
  <2>3. CASE ClearFirst  BY <2>3 DEF ClearFirst
  <2>4. CASE Engage      BY <2>4 DEF Engage, OrderedState
  <2>5. CASE ClearLast   BY <2>5 DEF ClearLast
  <2> QED BY <1>2, <2>1, <2>2, <2>3, <2>4, <2>5 DEF Caller
<1>3. ASSUME NEW t \in Threads, StopDrives(t) PROVE RestInv'
  <2>1. ~(StopClear(t) \/ StopEnter(t) \/ StopZero(t))
    BY DEF StopClear, StopEnter, StopZero
  <2>2. CASE Park(t)    BY <2>2 DEF Park
  <2>3. CASE Report(t)  BY <2>3 DEF Report, Return
  <2> QED BY <1>3, <2>1, <2>2, <2>3 DEF StopDrives
<1>4. CASE AbortAuto       BY <1>4 DEF AbortAuto
<1>5. CASE DriverStation   BY <1>5 DEF DriverStation
<1>6. CASE UNCHANGED vars  BY <1>6 DEF vars
<1> QED BY <1>1, <1>2, <1>3, <1>4, <1>5, <1>6 DEF Next

LEMMA RestInvariant == ASSUME "stopDrives" \notin Orders PROVE Spec => []RestInv
  BY RestInit, RestStep, PTL DEF Spec

\* Drives left in STANDBY are at rest, whatever the orders, aborts and mode
\* changes it took to get there.
THEOREM StandbyIsAtRest == ASSUME "stopDrives" \notin Orders PROVE Spec => []StandbyAtRest
<1>1. RestInv => StandbyAtRest
  BY DEF RestInv
<1> QED BY <1>1, RestInvariant, PTL

\* The answer "done" is never given while a motion holds the wheels.
THEOREM DoneIsStill == ASSUME "stopDrives" \notin Orders PROVE Spec => []DoneMeansStill
<1>1. RestInv => DoneMeansStill
  BY DEF RestInv, StandbyAtRest, MovingNotReady, DoneMeansStill, isAutoDone
<1> QED BY <1>1, RestInvariant, PTL

\* The motors are off when a pass finds STANDBY.
THEOREM StandbyIsOff == ASSUME "stopDrives" \notin Orders PROVE Spec => []StandbyMotorsOff
<1>1. RestInv => StandbyMotorsOff
  BY DEF RestInv
<1> QED BY <1>1, RestInvariant, PTL

\* Every step of the drives is a step of the contract their callers see, or
\* changes nothing in it.
LEMMA ContractStep ==
  ASSUME "stopDrives" \notin Orders, RestInv, [Next]_vars
  PROVE  [Contract!Next]_(Contract!vars)
<1> SUFFICES ASSUME ~UNCHANGED <<wheels, isAutoDone>> PROVE Contract!Next
  BY DEF Contract!vars
<1> USE DEF Contract!Next, Contract!Accept, Contract!Drive, Contract!Stop, Contract!Finish,
            Contract!Joystick, isAutoDone, RestInv, TypeOK, Step, Goto
<1>1. CASE StandbyReady
  BY <1>1 DEF StandbyReady, ParkingAtRest, AtRestSteps
<1>2. CASE Claim
  BY <1>2 DEF Claim
<1>3. CASE Steer
  <2>1. ~isAutoDone
    BY <1>3 DEF Steer, MovingNotReady, BusyNotStandby, Busy
  <2> QED BY <1>3, <2>1 DEF Steer
<1>4. CASE Halt     BY <1>4 DEF Halt
<1>5. CASE Abort    BY <1>5 DEF Abort
<1>6. CASE Disabled BY <1>6 DEF Disabled
<1>7. CASE WriteState
  BY <1>7 DEF WriteState, WrittenState, ParkingAtRest, AtRestSteps
<1>8. CASE Teleop
  BY <1>8 DEF Teleop, TeleopNotMoving
<1>9. ASSUME NEW t \in Threads, StopDrives(t) PROVE Contract!Next
  <2>1. ~(StopClear(t) \/ StopEnter(t) \/ StopZero(t))
    BY DEF StopClear, StopEnter, StopZero, NeverStopping, OnlyStopping, StopSteps, Threads
  <2>2. t = "Drives"
    BY <1>9, <2>1 DEF StopDrives, Park, Report, NeverStopping, StopSteps, Threads
  <2> QED BY <1>9, <2>1, <2>2 DEF StopDrives, Park, Report, ParkingAtRest, AtRestSteps
<1>10. CASE ClearFirst BY <1>10 DEF ClearFirst
<1>11. CASE Engage     BY <1>11 DEF Engage, OrderedState
<1>12. CASE ClearLast  BY <1>12 DEF ClearLast
<1>13. CASE AbortAuto  BY <1>13 DEF AbortAuto
<1>14. ~(BeginPass \/ Dispatch \/ StandbyDisabled \/ StandbyTeleop \/ ComputePower \/ SetMotors)
  BY DEF BeginPass, Dispatch, StandbyDisabled, StandbyTeleop, ComputePower, SetMotors, control
<1>15. ~(StartStop \/ DriverStation \/ UNCHANGED vars)
  BY DEF StartStop, DriverStation, vars, control
<1>16. ASSUME NEW o \in Orders, StartOrder(o) PROVE FALSE
  BY <1>16 DEF StartOrder, control
<1> QED BY <1>1, <1>2, <1>3, <1>4, <1>5, <1>6, <1>7, <1>8, <1>9, <1>10, <1>11, <1>12,
           <1>13, <1>14, <1>15, <1>16 DEF Next, DrivesThread, Caller

\* The drives implement their contract: "done" is answered again only at rest, a
\* motion takes the wheels only while it is not, and wheels go from a motion to
\* the joysticks through rest.
THEOREM DrivesKeepContract ==
  ASSUME "stopDrives" \notin Orders PROVE Spec => HonoursContract
<1>1. Init => Contract!Init
  BY DEF Init, Contract!Init, isAutoDone
<1>2. RestInv /\ [Next]_vars => [Contract!Next]_(Contract!vars)
  BY ContractStep
<1> QED BY <1>1, <1>2, RestInvariant, PTL DEF Spec, HonoursContract, Contract!Spec
===============================================================================
