------------------------------- MODULE MCDrives -------------------------------
(* Values of Drives' constant for TLC. *)
EXTENDS Drives

\* One order per way of clearing autoReady and per kind of motion.
SomeMotions == {"autoDrivePoint", "autoTurnToAngle", "moveToLift", "autoTurnLift"}
MotionsAndStop == {"autoDrivePoint", "stopDrives"}
===============================================================================
