------------------------------- MODULE MCShooter -------------------------------
(* Values of Shooter's constant for TLC. *)
EXTENDS Shooter

AllOrders == {"toggleOn", "toggleOff", "fireOn", "fireOff", "end"}
===============================================================================
