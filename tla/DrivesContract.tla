---------------------------- MODULE DrivesContract ----------------------------
(***************************************************************************)
(* What the drives promise to the threads that give them orders: only what *)
(* holds the wheels, and the answer of isAutoDone().  An order makes the   *)
(* answer false before a motion takes the wheels, it becomes true again    *)
(* only at rest, and a motion and the joysticks hand the wheels over       *)
(* through rest.                                                           *)
(***************************************************************************)

VARIABLES
  wheels,  \* "zero", "auto" (held by a motion) or "joystick"
  done     \* the answer of isAutoDone()

vars == <<wheels, done>>

Init == wheels = "zero" /\ done = TRUE

\* An order is taken, or a state left in which every order would be.
Accept == done' = FALSE /\ UNCHANGED wheels

Drive    == done = FALSE /\ wheels' = "auto" /\ UNCHANGED done
Stop     == wheels' = "zero" /\ UNCHANGED done
Finish   == wheels = "zero" /\ done' = TRUE /\ UNCHANGED wheels
Joystick == wheels # "auto" /\ wheels' = "joystick" /\ UNCHANGED done

Next == Accept \/ Drive \/ Stop \/ Finish \/ Joystick

Spec == Init /\ [][Next]_vars
===============================================================================
