----------------------------- MODULE MCAutonomous -----------------------------
(* Programs for TLC.  Times are scaled down to a few ticks. *)
EXTENDS Autonomous

Cmd(op, a, b) == [op |-> op, a |-> a, b |-> b, cols |-> Columns(op)]
Start == Cmd("READ_OK", 0, 0)
Rowed(seq) == [i \in 0..Last |-> seq[i + 1]]

\* TEN_BALL_BLUE (lines 128-142), the program the code loads, with one row for its
\* three BALLACQ_TOGGLE and none for those behind HOLD, which nothing reaches.
\* 10 s are two ticks and 0.5 s one.
TenBall ==
  Rowed(<<Start, Cmd("BACKGROUND_DELAY", 2, 5), Cmd("DRIVES_SETCOORDS", 0, 0),
          Cmd("SHOOTER_TOGGLE", 1, 0), Cmd("DELAY", 1, 0), Cmd("BALLACQ_TOGGLE", 1, 4),
          Cmd("SHOOTER_SETUP", 1, 0), Cmd("HOLD", 0, 0)>>)

\* Critical steps behind motions, a stop, a turn whose row lacks the mode (the
\* form of the example at line 461) and an unknown command, and nothing after
\* the last row.  The background timer moves the program back from wherever it
\* is, also in the pass in which the first critical step fires.
Stuck ==
  Rowed(<<Start, Cmd("BACKGROUND_DELAY", 1, 3), Cmd("SETCRITSTEP", 7, 1),
          Cmd("DRIVES_FORWARD", 0, 0), Cmd("DRIVES_LIFT", 0, 0), Cmd("DRIVES_STOP", 0, 0),
          [Cmd("DRIVES_TURN", 0, 0) EXCEPT !.cols = 3],
          Cmd("SETCRITSTEP", 9, 2), Cmd("UNKNOWN", 0, 0), Cmd("SHOOTER_SETUP", 0, 0)>>)
===============================================================================
