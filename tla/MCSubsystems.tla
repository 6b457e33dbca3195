----------------------------- MODULE MCSubsystems -----------------------------
(* Parts of the robot's program that do not share state, run one at a time. *)
EXTENDS BallAcq, DriverStationControls, SubsystemThread, SpeedControl, CSVReader

VARIABLE part   \* the part that runs

allVars == <<part, vars, controlsVars, threadVars, speedVars, csvVars>>

\* A start and a stop of each kind that the cycle or the ramp can meet.
SomeAsks == {Acq("SHOOTING"), Belt("STANDBY"), Belt("FORWARD"), Horiz("LEFT")}

\* A subsystem that asks for two buttons, and one that only calls update().
MCWatches == [t \in Threads |-> IF t = "Shooter" THEN <<1, 2>> ELSE <<>>]
MCLapses  == {-3, 0, 1, 3, 4, 7}
MCSetPoints == {-1, 0, 3}

MCInit ==
  /\ part \in {"ballacq", "controls", "thread", "speed", "csv"}
  /\ Init /\ ControlsInit /\ ThreadInit /\ SpeedInit /\ CsvInit
  /\ part # "ballacq" => mode = "auto"
  /\ part # "thread" => logged /\ ~isTest
  /\ part # "csv" => lines = <<>>

MCNext ==
  /\ UNCHANGED part
  /\ \/ part = "ballacq" /\ Next
        /\ UNCHANGED <<controlsVars, threadVars, speedVars, csvVars>>
     \/ part = "controls" /\ ControlsNext
        /\ UNCHANGED <<vars, threadVars, speedVars, csvVars>>
     \/ part = "thread" /\ ThreadNext
        /\ UNCHANGED <<vars, controlsVars, speedVars, csvVars>>
     \/ part = "speed" /\ SpeedPass
        /\ UNCHANGED <<vars, controlsVars, threadVars, csvVars>>
     \/ part = "csv" /\ CsvNext
        /\ UNCHANGED <<vars, controlsVars, threadVars, speedVars>>

\* The fairness of each part, while it runs.
MCFairness ==
  /\ WF_vars(part = "ballacq" /\ BallAcqThread)
  /\ WF_vars(part = "ballacq" /\ Change)
  /\ WF_vars(part = "ballacq" /\ Tick)
  /\ WF_controlsVars(part = "controls" /\ Announce)
  /\ \A t \in Threads : WF_controlsVars(part = "controls" /\ ControlsThread(t))

MCSpec == MCInit /\ [][MCNext]_allVars /\ MCFairness

\* What must hold of the parts at any time: their types, and for the loop of a thread,
\* the speed control and the reader of programs what their modules say.
SubsystemsSound == TypeOK /\ ControlsTypeOK /\ ThreadTypeOK /\ ThreadSound /\ SpeedSound /\ CsvSound
===============================================================================
