------------------------- MODULE DriverStationControls -------------------------
(***************************************************************************)
(* Buttons and POV (DriverStationControls.java).  Every subsystem's pass   *)
(* begins with update(), which compares each input with its value of the   *)
(* last update and records the time it was pressed; all of that is static, *)
(* so the threads race through one record.  A pass then asks whether the   *)
(* inputs of its own were pressed since it last asked.  Buttons and POV    *)
(* are handled alike, and each input is asked for by one subsystem.  Times *)
(* of release are left out: nobody calls getButtonFalling().               *)
(***************************************************************************)
EXTENDS Naturals, Sequences

CONSTANTS
  Inputs,      \* how many buttons and POV directions there are
  Threads,     \* the subsystems
  Watches,     \* the inputs each subsystem asks for, in the order of its else-ifs
  MaxPackets   \* how many packets the driver station sends

ASSUME InputsAssumption == Inputs \in Nat \ {0} /\ MaxPackets \in Nat
\* A pass asks for an input at most once.
ASSUME WatchesAssumption ==
  Watches \in [Threads -> Seq(1 .. Inputs)] /\ \A t \in Threads : Len(Watches[t]) <= Inputs

VARIABLES
  held,          \* the inputs held in the last packet (external)
  announced,     \* is the packet told to update(), by isNewControlData()?
  packets,       \* how many packets have come
  now,           \* the system clock: it moves on by one a packet, or is set back
  lastValues,    \* buttonLastValues, POVLastValues
  risingTime,    \* buttonDataGlobal, POVDataGlobal: when each was last pressed
  seenTime,      \* buttonData, POVData of the subsystem that asks
  newData,       \* the flag that isNewControlData() takes
  at, cursor,    \* where each thread stands, and at which input
  bValue, stamp, \* its locals
  due            \* history: the presses that their subsystem is still to be told

controlsVars == <<held, announced, packets, now, lastValues, risingTime, seenTime, newData, at,
                  cursor, bValue, stamp, due>>

Times == 0 .. MaxPackets

ControlsTypeOK ==
  /\ held \in [1 .. Inputs -> BOOLEAN] /\ lastValues \in [1 .. Inputs -> BOOLEAN]
  /\ announced \in BOOLEAN /\ newData \in BOOLEAN
  /\ packets \in Times /\ now \in 0 .. packets
  /\ risingTime \in [1 .. Inputs -> Times] /\ seenTime \in [1 .. Inputs -> Times]
  /\ at \in [Threads -> {"loop", "read", "compare", "record", "remember", "ask", "take"}]
  /\ cursor \in [Threads -> 1 .. Inputs + 1]
  /\ bValue \in [Threads -> BOOLEAN] /\ stamp \in [Threads -> Times]
  /\ due \in [1 .. Inputs -> BOOLEAN]

\* The constructors take the inputs as they are, before any thread runs.
ControlsInit ==
  /\ held = [i \in 1 .. Inputs |-> FALSE] /\ lastValues = held
  /\ announced = TRUE /\ newData = FALSE /\ packets = 0 /\ now = 0
  /\ risingTime = [i \in 1 .. Inputs |-> 0] /\ seenTime = risingTime
  /\ at = [t \in Threads |-> "loop"] /\ cursor = [t \in Threads |-> 1]
  /\ bValue = [t \in Threads |-> FALSE] /\ stamp = [t \in Threads |-> 0]
  /\ due = [i \in 1 .. Inputs |-> FALSE]

Goto(t, place) == at' = [at EXCEPT ![t] = place]
GotoInput(t, place, i) == Goto(t, place) /\ cursor' = [cursor EXCEPT ![t] = i]
-------------------------------------------------------------------------------
(***************************************************************************)
(* The driver station (external): it stores the joysticks' values first    *)
(* and says so afterwards.                                                 *)
(***************************************************************************)

\* Does a thread still work with an earlier value TRUE of input i?
OldPressUnderWay(i) ==
  \E t \in Threads : at[t] \in {"compare", "record", "remember"} /\ cursor[t] = i /\ bValue[t]

\* A press is due when nothing of an earlier one is left: the record says "released",
\* and no thread is about to say otherwise.  Once recorded it stays due, though
\* released.  It has to come at a later time than the last press told.  At most one
\* input changes in a packet; two that do are two packets.
Packet ==
  /\ packets < MaxPackets
  /\ held' \in {held} \cup {[held EXCEPT ![i] = ~held[i]] : i \in 1 .. Inputs}
  /\ packets' = packets + 1 /\ now' = now + 1
  /\ announced' = FALSE
  /\ due' = [i \in 1 .. Inputs |->
               CASE held[i] = held'[i] -> due[i]
                 [] held'[i]           -> due[i] \/ (~lastValues[i] /\ ~OldPressUnderWay(i)
                                                /\ now' > seenTime[i])
                 [] OTHER              -> due[i] /\ risingTime[i] > seenTime[i]]
  /\ UNCHANGED <<lastValues, risingTime, seenTime, newData, at, cursor, bValue, stamp>>

Announce ==
  /\ ~announced
  /\ announced' = TRUE /\ newData' = TRUE
  /\ UNCHANGED <<held, packets, now, lastValues, risingTime, seenTime, at, cursor, bValue,
                 stamp, due>>

\* Bound: the system clock is set back once, with packets to come.
MaySetClock == now = packets /\ packets < MaxPackets

\* The system clock is set back (external): what has not been told may never be.
ClockSet ==
  /\ MaySetClock
  /\ now' \in 0 .. now - 1
  /\ due' = [i \in 1 .. Inputs |-> FALSE]
  /\ UNCHANGED <<held, announced, packets, lastValues, risingTime, seenTime, newData, at,
                 cursor, bValue, stamp>>
-------------------------------------------------------------------------------
(***************************************************************************)
(* A pass: update(), then the questions of execute().                      *)
(***************************************************************************)

\* Only the thread that takes the flag looks at the inputs.
Update(t) ==
  /\ at[t] = "loop"
  /\ newData' = FALSE
  /\ GotoInput(t, IF newData THEN "read" ELSE "ask", 1)
  /\ UNCHANGED <<held, announced, packets, now, lastValues, risingTime, seenTime, bValue, stamp, due>>

ReadInput(t) ==
  /\ at[t] = "read"
  /\ IF cursor[t] <= Inputs
     THEN /\ bValue' = [bValue EXCEPT ![t] = held[cursor[t]]]
          /\ Goto(t, "compare") /\ UNCHANGED cursor
     ELSE /\ GotoInput(t, "ask", 1) /\ UNCHANGED bValue
  /\ UNCHANGED <<held, announced, packets, now, lastValues, risingTime, seenTime, newData, stamp, due>>

\* Mutant of Changed: notices only releases.
ChangedToReleased(t) == lastValues[cursor[t]] /\ ~bValue[t]

Changed(t) == bValue[t] # lastValues[cursor[t]]

\* A local is forgotten after its last use.
Forget(local, t, value) == local' = [local EXCEPT ![t] = value]

\* The comparison, and the clock for a press.
Compare(t) ==
  /\ at[t] = "compare"
  /\ IF ~Changed(t)
     THEN GotoInput(t, "read", cursor[t] + 1) /\ Forget(bValue, t, FALSE) /\ UNCHANGED stamp
     ELSE /\ Goto(t, IF bValue[t] THEN "record" ELSE "remember") /\ UNCHANGED <<cursor, bValue>>
          /\ stamp' = [stamp EXCEPT ![t] = IF bValue[t] THEN now ELSE 0]
  /\ UNCHANGED <<held, announced, packets, now, lastValues, risingTime, seenTime, newData, due>>

Record(t) ==
  /\ at[t] = "record"
  /\ risingTime' = [risingTime EXCEPT ![cursor[t]] = stamp[t]]
  /\ Goto(t, "remember") /\ Forget(stamp, t, 0)
  /\ UNCHANGED <<held, announced, packets, now, lastValues, seenTime, newData, cursor, bValue, due>>

Remember(t) ==
  /\ at[t] = "remember"
  /\ lastValues' = [lastValues EXCEPT ![cursor[t]] = bValue[t]]
  /\ GotoInput(t, "read", cursor[t] + 1) /\ Forget(bValue, t, FALSE)
  /\ UNCHANGED <<held, announced, packets, now, risingTime, seenTime, newData, stamp, due>>

\* getButtonRising() of the next input asked for.  An else-if: the pass asks no
\* further once it was told of a press.
Ask(t) ==
  /\ at[t] = "ask"
  /\ IF cursor[t] > Len(Watches[t]) THEN GotoInput(t, "loop", 1)
     ELSE LET i == Watches[t][cursor[t]] IN
            IF seenTime[i] < risingTime[i] THEN Goto(t, "take") /\ UNCHANGED cursor
                                           ELSE GotoInput(t, "ask", cursor[t] + 1)
  /\ UNCHANGED <<held, announced, packets, now, lastValues, risingTime, seenTime, newData, bValue,
                 stamp, due>>

\* The time is read once more, and the press is told.
Take(t) ==
  /\ at[t] = "take"
  /\ LET i == Watches[t][cursor[t]] IN
       /\ seenTime' = [seenTime EXCEPT ![i] = risingTime[i]]
       /\ due' = [due EXCEPT ![i] = FALSE]
  /\ GotoInput(t, "loop", 1)
  /\ UNCHANGED <<held, announced, packets, now, lastValues, risingTime, newData, bValue, stamp>>
-------------------------------------------------------------------------------
ControlsThread(t) ==
  Update(t) \/ ReadInput(t) \/ Compare(t) \/ Record(t) \/ Remember(t) \/ Ask(t) \/ Take(t)

ControlsNext == Packet \/ Announce \/ ClockSet \/ \E t \in Threads : ControlsThread(t)
-------------------------------------------------------------------------------
(***************************************************************************)
(* Properties.                                                             *)
(***************************************************************************)

\* A press is told to the subsystem that asks for it, although it is another thread
\* that takes the flag and records the time, unless it ends before it was recorded or
\* the system clock is set back before it was told: whoever takes the flag early still
\* leaves a record that the other's question finds.
PressesTold == \A i \in 1 .. Inputs : due[i] ~> ~due[i]
================================================================================
