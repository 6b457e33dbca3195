------------------------------ MODULE SpeedControl ------------------------------
(***************************************************************************)
(* How a side of the drives holds its speed: EncoderData counts the ticks  *)
(* of an encoder and PID computes a power from the speed (EncoderData.java *)
(* and PID.java, as Drives uses them: ramp and brake mode on, no limit of  *)
(* the output, reset() never called).  Numbers are whole: a tick is the    *)
(* unit of distance, and time passes in units of the shortest pass: for    *)
(* EncoderData that of the FPGA, which only moves on, for PID that of the  *)
(* system, which may be set back.  Speed and output enter nothing that is  *)
(* checked and are left out.                                               *)
(***************************************************************************)
EXTENDS Integers

CONSTANTS
  MaxCount,       \* the encoder counts from -MaxCount to MaxCount
  MinWindow,      \* the shortest time over which a speed is computed (18000)
  SetPoints,      \* the speeds that Drives may want
  RampLimit,      \* spRampLimit
  LoopTimeLimit,  \* loopTimeLimit
  MaxLapse,       \* the longest time between two calls
  TopSpeed,       \* no set point is faster
  MaxBack         \* how far the system clock is set back between two stops

ASSUME SpeedAssumption ==
  /\ MaxCount \in Nat /\ MinWindow \in Nat /\ RampLimit \in Nat
  /\ LoopTimeLimit \in Nat /\ MaxLapse \in Nat /\ MaxBack \in Nat /\ TopSpeed \in Nat
  /\ SetPoints \subseteq -TopSpeed .. TopSpeed

VARIABLES
  count,              \* the encoder (external)
  lastEncoderCount, lastSpeedCount, forwardCount, reverseCount,
  window,             \* since lastTime of EncoderData
  setPoint, internalSP,
  totalizer,          \* has PID an accumulated error?  Its amount is left out
  previousSP, elapsed, \* history: internalSP before the pass, and PID's elapsedTime
  setBack             \* history: how far the clock was set back since the last stop

speedVars == <<count, lastEncoderCount, lastSpeedCount, forwardCount, reverseCount, window,
               setPoint, internalSP, totalizer, previousSP, elapsed, setBack>>

SpeedInit ==
  /\ count = 0 /\ lastEncoderCount = 0 /\ lastSpeedCount = 0
  /\ forwardCount = 0 /\ reverseCount = 0 /\ window = 0
  /\ setPoint = 0 /\ internalSP = 0 /\ totalizer = FALSE /\ previousSP = 0
  /\ elapsed = 0 /\ setBack = 0

Abs(n) == IF n < 0 THEN -n ELSE n
Lesser(m, n) == IF m < n THEN m ELSE n
Greater(m, n) == IF m < n THEN n ELSE m

\* calculateSpeed(), `lapse` after the last call: every call counts, but only one that
\* comes late enough computes a speed.
CalculateSpeed(lapse) ==
  LET deltaCount == count' - lastEncoderCount
      isDue      == window + lapse >= MinWindow IN
  /\ lastEncoderCount' = count'
  /\ forwardCount' = forwardCount + Greater(deltaCount, 0)
  /\ reverseCount' = reverseCount + Lesser(deltaCount, 0)
  /\ lastSpeedCount' = IF isDue THEN count' ELSE lastSpeedCount
  /\ window' = IF isDue THEN 0 ELSE window + lapse

\* Mutant of RampStep: the time since the last call has no limit.
RampStepUnlimited(time) == RampLimit * time

RampStep(time) == RampLimit * Lesser(time, LoopTimeLimit)

\* loop(): brake mode at set point 0, else the internal set point follows by a ramp; it
\* leaves the set point at the same rate when the time is negative.  What the error adds
\* to the total is open.
Loop(time, sp) ==
  IF sp = 0 THEN internalSP' = 0 /\ totalizer' = FALSE
  ELSE /\ internalSP' = IF Abs(sp - internalSP) <= RampStep(time) THEN sp
                        ELSE IF sp > internalSP THEN internalSP + RampStep(time)
                        ELSE internalSP - RampStep(time)
       /\ totalizer' \in {totalizer, TRUE}

\* The power for a wanted speed, which the joysticks and the diagnostics give otherwise.
Control ==
  \/ \E time \in -MaxBack .. MaxLapse, sp \in SetPoints :
       /\ Loop(time, sp)
       /\ setPoint' = sp /\ previousSP' = internalSP /\ elapsed' = time
       /\ setBack' = IF sp = 0 THEN 0 ELSE setBack + Greater(-time, 0)
       /\ setBack' <= MaxBack
  \/ UNCHANGED <<setPoint, internalSP, totalizer, previousSP, elapsed, setBack>>

\* A pass of Drives: it reads the encoder, then it may compute the power.
SpeedPass ==
  /\ count' \in {count - 1, count, count + 2} \cap -MaxCount .. MaxCount
  /\ forwardCount - reverseCount + Abs(count' - lastEncoderCount) <= 2 * MaxCount
  /\ \E lapse \in 0 .. MaxLapse : CalculateSpeed(lapse)
  /\ Control
-------------------------------------------------------------------------------
(***************************************************************************)
(* Properties.                                                             *)
(***************************************************************************)

\* The distance is the encoder's count, though ticks are counted in every pass and the
\* speed only in some.  While the system clock is not set back, the internal set point
\* goes towards the wanted one without overshooting it, and no faster than the ramp
\* allows in the longest time taken into account.  A clock that is set back takes it
\* away from the wanted one (lines 91-98 with a negative time), but past the fastest
\* set point by no more than what the ramp makes of all it was set back since the last
\* stop; and a stop leaves nothing of that, of the set point or of the total.
SpeedSound ==
  /\ forwardCount + reverseCount = count /\ reverseCount <= 0 /\ forwardCount >= 0
  /\ setPoint = 0 => internalSP = 0 /\ ~totalizer
  /\ setPoint # 0 /\ elapsed >= 0 =>
       /\ internalSP \in Lesser(previousSP, setPoint) .. Greater(previousSP, setPoint)
       /\ Abs(internalSP - previousSP) <= RampLimit * LoopTimeLimit
  /\ Abs(internalSP) <= TopSpeed + RampLimit * setBack
================================================================================
