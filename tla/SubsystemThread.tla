---------------------------- MODULE SubsystemThread ----------------------------
(***************************************************************************)
(* The loop that every subsystem runs in (GenericSubsystem.java, run()).   *)
(* Times are in milliseconds of the system clock, which may be set while   *)
(* the robot runs.  The constructor makes no LOG for the LogWriter.        *)
(***************************************************************************)
EXTENDS Integers

CONSTANTS
  SleepTime,   \* sleepTime() of the subsystem
  Lapses       \* how much the clock may move on, or back, during a pass or between two

ASSUME SleepAssumption == SleepTime \in Nat \ {0} /\ Lapses \subseteq Int

VARIABLES
  logged,       \* does the subsystem have a LOG?
  isTest,       \* the control word
  place,        \* where the thread stands; "ended" when an exception has left run()
  sinceLast,    \* since lastTime, when the pass begins
  sysTime,      \* what the pass has taken
  sleeps,       \* what it sleeps for
  failed        \* history: has an exception left run() where nothing catches it?

threadVars == <<logged, isTest, place, sinceLast, sysTime, sleeps, failed>>

\* lastTime is 0 before the first pass, and the clock counts from 1970.
LongAgo == 1000 * SleepTime

ThreadTypeOK ==
  /\ logged \in BOOLEAN /\ isTest \in BOOLEAN
  /\ place \in {"start", "begin", "update", "execute", "log", "finish", "sleep", "ended"}
  /\ sinceLast \in Lapses \cup {LongAgo}
  /\ sysTime \in Int /\ sleeps \in Int
  /\ failed \in BOOLEAN

ThreadInit ==
  /\ logged \in BOOLEAN /\ isTest \in BOOLEAN
  /\ place = "start" /\ sinceLast = LongAgo /\ sysTime = 0 /\ sleeps = SleepTime
  /\ failed = FALSE

\* A message, where the code does not test whether there is a LOG.
LogOr(excessive, next) == IF excessive /\ ~logged THEN "ended" ELSE next

\* What is called outside the try of line 132 may end the thread.
OrThrows(next) ==
  \/ place' = next /\ UNCHANGED failed
  \/ place' = "ended" /\ failed' = TRUE

\* init() and liveWindow()
StartSubsystem ==
  /\ place = "start"
  /\ OrThrows("begin")
  /\ UNCHANGED <<logged, isTest, sinceLast, sysTime, sleeps>>

\* In test mode the loop spins here.
BeginSubsystemPass ==
  /\ place = "begin" /\ ~isTest
  /\ place' = LogOr(sinceLast > SleepTime * 2, "update")
  /\ UNCHANGED <<logged, isTest, sinceLast, sysTime, sleeps, failed>>

\* update()
UpdateInputs ==
  /\ place = "update"
  /\ OrThrows("execute")
  /\ UNCHANGED <<logged, isTest, sinceLast, sysTime, sleeps>>

\* execute(), whose exceptions are caught; none returns true.
ExecuteSubsystem ==
  /\ place = "execute"
  /\ place' = "log"
  /\ UNCHANGED <<logged, isTest, sinceLast, sysTime, sleeps, failed>>

\* writeLog(), when it is due, and the end of the time that the pass has taken.
WriteStatus ==
  /\ place = "log"
  /\ OrThrows("finish")
  /\ sysTime' \in Lapses
  /\ UNCHANGED <<logged, isTest, sinceLast, sleeps>>

\* Mutant of CappedTime: takes a clock that was set back for an early end.
UncappedTime == IF sysTime * 2 > SleepTime THEN SleepTime \div 2 ELSE sysTime

CappedTime ==
  IF sysTime * 2 > SleepTime THEN SleepTime \div 2
  ELSE IF sysTime < 0 THEN 0 ELSE sysTime

FinishSubsystemPass ==
  /\ place = "finish"
  /\ place' = LogOr(sysTime > SleepTime, "sleep")
  /\ sleeps' = SleepTime - CappedTime
  /\ UNCHANGED <<logged, isTest, sinceLast, sysTime, failed>>

SleepOver ==
  /\ place = "sleep"
  /\ sinceLast' \in Lapses
  /\ place' = "begin"
  /\ UNCHANGED <<logged, isTest, sysTime, sleeps, failed>>

\* The driver station (external).
ThreadMode ==
  /\ isTest' = ~isTest
  /\ UNCHANGED <<logged, place, sinceLast, sysTime, sleeps, failed>>

ThreadNext ==
  \/ StartSubsystem \/ BeginSubsystemPass \/ UpdateInputs \/ ExecuteSubsystem
  \/ WriteStatus \/ FinishSubsystemPass \/ SleepOver \/ ThreadMode
-------------------------------------------------------------------------------
(***************************************************************************)
(* Properties.                                                             *)
(***************************************************************************)

\* However long a pass took and however the clock was set meanwhile, a subsystem
\* sleeps for no less than half its sleep time, so that others get to run, and for no
\* longer than the whole; and a thread that has a LOG is ended by what it calls outside
\* the try or not at all.
ThreadSound ==
  /\ place = "sleep" => 2 * sleeps >= SleepTime /\ sleeps <= SleepTime
  /\ place = "ended" => failed \/ ~logged
================================================================================
