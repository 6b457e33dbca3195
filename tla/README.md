# Verification of the 2017 robot code (team 1126)

This directory holds TLA+ models of the code under `src/`, the TLC configurations
that check them on small instances, and theorems about them that TLAPS has proved
for every value of the constants.

The code is two programs.  The *robot program* (`src/src/`, Java) is a set of
threads, one per subsystem, on a two-core controller; they share their fields
without locks and without `volatile`, and command each other by plain method calls.
The *camera computer* (`src/Vision/`, C++) looks for targets and publishes them; it
is built with its own copy of ntcore, the network-table library that connects the
two, whose nodes run half a dozen threads under mutexes each, over TCP.

Contents: 1 the system, 2 the modules, 3 the robot's models, 4 the models of ntcore
and the camera computer, 5 what the runs show, 6 bounds, 7 fairness, 8 memory
model, 9 proofs, 10 where the code does not do what it says, 11 what is not
modelled, 12 plan.


## 1. The system

Robot program; paths below `src/src/org/gosparx/team1126/robot/`:

| Component | State | Operations | Talks to |
|---|---|---|---|
| `Robot` | the mode whose method ran last | constructs and starts every subsystem; on a mode change calls `setRunAuto` | Autonomous (call) |
| `subsystem/GenericSubsystem` | `lastTime`, per-subsystem `LOG`, `dsc` | `run()`: `init`, then `update`/`execute`/log/sleep for ever | every subsystem extends it |
| `subsystem/Autonomous` | program, step, command, two timers, critical step | a pass performs one command; `setRunAuto` | orders to Drives, Shooter, BallAcq; writes `SharedData.targetType` |
| `subsystem/Drives` | drive state, `autoReady`, wanted speeds, motor powers, diagnostics | a pass acts on the drive state; orders, `stopDrives`, `abortAuto`, `isAutoDone` | called by Autonomous and Robot; reads the lift data |
| `subsystem/Shooter` | switches, wanted speed, turret angle, manual and vision modes | a pass aims, spins the flywheel and feeds; `shooterSystemState`, `shooterSystemFire`, `shooterSetTurret` | called by Autonomous and Robot; reads the boiler data; writes `targetType` |
| `subsystem/BallAcq` | acquisition, belt and horizontal belt state | a pass drives three motors, with a timed unjamming cycle; `autoChanger`, `transport` | called by Autonomous |
| `subsystem/Scaling` | winch state | a pass sets the winch from an axis | - |
| `subsystem/Vision`, `util/VisionNetworkTable`, `util/SharedData` | wanted target, LED, mode sent to the camera computer, image data and times | a pass sends a changed target; the network-table listener stores images | Shooter, Drives, Autonomous, the camera computer |
| `util/DriverStationControls` | last values and edge times of buttons and POV, shared by all objects | `update`, `getButtonRising`, `getPOVRising`, ... | every subsystem, once per pass |
| `util/Logger`, `subsystem/LogWriter` | message queue, file | `logString`, a pass writes one message | every subsystem |
| `util/PID`, `sensors/*` | internal set point, total, counts | arithmetic, once per pass | Drives, Shooter |
| `util/CSVReader` | - | reads a program from a file | nobody in this commit (its call is commented out) |

Camera computer and ntcore; paths below `src/Vision/`:

| Component | State | Operations | Talks to |
|---|---|---|---|
| `MasterControl`, `PegFinder`, `HighGoalFinder`, `RectangleFinder`, `ConfigReader` | mode, camera, thresholds, the pass's picture and target | a pass opens the camera, takes a picture, finds rectangles, publishes; `ValueChanged` on the notifier's thread | the robot, through a table |
| `src/Storage`, `SequenceNumber` | entries by name, id map, pending definitions | set, flag, delete, clear; `ProcessIncoming`; the two halves of the handshake | notifier, dispatcher |
| `src/NetworkConnection` | pending messages, state, two threads | merges and posts messages; reads, writes, shakes hands | storage, dispatcher, stream |
| `src/Dispatcher` | connections, two threads, two mutexes, reconnection flags | `StartServer`, `StartClient`, `Stop`; accepts or connects; posts every interval, drops the dead | everything below it |
| `src/RpcServer`, the calls in `Storage` | results and waiting uids | `CallRpc`, `GetRpcResult`, `CancelBlockingRpcResult` | the other node |
| persistent file (in `Storage`) | `m_persistent_dirty`, three files | periodic and explicit save, load at start | file system |
| `src/Notifier` | listeners, two queues, a thread | add, remove, notify, stop | storage, dispatcher, the program |
| `src/DsClient`, `NetworkTable` | one stream, the override of the server's address | a thread polls the driver station | dispatcher |
| `src/TCPAcceptor`, `TCPConnector`, `TCPStream` | descriptors | accept, shut down, connect, read, close | dispatcher, connections |
| `WireEncoder`/`Decoder`, `Message`, `leb128` | a buffer | write and read messages of two revisions | connections |
| `ntcore_c`, `Value` | memory handed to C | convert, copy, dispose | C programs |
| `StringRef`, `StringMap`, `DenseMap`, `raw_ostream`, `raw_istream` | strings, buckets, buffers | the containers ntcore is written with | all of the above |

### Interactions that are hard

Robot program:

* The Autonomous thread gives an order to Drives in two writes (`autoReady`, the
  drive state), in different orders for different operations, while a pass of the
  Drives thread decides on the state it read and ends with writes of its own.
* Three threads call into Drives: its own, Autonomous (orders, `stopDrives`,
  aborts) and Robot (aborts).
* `setRunAuto` runs on the Robot thread while a pass of the sequencer is under
  way, in one command for three seconds.
* The critical step and the background timer change the step of a program while
  a command of another step is being waited for; timers outlive the run that
  started them.
* Rows of a program have no checked length, and a program no checked end; an
  exception leaves a pass in the middle and the next pass starts over.
* Shooter, Vision and the sequencer all write the camera target.
* All threads compare the inputs with one record of their last values.
* The clock that a subsystem computes its sleep from may be set at any time.

ntcore:

* A message is queued after the storage mutex is released, so a later change, or
  the snapshot of a client that connects, may overtake it.
* Pending messages of one entry are merged in place.
* Clients and server merge their tables when they connect again, by sequence
  numbers that wrap around and that each may count from 0.
* Read thread, write thread, dispatch thread, main thread and `Stop()` may all end
  a connection, and one of them destroys it while it holds a mutex the others take.
* An RPC answer races with its timeout and its cancellation.
* The process may die between any two calls to the file system of a save.
* A listener is added while what it listens for changes.
* A descriptor's number means another socket as soon as it has been closed.

### What makes each component correct

* Drives: at rest whenever its state says so; `isAutoDone()` is true only then;
  aborts and stops are honoured, whatever they interleave with.
* Autonomous: every command runs with its own parameters; no pass throws; the
  critical step is reached; the program comes to its end.
* Shooter: nothing is fed, and nothing spins, after it was switched off.
* BallAcq: the belts stop in disabled mode; the unjamming cycle keeps alternating.
* Vision link: the turret follows no image older than the time that allowed it.
* DriverStationControls: a press is told to the subsystem that asks for it.
* GenericSubsystem: nothing of the loop ends a thread, and every pass sleeps.
* Tables: ids mean the same entry on both sides, tables converge, and listeners
  know what the table holds.
* Connections: each is told of in order and closed for good; `Stop()` returns.
* RPC: every answer is that of its own call.  File: one whole copy exists always.
  Listeners: none is left with an old value.  Descriptors: each is closed once, and
  used only by its owner.
* Formats and containers: what was written is what is read.

`PROJECT.json` lists the hazards line by line, with the property that covers each
or the reason why none does.


## 2. The modules

| Module | What it is |
|---|---|
| `Drives` | the drive subsystem, one shared access per step |
| `DrivesContract` | what the drives promise their callers, two variables |
| `Autonomous` | the sequencer and the Robot thread, with the drives as their callers see them |
| `Shooter` | the shooter, one shared access per step, against the calls of two other threads |
| `BallAcq` | the ball acquisition and its belts against `autoChanger()` |
| `VisionLink` | the Vision thread, the network-table listener, the image data and the Shooter as their reader |
| `DriverStationControls` | threads that race through `update()` and ask for presses |
| `SubsystemThread` | the loop of `run()` under a clock that jumps |
| `SpeedControl` | encoder counts and the ramp of the PID |
| `CSVReader` | the two readers of a program file |
| `SequenceNumber` | 16-bit numbers that wrap around, and their order |
| `Storage` | one node's table: each operation under the storage mutex as an operator |
| `Outgoing` | how a connection merges what it has not posted |
| `NetworkTables` | a server and its clients, composed of `Storage` and `Outgoing` |
| `Dispatcher` | the threads of a node and the life of its connections |
| `RpcCalls` | remote calls with timeouts and cancellations |
| `Persistence` | the calls to the file system of a save, with crashes |
| `TextFile` | the text of the persistent file, written and read |
| `Notifier` | listeners and the thread that calls them |
| `DsClient` | the driver station's override of the server address |
| `Sockets` | descriptors and the threads that share them |
| `WireCodec` | messages as bytes, cut anywhere by the network |
| `Strings`, `Streams`, `HashTables` | the library ntcore is written with |
| `CApi` | whose memory is whose in the C interface |
| `MasterControl` | the program of the camera computer |
| `DrivesProofs`, `AutonomousProofs`, `SubsystemsProofs`, `VisionProofs`, `NetworkTablesProofs`, `TableOrderProofs`, `DispatcherProofs`, `ServicesProofs` | theorems |
| `MCDrives`, `MCAutonomous`, `MCShooter`, `MCVisionLink`, `MCNetworkTables`, `MCDispatcher` | instances for TLC |
| `MCSubsystems`, `MCServices`, `MCLibrary` | several parts that share no state, run one at a time: a variable `part`, chosen at the start, says which |

`Autonomous` does not instantiate `Drives`: a pass of the drives has some ten
steps, and the sequencer sees of them only the answer of `isAutoDone()` and the
wheels.  Its variable `drives` stands for the drives between two passes, and each
of its operations is one step.  What happens inside a step is module `Drives`.

Likewise `NetworkTables` has a connection as a pair of streams with a handshake,
and `Dispatcher` has the threads that make, use and destroy connections, without
what the messages say.  The two are not composed.

In these modules each definition that is the mutated form of another stands
directly before it, under a comment that begins "Mutant".  They belong to no
specification; they show that each property depends on the code it is about.


## 3. The robot's models

### Drives

State, in the source's names where there is one name: `driveState`
(`currentDriveState`), `autoReady`, `wheels` (the wanted speeds of both sides),
`setPower` (the computed powers), `motors` (the last output of each motor pair),
`isDiagnostic`, `diagnosticState`, the control word `mode`, and where each thread
stands.  Speeds are abstracted to who set them: nobody, an autonomous motion, the
joysticks, the motor diagnostics.

* A pass of `execute()` is `BeginPass`, `Dispatch` (the switch), the steps of one
  case, `ComputePower`, `SetMotors`.  The case is chosen by the state read in
  `Dispatch` and kept in `duty`: the state may be another one when the case
  writes it, which is the point of the model.
* The three motion cases share `Claim` (`autoReady = false`), `Steer`, `Halt`,
  `Park`, `Report`.  Whether a motion has reached its target is open.
* `stopDrives()` is run by two threads, so its actions take the thread as a
  parameter.  Whether the wheels stand still is open.
* An order is `StartOrder` (the test of `isAutoDone()`), then `ClearFirst` and
  `Engage`, or `Engage` and `ClearLast`, or `Engage` alone (`autoTurnLift` never
  clears `autoReady`), as the source of each operation has it.
* `AbortAuto` is one write, possible at any time: Robot and Autonomous both do it.
* `DriverStation` changes the mode while the robot is disabled, or disables it.

`CONSTANT Orders` is the set of operations the sequencer issues.

The contract has two variables, what holds the wheels and the answer of
`isAutoDone()`, and five actions.  It says that the answer becomes true only at
rest, that a motion takes the wheels only while the answer is false, and that the
joysticks never take the wheels from a motion.  `Drives` implements it with `done`
mapped to `isAutoDone`.

### Autonomous

State: the flags `runAuto` and `autoRun`, the position in the program (`currStep`,
`currCommand`, `incStep`), the critical step, the timers, and of the other
subsystems what the sequencer has asked of them.  Times are relative: `elapsed`
since the start, the time left of a delay (`waitLeft`) and of the background timer
(`backgroundLeft`, which passes zero before it fires because the code tests `>`).

* A pass is `Execute`, `Enter` (the second test of the mode, line 277), `Mark`,
  `CheckCrit`, `CheckBackground`, `Fetch` / `Refetch` / `FetchThrows`, and one of the
  commands.  `Load` is `execute()` in disabled autonomous mode.
* Every command of the switch is an action: `DrivesOrder`, `DrivesLift` with
  `MoveToLift` (the three seconds between them are two steps of the pass),
  `DrivesStop`, `HandOver`, `BallAcqToggle`, `ShooterToggle`, `BackgroundDelay`,
  `Delay`, `Wait`, `SetCritStep`, `End`, `Hold`, `Unknown`.
* `ShortRow` is the exception of a row with too few numbers, with what the command
  had written by then.
* The Robot thread is `SetRunAuto`, `TestAutoRun`, `RobotAborts`, `ClearAutoRun`: the
  two lines of `setRunAuto()`, between which a pass may do anything.
* The surroundings are `DrivesPass`, `MotionEnds`, `DriverStation` and `Tick`.

`CONSTANT Program` is the program: a row has its command, the two parameters that
decide something here, and how many numbers it holds.

### Shooter

State: the three switches other threads write (`isPressed`, `fireWhenReady`,
`visionOff`), the wanted `speed` (the initial one, or one asked for by the program or by the
operator's buttons; the amount is left out), `lastPressed` and
`manualControl`, the locals of a pass, whether flywheel and feeder have power, the mode
(`robotMode`), and where each thread is (`standing`).

* A pass is `BeginPass` (with the diagnostics), `Controls` and the reading of the
  operator's switches (`TakeVision`, `TakePress`, `TakeFire`) or `Release` and
  `Unfire` in neither mode, then `Edge`, `EdgeSpeed`, `Keep` for a changed switch, and
  `Turret`, `Wheel`, `WheelControl` or, without vision or under manual control, `Manual` and
  `Adjust` (the buttons that add to or take from the wanted speed), and `Feed`.  Each reads
  the switches again, as the code does.
* `ToggleOn`, `ToggleOff`, `FireOn`, `FireOff` are the commands of the sequencer, with
  one step per field written (`AskSpeed`, `SetPressed`, `SetVision`); `Abort` is
  `abortCommands()` on either thread.
* `Autonomous` has of the shooter only what it has asked of it; the two modules are
  not composed.

### BallAcq

The three states of the source, the wanted speeds, the control word, and two short
queues of state writes: `todo`, what the pass has still to write, and `asked`, what
`autoChanger()` has.  A pass is `SetAcqState` (disabled, or an edge of the POV),
`ActOnStatus`, `ActOnBelt` in case SHOOTING, `ActOnHorizontalBelt`, with `WriteNext` for
each write; `AutoChanger` and `Change` are the other thread's.  A state chosen in
`ActOnBelt` is written a step later, over whatever was written in between.

### VisionLink

An image is its number; `image` holds for both targets the image from which the
stored distance, angle and time come.  The Vision pass reads `targetType` in
`CheckTarget`, `SetLed`, `ServerUpdate` and `TakeTarget`, as the code does, and ends with
`ClearBoiler` and `ClearLift`.  The listener stores an image in the order of
`setTarget()` (`SetTargetOrder`), which differs between boiler and lift.
`GetImageTime` and `Aim` are the two reads by which the Shooter turns the turret.

### DriverStationControls

Buttons and POV are inputs; `update()` treats them alike.  State: what is held, the
shared record (`lastValues`, `risingTime`), each input's `seenTime`, the flag of a new
packet, and where each subsystem's thread stands with its locals.

* `Packet` and `Announce` are the driver station, `ClockSet` the system clock set back, from
  which both the time of a press and that of the last question come.  A thread is `Update` (takes the flag),
  then `ReadInput`, `Compare`, `Record`, `Remember` for each input in turn, and then `Ask`
  and `Take` for the inputs its subsystem watches.
* `due` remembers the presses somebody is still to be told, of those made since the clock
  was last set back.

### SubsystemThread, SpeedControl, CSVReader

* `SubsystemThread`: after `StartSubsystem` a pass is `BeginSubsystemPass`, `UpdateInputs`,
  `ExecuteSubsystem`, `WriteStatus`, `FinishSubsystemPass` (compute the sleep) and `SleepOver`.
  Only what `execute()` throws is caught: `init()`, `update()` and `writeLog()` may each end the
  thread (`OrThrows`), which `failed` remembers.  The clock lapses by any member of `Lapses`,
  negative ones included.  A subsystem without a `LOG` ends in the first pass that wants to
  report something.
* `SpeedControl`: one action, `SpeedPass`, is a pass of the drives over one side: the
  encoder is counted by the clock of the FPGA (`CalculateSpeed`), then `Control` may call
  `PID.loop`, which moves the internal set point by the system clock, and so by a negative
  time when that was set back.  Under the operator's control and in the diagnostics it is
  not called, and its next time is the longer.
* `CSVReader`: `CountLines`, then `SkipLine`, `FillRow` and `Return` of the second reader.


## 4. The models of ntcore and the camera computer

### The table and its protocol: Storage, Outgoing, NetworkTables

A node's `Storage` is a record (entries by name, id map, whether it is the server).
Each function of `Storage.cpp` that takes the mutex is an operator from a record to a
result: the new record, the notifications made, and the messages that the code queues
after it has released the mutex (`queue_outgoing` is called outside).  An entry is its
value, flags, id and sequence number.  `ProcessIncoming` is one operator per message.

`Outgoing` is `NetworkConnection::QueueOutgoing`: the list of pending messages and, per
id, the positions of the pending assignment or update and of the pending flags.

`NetworkTables` composes a server and its clients:

* `Change`, `ChangeFlags`, `Clear` are the program on any node.  What they want sent is
  appended to the node's `hand`; `Queue` takes one item from it, not always the first, and
  gives it to the connections, as a thread that was overtaken after the unlock does.
* `ServerPosts`, `ClientPosts` move what is pending to the stream; `ServerReads` and
  `ClientReads` handle the next message.
* A handshake is `Connect`, `SendInitial` (the server's snapshot, `GetInitialAssignments`),
  `ApplyInitial` (the client merges and answers), `FinishHandshake`.
* `Disconnect` drops a connection with all that is under way; `SavePersistent` and
  `ServerRestarts` keep the persistent entries and lose the rest.
* `view` is what a listener of each node was told; `seen` remembers that a message has
  overtaken another, that flags were changed and that entries were cleared.

### The threads of a node: Dispatcher

The program (`user`: `StartNode`, `Stop` and its parts), the main thread (`Client...`,
`Server...`), the dispatch thread (`DispatchPass`), and a read and a write thread per
connection.  A connection has its state, its descriptor (`open`, `broken`), its
revision, the length of its queue, its two threads and what the connection listeners
were told.  A section under `m_user_mutex` is one step; `mutex` is a variable because the
main thread blocks while it holds it: it destroys connections there, and the
destructor (`StopBegins`, `StopWriter`, `StopReader`) waits for the connection's threads,
up to a time after which it detaches them (`TimedOut`).

### Services: RpcCalls, Persistence, Notifier, DsClient, Sockets

* `RpcCalls`: `CallRpc` gives a call its uid, which wraps around; answers travel and may be
  lost; `GetRpcResult` finds the result, waits (`WakeUp`, `TimeOut`) or is cancelled.
  Call numbers, which do not wrap, say whose answer a caller got.
* `Persistence`: names (`fn`, `tmp`, `bak`) point at files, a file holds a version, whole or
  not.  A save is `Snapshot`, `OpenTmp`, `WriteTmp`, `RemoveBak`, `BackUp`, `MoveToReal`,
  `Restore`.  Each may fail; that a file was not removed or renamed (`RemoveName`,
  `TryRename`) nobody notices, except where the new file is moved to its place.  `stranded`
  remembers that a restore has failed.  `Crash` may come between any two steps, and loads
  what is there.  Two savers exist: the dispatch thread and the program.
* `Notifier`: the owner and its threads (`owner` is the one that still has one), their lists
  with free slots, queues by kind, and the local shortcut.  A step per section under the
  thread's mutex; `CallsListener` is made without it.
* `DsClient`: each started thread is `WaitsDs`, `ConnectsDs`, `ReadsDs`, `SetsOverride`,
  `ClearsOverride`, `DoneDs`; the calls of `NetworkTable` are `SetMode`, `SetIPAddress`,
  `SetDSClientEnabled`, `Initialize`, `Shutdown`.
* `Sockets`: `fd` maps each number to what it means; opening takes the lowest free one.
  Accepting, shutting down (`::shutdown`, then the listener replaced by one of
  `/dev/null`), connecting, receiving and closing are steps around each system call.

### Formats and containers: WireCodec, TextFile, Strings, Streams, HashTables, CApi

* `WireCodec` writes each kind of message and value as bytes, cuts the bytes anywhere, and
  reads with the decoder's own table of fields; `TextFile` does the same for the lines
  of the persistent file, cut by a full disk at any character.
* `Strings` has the functions of `StringRef` with the reference definitions they are
  compared with; `Streams` has buffered output to a device that takes what it likes, and
  three sources of input; `HashTables` has the probing, growth and erasure of the
  two kinds of table; `CApi` has blocks of memory with who owns them.

### MasterControl

A pass is `ChooseFinder`, `Open`, `Sees`, `SeesNothing` or `LookFails`, and `PutNumberArray`.
A picture is the rectangles OpenCV finds in it; what the finders make of them, the
thresholds of the configuration and both computations of the distance are operators.
`ValueChanged` runs on the notifier's thread at any time, and the camera's cable may be
pulled at any time.


## 5. What the runs show

| Run | Instance | Shows |
|---|---|---|
| `drives` | one order per way of clearing `autoReady` | type correctness; `StandbyAtRest`, `DoneMeansStill`, `StandbyMotorsOff`; the contract (`HonoursContract`); `AbortHonoured`.  Aborts and mode changes come between any two accesses. |
| `drives_stopping` | a motion and `stopDrives` | `StopHonoured`: a stop that first loses to a pass under way still stops the wheels later. |
| `drives_stop` | the same | a violation: `StoppedMeansStopped`, what the comment of `stopDrives()` promises (section 10). |
| `auto` | the built-in program TEN_BALL_BLUE | `ParametersMatch`, `TimerHasTarget`, `ThrowsOnlyUnloaded`, `ProgramSettles`, over any number of runs, also when a timer of an earlier run fires in a later one. |
| `auto_stuck` | motions, a stop, a short row and an unknown command under critical steps and a background timer that goes back, and no end | type correctness also past the last row; `CritStepReached` although motions never end, rows throw in every pass, and the background timer moves the program back before the critical step or after it. |
| `shooter` | all orders, aborts on both threads, any change of mode | type correctness; `SwitchesObeyed`: what was read before a switch was turned off does not keep feeder or flywheel going; `EdgeTakenUp`. |
| `subsystems` | five parts of the robot program | `SubsystemsSound`: types; a thread always sleeps between half and the whole of its time; the ramp keeps its direction and limit while the clock moves on, and its bound when it is set back, and encoder counts add up; a program that is read has the file's rows.  `PressesTold`; `DisabledComesToRest`; `CycleAlternates`. |
| `vision` | three images | type correctness; `AimVouchedFor`; `TargetTaken`: a target chosen while Vision handles another is not lost. |
| `tables` | a server and two clients | type correctness; `IdsSound`: the server's id map is exact, a client finds an entry by its id, both mean the same entry by an id, a value written to one entry lands in no other (`ValuesOwn`), and no two ids of a client lead to one entry; `Converged`: when nothing is under way clients have the server's values; `ListenersSeeTable`. |
| `connection` | a node with two connections, started and stopped | type correctness; `ConnectionsSound`: listeners hear "up" at most once and then "down", a connection out of the list is closed, a refused revision falls back once, `Stop()` leaves nothing running; `ThreadsProgress`: `Stop()` returns, a client tries again. |
| `services` | five parts of a node | `RpcSafe`, `SaveSafe`, `NoticesArrive`, `HeardInOrder`, `OverrideSound`, `DescriptorsSound`, `ShutdownEndsAccept`. |
| `library` | eight parts that one thread uses at a time | `CodecsSound`: what is written is what is read; `ContainersSound`: tables, streams and C structures keep what was put in; `TargetsSound`: a target is one of the picture of its own pass. |

Several of these are conditional, because without the condition the code violates them.
The conditions, which are also statements about the code:

* `OneIdEach` (in `IdsSound`) and `Converged`: `Calm`, that is, no message or snapshot has
  overtaken another, flags were not changed in a run in which the table was cleared, and
  clients clear nothing; and one node alone writes the entry.  For the values also that
  there were fewer changes than half a turn of the sequence numbers and no fault (and there
  it is enough that all set the entry to the same value).
* `ValuesOwn` (in `IdsSound`): no message or snapshot has overtaken another, or no connection
  was lost and the server did not restart.  The rest of `IdsSound` has no condition.
* `RightAnswer`: the uids have not wrapped around.
* `SomeCopy`: the process has not died before, and no restore has failed since the last save
  that was completed.  `NeverTorn`, `CleanIsSaved`: the program
  itself does not save to the same file.
* `OverrideIsCurrent`: the thread was started once.
* `OwnSocket`, `ShutdownEndsAccept`: no two threads have met in `close()` of one stream.
* `CritStepReached`: the background timer does not fire in the pass in which the critical step
  does, with a step before it (`Overruled`).
* `PressesTold`: the press before was recorded as released, no thread still works on it, and
  the system clock is not set back before it is told.
* `SpeedSound`: that the set point goes towards its target, for a time that is not negative.
* `ThreadSound`: that a thread is ended only by `init()`, `update()` or `writeLog()`, for
  subsystems that have a `LOG`.

Section 10 says what happens where they fail.


## 6. Bounds

Robot program:

* Threads: the real ones.  No thread is left out that calls into the component.
* `Orders`: `SomeMotions` has one order that clears `autoReady` first, one that clears
  it last, one that never does, and all three motion states.  Orders beyond that
  differ only in data the model does not have.  The proofs hold for every set.
* No counter in `Drives` or `Shooter` is bounded: the models are finite.
* Programs: `TenBall` is the program `getCurrentAuto()` loads, with one row for its
  three consecutive BALLACQ_TOGGLE and without what stands behind HOLD, which no
  jump reaches.  `Stuck` is built to meet every command and every error the first
  does not; its background timer moves the program back from wherever it is, also in the
  pass in which the first critical step fires.
* Times in programs: 10 s are two ticks, 0.5 s one.  A tick may fall between any two
  steps, so every order of timers and steps occurs; only which of two times is the
  longer matters.
* `FullSpeed` is the number of ramp steps to full speed, ten in the code and one in the
  run: below, at and above full speed are the cases the ramp tells apart.  `SomeAsks`: what
  `autoChanger()` is told in the run, a start and a stop of each kind that meets the cycle or
  the ramp.
* `MaxImages`: three images are enough for each field to hold another one.  The proof
  holds for any number.
* `Horizon` bounds `elapsed`: no time in the program is longer.  `MaxStep` is the row
  behind the program; a counter that runs on past it behaves the same at every value.
* `Inputs` 2 and two threads: one that watches both inputs and one that watches none, so
  the presses of one are taken by the other.  `MaxPackets` 3: pressed, released and
  pressed again.  Each packet changes at most one input.  `MaySetClock`: the system clock is set back
  once, while packets are still to come.
* `Lapses`: clocks that go back, stand still, advance by less than, just under and more
  than a sleep time.  `SetPoints`, `RampLimit`, `LoopTimeLimit`, `MaxLapse`: targets of
  both signs and zero, below and above one ramp step, and passes shorter and longer than the
  limit of the time.  `MaxBack` 1: the system clock is set back by one unit between two
  stops; `TopSpeed` 3 is the fastest of the targets.  The proof holds for any of these.
  `MaxLines`: every file of up to four lines of the three kinds.

ntcore:

* `Half` 4: sequence numbers are 0 .. 7 instead of 65536; what matters is that they
  start at 0, advance and compare.  The wrap itself is proved for the real width.
* Two clients, one of them connected at the start, so that the other's handshake meets
  traffic.  Two names: "mode", which only the server writes, with three values of two
  types, since a change of type is assigned and not updated; and "peg", which both
  clients write.  The server clears.  Two operations, one fault: every property is
  about the meeting of a change with another change or with a fault.  Only `ValuesOwn` takes
  three changes to violate (two entries, and an update whose id has come to mean the other
  one): the run would not notice, and the theorem is what shows it.
* `MaxIds` 3: a deleted entry that comes back takes the third.
* `MaxConns` 2: one connection replaces, or coexists with, another; `MaxQueue` 2;
  `MaxStarts` 1, since `Stop()` joins every thread a next start could meet, except
  detached ones (section 10); `MaxBroken` 1 stream broken by the network, others being
  closed by the node itself.  The proof holds for any of these numbers.
* `MaxUid` 1: two uids, which wrap with the third call (`MaxCalls`).  Two callers.
* `MaxVersions` 2, `MaxFiles` 3, `MaxCrashes` 1: two saves of different versions, a
  temporary file, the file and its backup.  No crash comes after the two savers have met, nor
  do they meet after one (`MCMeetOrCrash`), since nothing is claimed of the file then.  The
  proof holds for any, and without that.
* Notifier: two keys, one below the prefix of both listeners; two listeners, with all
  flags and with few; `MaxChanges` 2, `MaxThreads` 2: two changes under one thread, and
  a restart of it with two of changes and listeners together (`MCFewWithTwo`).
* `Addresses` 1, 2, and 0 for none; two threads overlap; three messages, four calls.
* `MaxFd` 3: enough descriptors for a listener, and two streams that take each other's
  number.  `MaxStreams` 2.
* Tables: four keys in two buckets of four, so that collisions, tombstones and growth
  all occur; `FirstBuckets` and `LeastBuckets` stand for 16 and 64.  `WordBits` 8
  for numbers.  Texts of up to five characters; strings either side of a length that
  takes two bytes; values of every type; streams of three messages (`MaxSent`) of every kind,
  of which the third is an update (`MCSendable`), of either of two entries, whose types may
  have been changed by an assignment just before; strings too long for the old
  revision, and arrays too long for either, from four elements on (`LongString` 3 and
  `LongArray` 3 are 65535 and 255 in the code); a buffer of three bytes (`BlockSize`) and
  chunks that are shorter and longer.  C structures of three types with up to one
  element.
* Pictures: one and two targets, at equal and other heights, at the edge, too dim, one
  inside another.  `MaxRefresh` 1 stands for 10000: the pass counter wraps at every second
  pass.  One change of mode, the camera in and out.


## 7. Fairness

All subsystem threads of the robot run at `NORM_PRIORITY`, none holds a lock or waits
for another, and a pass sleeps for at most its sleep time (`ThreadSound`).  So each
thread gets to take its next step: weak fairness of each thread's steps.  In `Drives`
it is required of the Drives thread, of an order once it has been started and of
`stopDrives()`; in `Autonomous` of the sequencer, the Robot thread, the drives'
handling of an abort or a stop, and of time; in `Shooter` of the Shooter thread,
of a call once it has been started and of each thread's abort; in `BallAcq` of its
thread, of a change begun and of time; in `DriverStationControls` of each subsystem's
thread and of `Announce`, the driver station's own flag of a packet it has sent; in
`VisionLink` of the Vision thread.

Nothing is assumed of the surroundings: the sequencer may never give an order, a
motion may never end (the robot can be pushing against a wall), and the field may
change the mode or not.  Therefore `CritStepReached` and `ProgramSettles` are
conditional on autonomous mode lasting, and `AbortHonoured` and `StopHonoured`
except test mode, in which no pass is made.  The liveness of `Shooter` is likewise
conditional on autonomous mode: elsewhere the operator's switches decide.
`AbortHonoured` also needs that no order is half issued (section 10).

`Dispatcher` has weak fairness of each read and write thread, except a read thread that
waits for the other node, which may never answer; of the dispatch thread's pass as far
as it asks for a reconnection, and of its end; of the main thread; and of destroying
and stopping.  Mutexes are free after one step or are held by the main thread while it
destroys, so no strong fairness is needed.  Timeouts of `Stop()` are part of the
stopping thread.  (`Joins` may detach a thread at any time.)  `NetworkTables` states weak fairness of what is in a node's hand and
of each client's connection, but its properties are safety.  `Sockets` has weak
fairness of the server thread and of the thread that shuts the acceptor down; whether
anybody connects is up to the network.

The properties of all other modules of ntcore are safety properties, and no fairness
is assumed of them.


## 8. Memory model

Every access to a field of the robot program that another thread writes or reads is a
step of its own, and accesses take effect in one global order.  Java promises less
for plain fields: a thread could go on seeing an old value.  In this program each loop
contains calls into synchronised library code (`Thread.sleep`, the driver
station), which keeps the compiler from hoisting a read out of it; what remains,
the reordering of neighbouring accesses, is not modelled.  A deviation found here
therefore exists in the program; a property that holds is one of the program
executed as written.

Merged into one step, because the other side cannot tell: the two wanted speeds;
the two reads in `isAutoDone()` and the reads of the mode together with the flag
tested with them in `Autonomous`; the three calls of `abortCommands()` there; in `Shooter` the
reads of `visionOff` and `manualControl` in one test, and the operator's switches from
the fire button on, which in teleop only an abort could interleave with.

In ntcore a section under a mutex is one step, since every other access to the same
data takes that mutex; where the code accesses something without it (`Notifier::Stop`,
connection states read by `QueueOutgoing`, a stream's descriptor), the access is a step
of its own.  Atomics are sequentially consistent in the source.


## 9. Proofs

The theorems hold for every value of the constants that meets the assumptions.

`DrivesProofs`, from `OrdersAssumption` (orders are ones that exist) and, except
for type correctness, from `"stopDrives" \notin Orders`:

* `TypeCorrect`, `StandbyIsAtRest`, `DoneIsStill`, `StandbyIsOff`, `DrivesKeepContract`.
* The properties are not inductive.  That `wheels` is zero in STANDBY depends on
  who may write STANDBY and what a pass on its way to that write has left in
  `wheels`.  `RestInv` adds: nothing is stopping (`NeverStopping`); only the Drives
  thread writes STANDBY and DISABLED, so a pass in a moving case still sees
  another state (`BusyNotStandby`); a pass that is about to write one of the
  states of rest has zero wheels (`ParkingAtRest`); a pass that is about to steer
  has cleared `autoReady` and nobody but STANDBY sets it again (`MovingNotReady`);
  TELEOP is not entered during a motion (`TeleopNotMoving`); and the powers
  computed in STANDBY are zero (`StandbyPowerOff`).
* `DrivesKeepContract` maps each action to one of the contract's or to a stutter,
  under `RestInv`.
* The assumption is needed: with `stopDrives` on another thread the invariants
  are false, which is what `drives_stop` shows.

`AutonomousProofs`, from `ProgramAssumption` (a program is rows, and its times and
jump targets are within the horizon and at most one row behind the end):

* `TypeCorrect` and `ParametersAreItsOwn` for every program, however ill-formed.
  `RowInv`: while a command is under way (`~incStep`) it is the one of row
  `currStep`, a pass performs commands only then, and only DRIVES_LIFT waits.
  The invariant survives the jumps because both set `incStep`.
* `NoPassThrows` and `TimerAlwaysHasTarget` for every well-formed program: rows long
  enough, jumps to existing rows, HOLD or END last.  `RunInv` adds that a loaded
  program that moves on has a next row, that a command under way was loaded, and
  that the armed jumps lead to rows.  It rests on END and HOLD never moving on.

`SubsystemsProofs`, for any number of threads, buttons, packets and lines and any sleep
time, ramp and set points: `PartsSound` (`SubsystemsSound`).  The parts share nothing,
so `PartsInv` is an invariant for each and a step leaves all but one alone.

* Buttons: a thread that works on a packet stands at one of the inputs, or at the question
  for one it asks about (`CursorsOK`), which needs that it asks for an input at most once
  in a pass (`WatchesAssumption`).
* Speed: that the set point does not outrun the ramp is a bound on a product of the ramp
  and the time, with both signs of each (`RampStepBounds`).  A negative time takes the set
  point past the fastest target, by no more than the ramp makes of all the clock was set
  back since the last stop (`setBack`), and a time that is not negative never takes it
  further from where it may be.
* The reader of programs: the rows stored so far are the lines passed that are not empty, in
  order (`CsvStored`), and the height counted beforehand is the number of those lines; so
  the second reader stops before the end of the file, or goes on for ever exactly if there
  was no first row.  The recursion over the lines is put as the cardinality of a set of line
  numbers, which needs no induction (`FilledNext`).

In the same module, `ShooterTyped` (`ShooterTypeOK`), for any orders of the sequencer and
whatever the operator does: inductive as it stands, for the operator's buttons too make the
wanted speed one that was asked for, and a pass knows at each place which locals it has set.

`VisionProofs`, about both ends of the camera's link.  For any number of images:
`VisionTypeCorrect` and `AimIsVouchedFor`.
`AimInv` adds that what the listener has left to store is the end of one of its two
orders, that the boiler's stored time is never ahead of its angle and the angle is the
last image's when only the time is left (`AngleBeforeTime`), and that the angle the
Shooter is about to read is no older than the time it has read (`TimeBeforeAngle`).
It rests on the order of two lines of `setTarget()`; for the lift the order is another
one, and nothing of the kind holds for its distance.
For any number of passes of the camera's program, `PassesAreHeard`: no value it writes is
equal to the one in the table, since each has a new pass number (`RefreshIsNew`).

`NetworkTablesProofs`, for any entries, values, clients, writers, changes, losses and
restarts: `TablesSafe`, and from it `TablesTyped`, `ListenersKnow` (`ListenersSeeTable`)
and `ServerIdsExact` (`ServerMapSound`); and with a second invariant `IdsAlwaysAgree`
(what `IdsSound` says without a condition, on the server and its clients), and with a third
`ValuesAreOwn` (`ValuesOwn`).  The
assumptions are that there are finitely many names, that no name and no value is the
mark of none, and that the programs that write and clear run on nodes
(`StorageAssumption`, `TablesAssumption`).  `TablesInv` consists of

* `NodeInv`: every storage is `Good` (it has its type, and if it is the server's its id
  map is exact and no entry is without an id); its listeners know it; and each thread
  holds messages of the protocol, never an empty list of them (`Held`);
* `NetInv`: what is pending, and under way, are messages of the protocol, and what the
  streams of a connection hold depends on how far its handshake has come
  (`StreamsAgree`): the client finds exactly the server's snapshot where it waits for it,
  all of whose entries have ids, and the server the client's reply;
* `FileInv`: the file holds no more entries than there are ids, which the restart needs.

  Each operation of `Storage` is shown once to have a good `Outcome` for any good storage
  and any message: a storage that is good again, of the same role, messages to send, and
  notifications after which a listener that knew the table knows it again (`Tells`).
  An action of `NetworkTables` then is a `Pass` with such an outcome (`PassKeeps`), or
  moves messages.  The server's exactness is not inductive on its own: that an
  entry never loses its id, and that no id is given twice, needs `size` to bound every
  id in use (`MapSound`), and a message to be one the other end could make.

That a client means by an id what the server means says nothing of the messages in
between, and no two id maps need to agree while one lags behind.  `IdsInv` therefore
states that there is a naming (`Namings`: a function from ids to names) with which
everything agrees that a server has ever said: its own id map; every assignment that a
thread holds, that waits, or that is under way, in a snapshot too (`Says`); and the id map
of every client that has applied a snapshot (`Heard`).  Beyond the ids given out the
naming is empty, so a server that gives out the next one extends it, and what agreed
before agrees still (`Extends`, `HeardMore`): that is where it matters that an id is never
used again.  Each operation of `Storage` is shown to take ids out of the id map only, but
for new ones on a server (`Traced`) and for the one an assignment tells a client
(`Learns`), and to leave the entry of an id where the id map finds it (`Linked`).  A
restart starts a new naming, and then no client is connected.  Two id maps that agree
with one naming agree with each other (`OneNaming`).

A value travels with an id, so where it lands depends on what the id means when it is read.
`ValuesInv` states that the naming of `IdsInv` can be chosen so that all that is held, waits or
is under way, in both directions, is `Apt`: an assignment brings a value of the entry it
names, by an id that means this entry or by none, and an update with an id one of the entry
that the id means.  Each operation of `Storage` that is given what is apt leaves values of
their own in the table and tells what is apt (`AptResult`, from `DefaultApt` to `ApplyApt`).

* Queueing merges an update into an assignment that waits, at the position kept for its id.
  That this is an assignment of the same id (`PendOK`) is an invariant of what waits, and
  what queueing does to it is shown once (`QueueOutcome`), for the order of messages too.
* What a client's thread holds must be apt only while the connection takes messages
  (`Engaged`): a server that restarts names its ids anew, so what is held then has old ones.
  It is dropped if it is queued before the client is connected again; if not, the
  client's table was merged with the server's before, and the message was overtaken.  So
  where `Orderly` ends (`~Overtaken \/ faults = 0`) the statement does, and it must: section
  10.

`TableOrderProofs`, for the same: `IdsAreSound`, all of `IdsSound`.  What is left to show is
`OneIdEach`: while all is `Calm`, a client has one id for an entry that one node writes.
This needs what is on its way to the client to be in order, and not the messages one by
one: `Line(c)` is what was posted to the client, then what waits to be, then what the
threads hold.  Each prefix of it leaves some ids `Alive`, those that the client knows or
is told of and that are not freed again.  The line is `InOrder` when each prefix leaves
at most one id of an entry alive (`InTurn`), and what the whole line leaves alive is what
the server's id map shows (`InTable`).

* A line changes in five ways, each of which keeps it in order: messages give place to
  milder ones, one that frees nothing is left out, a ClearEntries knocks out what
  waits, the server says something more at the end, and the client reads at the front
  (`Milder`, `NewOnly`, `TellsLess`).  What `QueueOutgoing` does to what waits is always one of
  the first three (`Queued`); that it merges in place is no harm, since an update counts
  from the start as giving the id which an assignment merged into it gives.
* To the node that writes an entry an id of it is always new, and what this node frees it
  is never given again (`NewOnly`, `Fair`): else the server's answer to a change could
  name an id that the client has already deleted.
* The conditions of `Calm` are where it bites.  `PlainInv` says what they are worth: without
  changed flags nothing is persistent, a ClearEntries deletes all, and
  without one none is under way; and each thread of the server holds one message.

The invariant is the conjunction `TablesInv`, `IdsInv`, `ValuesInv`, `PlainInv`, `OrderInv`.

And in `NetworkTablesProofs`, for every width of the sequence numbers: with `After(s, k)` the number k steps after
s, `LtAsymmetric`, `LaterIsGreater` (fewer than half a turn later counts as later, wherever
the numbers wrap) and `TooLateIsNotGreater` (half a turn or more does not).

`DispatcherProofs`, for any number of connections, starts, broken streams and any length
of queue: `ConnectionsAreSound` and `NodeTypeCorrect`.  `NodeInv` adds:

* of the main, dispatch and user threads, which of them can be where at once, and that
  the lists hold connections that were made (`FlowInv`); of each connection, the
  shape of its record, what its state says of its threads, its descriptor and its
  listeners (`ConnInv`); one not started is as it was made (`FreshInv`);
* what is out of the lists has ended for good (`OutInv`), the destructor has come as
  far as `step` says (`StopInv`), and every connection at the old revision was paid
  for by a refusal that no other has used (`CountInv`).  That there are no more refusals than
  connections, which the types say, needs that each used up a read thread (`Spent`).

Most steps change one connection.  The relation `Evolves` between a connection before
and after such a step is what all of them share; each action is first shown to be an
`Evolves` and then, once and for all, such steps to keep `NodeInv`.

`ServicesProofs` is about the parts of a node that share no state, each by itself:

* Remote calls, for any number of callers and calls and any width of the uids:
  `RpcCallsSafe`.  On its way a call passes seven places (requests, the server's two
  queues, the hand of the thread that answers, responses, the results that are kept, the
  answers handed out).  `RpcInv` adds that it is never in two of them, nor twice in
  one (`Once`), that calls have different uids until these wrap around (`UidsFresh`), and
  that what is kept for a uid is its own call's answer (`OwnAnswer`).
* The persistent file, for any number of versions, files and crashes: `PersistentFileSafe`.
  `SaveInv` adds to the parts of `SaveSafe` that no file has two names (`OneName`), that
  files not yet made are empty (`NotCreated`), that one saver works at a time unless both
  have met (`OneSaver`), what the temporary file holds at each place of a save (`TmpKnown`),
  which names are there at each place (`NamesByPlace`: the backup is the only one just
  between the renames, unless a restore has failed), that up to the first crash and the first
  such restore a whole copy is kept (`KeepsOne`), and that a clean table is the one being saved (`CleanIsSnap`).
* The driver station's client, for any addresses, threads, messages and calls:
  `DsOverrideSound`.  `DsInv` adds that a thread between connecting and leaving has its
  stream, that a thread not started is as new, that the one in charge is active, that while
  an override is set some thread is left that will clear it (`HasTaker`), and that the first
  thread remembers the address it set (`FirstKnows`).
* The descriptors, for any number of them and of streams: `SocketsSafe`.  `SocketsInv` adds
  that the standard input is never closed (`ZeroTaken`, so that no socket has its number), that streams are left for every connection (`EnoughStreams`), who holds each
  number that is in use (`StreamsOwned`, `OthersOwned`), and, until two threads meet on a
  stream, that what a thread is about to close or read is still that stream's
  (`Unraced`).
* The listeners, for any number of them, of threads and of changes: `NotifierSafe`
  (`NoticesArrive`) and `NotifierOrder` (`HeardInOrder`), from the assumption that a
  connection is not named as an entry is (`LinkAssumption`: in the code they are kept in
  different queues).  That nothing is lost says nothing of the states between, so
  `NotifierInv` says for every state where the missing notice is: in the queue, for all or
  for just this listener, or in the thread's hand while the listeners not yet passed include
  it (`AllDue`; a listener whose immediate notifications are still to be queued is owed
  nothing until then).  That what it is told is never older rests on the order of the queues
  (`ThreadOK`), on a listener being known to one thread only, also after that thread was
  stopped (`OneHome`), and on its having been told nothing newer than what is on its way
  (`ToldOlder`).  The lemmas about records show what a
  step does to one thread; `OneMoves` and `Queued` lift them to the whole state.

Only model-checked: all liveness, which TLAPS cannot prove (`DisabledComesToRest`,
`CycleAlternates` and `PressesTold` among it);
`Converged`, for which the order of the messages (`TableOrderProofs`) would have to be
joined with that of the sequence numbers along the line; and the formats, the containers
and `TargetsSound`, which are recursive definitions or folds over data and so beyond the
prover.


## 10. Where the code does not do what it says

`drives_stop` is the violation a run shows: `stopDrives()` answers "stopped" from its own
thread (its comment: "@return if the drives have actually stopped") while a pass of
the Drives thread that has already switched to a motion is about to set the wheel
speeds.  The state is then STANDBY with the wheels turning, and the pass of STANDBY
does not zero them.

The rest was met while modelling.  The models contain what is said here, unless the
entry names a part section 11 leaves out; the properties are stated so that they
hold beside it.

Robot program:

* `Autonomous.java`: a pass past its mode test orders its motion after the Robot thread's
  abort (540; the comment at 496 says otherwise).  The background timer overwrites the
  step that the critical step has just set in the same pass, and the critical time is
  already cleared (291, against the comment at 22): the one exception of `CritStepReached`.  The row is read before the test
  that there is one (302), so "Do Nothing" throws in every pass.  Loading a program
  does not reset the background timer, so the built-in program entered again within
  ten seconds is ended at its only timer (391).  A timer that fires at END starts the
  program again behind it (287-298).  A turn without its mode throws before its
  default (327).
* `Drives.java`: `case STANDBY` sets `autoReady` (313) after the state was read, so an order
  in between is answered "done" for a moment, and the sequencer may go on to its next
  row; the wheels have no speed then (`DoneMeansStill`).  `isDiagnostic` is reset only by
  `case TELEOP`: if TELEOP is left with the button held, passes of other states leave
  the motors alone (396).  Drives in TELEOP stay there in autonomous mode until an
  order or an abort comes (350-384).
* `Shooter.java`: the pass that sees a changed `isPressed` puts `INITIAL_SPEED` over the speed
  `shooterSystemState()` has stored (270-275, against `Autonomous.java` 372).  A switch that
  changes back between lines 271 and 280 takes the branch of the other edge.  Every
  pass overwrites the shroud position of the command (308).  The operator's buttons read the
  wanted speed and write it back (398-402), in autonomous mode too, so one that the
  program stores in between is lost.  `manualControl`, `isPressed`
  and `fireWhenReady` of the operator outlive a change to autonomous mode.
* `Vision.java`: the LED is set from one read of `targetType` (76), the change remembered from
  a later one (80), so a target chosen in between never reaches the LED, nor, if it is chosen
  between the mode that is sent and the reading at 80, the camera computer.
* `DriverStationControls.java`: two threads that took the flags of two packets both see one
  press as new, and it is told twice; or the slower one stores the value of an earlier
  packet, and the next press is none (620-628, against the comment at 457).  A press
  made while its owner does not ask (disabled, autonomous mode) is told when it next
  does.  Both stamps are of the system clock (623, 635): a press made after it was set back is
  older than the last question, and is not told.
* `GenericSubsystem.java`: the LogWriter has no `LOG`, and its first pass reports an excessive
  sleep through it, outside the `try` (127): the thread ends.  Nothing is lost by that,
  since `Logger.java` 102, which would queue messages, is a comment.  `init()`, `update()` and
  `writeLog()` are outside it as well (116, 131, 143), so that an exception in one of them
  ends the thread of any subsystem.  In test mode the loop does not sleep (162).
* `PID.java`: when the clock is set back the set point is ramped away from its target, by
  a negative time (91-98), and past the fastest one (the last conjunct of `SpeedSound` says
  how far).  `maxMinMode` is never turned on, so the ±0.95 that `Drives` sets has no
  effect.  `EncoderData.reset()` would leave `lastSpeedCount` behind; nothing calls it.
* `CSVReader.java`: a file with an empty first line, or none, is read for ever; after an
  exception the result is null and is used.  Nothing calls it.

Tables (`Vision/src/Storage.cpp` and `NetworkConnection.cpp`):

* A client that creates an entry from an assignment leaves its sequence number at 0
  (`ProcessIncoming`), as does a server asked for an id.  The first changes the client
  makes of such an entry are then older, to the server, than what it has, and are
  ignored; client and server differ from then on.  Hence the condition on writers
  in `Converged`.  (In this program each entry has one writer.)
* A deletion knocks out an answer to an id request that was not posted yet: the client
  that asked keeps an entry that was deleted.  `ClearEntries` knocks out a pending change
  of flags.  Flags carry no sequence number.
* A snapshot taken while a message is in a thread's hand makes two ids for one entry of a
  client, and so does an assignment that follows a deletion the client never applied, as
  when a `ClearEntries` knocked out its change of flags, or when several nodes write the
  entry.  A ClearEntries of a client does it, too: it reads an assignment that was under
  way when it cleared, the server clears without telling it so, and the writer's next value
  gives the entry another id.
  A deletion by one id then frees the entry the other still leads to, which
  `IdsSound` excludes for what one node writes (`OneIdEach`), while all is `Calm`.
* A thread of a client that has changed an entry, and not queued the message yet, may lose
  its processor until the server has restarted and the client is connected again.  It then
  queues an update with an id of the old server, which the new one may have given to
  another entry; the value lands there.  Hence the condition of `ValuesOwn`.
* Entries deleted while a client was away come back with it.  The server's hello always
  has flags 0, so every server is a new one to every client (`Dispatcher.cpp` 497-501).
* An entry's pointer is used after the mutex was released and taken again (150-152).  Ids
  are never used again, and 0xffff is both an id and the mark of none.  More than 32768
  updates nobody heard of make a newer value older (`TooLateIsNotGreater`).
* A remote `ClearEntries` is notified as a local change, and only if there are local
  listeners.

Connections (`Vision/src/Dispatcher.cpp`): a detached read thread uses a connection that
is gone, and a detached write thread never gets the token that would end it; a
handshake that fails on the server leaves the stream open until the slot is used
again; `StartServer` after the acceptor failed assigns to a joinable thread; a late
`ClientReconnect` closes a healthy connection.

Remote calls: after the uids have wrapped around, a result nobody fetched is handed to
another call; a call cancelled and its uid used again wakes the wrong waiter;
`PostRpcResponse` reads a map without its lock (`RpcServer.cpp` 110-116).

Persistent file: a crash between the two renames leaves no file, the next start loads
nothing, and its first save removes the backup.  Without any crash: if the new file cannot be
moved to its place and the backup cannot be moved back, the backup is the only file, and the
next save begins by removing it (942), so that if its move fails as well nothing is left.  If
the old backup could be neither removed nor replaced and the move fails, `Restore` puts it, an
older version, in the place of the file (945).  A save by the program to another
file marks the table clean, and an error in it does not mark it dirty.

Listeners: `Stop` changes its flag without the mutex (`SafeThread.h` 103-108), so that a
thread about to wait misses it; a listener added after `Stop` meets a null thread; a
thread that starts again has none of the old listeners; `NetworkTable`'s
`AddSubTableListener` (`NetworkTable.cpp` 238) never notifies; `SetFlags` and `ClearFlags` read
and write in two steps (317-329).

Driver station: an old thread's last `ClearServerOverride` clears what its successor has
set; `Shutdown` forgets the servers, and in server mode leaves the thread running.

Sockets: concurrent `close()` of one stream closes a descriptor that is another's by then,
and with it perhaps the listener, whose shutdown then wakes nobody; a shutdown before
start replaces descriptor 0; `setBlocking` does not set `m_blocking`; a short send counts as
success; running out of descriptors ends the server's loop.

Formats: a raw or RPC value for a node of the old revision leaves half a message on the
wire; a name that ends in a backslash is lost in the file, and `UnescapeString` pushes
a backslash for `\"`; a line cut behind an opening quote, or behind `\"`, is read past
its end (`Storage.cpp` about 1000); an empty number is 0; numbers are saved to six digits.

C interface: `Value::MakeStringArray(ArrayRef)` points at the caller's strings, contrary to
its comment (`Value.cpp` 55-67), so a C listener reads freed memory; `NT_SetDefaultEntryRaw`
makes a string (`ntcore_c.cpp` 767-772); the array of `NT_UnpackRpcValues` has no disposer;
boolean arrays are compared byte by byte.

Containers: `StringMap::clear()` leaves the tombstones of an empty table; a shrinking
`DenseMap` multiplies its size twice; a stream opened to append tells positions from 0;
`raw_fd_istream` repeats bytes, and recurses for ever at the end of a file (54-79; the
program does not use it); `format_decimal(0, 0)` asks for 2^32 - 1 spaces; `split` by an empty
separator never ends; `count()` counts occurrences that overlap, contrary to its comment
(`StringRef.cpp` 344).

Camera computer: `errorOpening` and `exceptionFound` are not initialised
(`RectangleFinder.cpp` 15-18), and the second is cleared before each pass, so an error is
reported in every one; a camera that was once open is not opened again (26); the
default of `VALUE_MAX` is that of `VALUE_MIN` (`PegFinder.cpp` 51, `HighGoalFinder.cpp` 55), so
without a configuration nothing is found; a key without a value shifts every pair after
it (`ConfigReader.cpp` 15); one rectangle that is both the leftmost and the rightmost
hides the peg; `lookingForPeg` is written by another thread and is no atomic; the two
computations of the distance differ by up to 2.28 inches.


## 11. What is not modelled, and why

Robot program:

* Positions, speeds as numbers, sensors, brake mode and inversion in `Drives`: they decide
  when a motion ends, which is left open.  `holdDrives`, `hold` and `travelToCoordinate`:
  nothing calls them.
* The chooser of programs: `fromFile` is true and the built-in program is loaded
  (`getCurrentAuto`).  Programs are therefore a constant.  Test mode in `Autonomous` (no pass
  is made in it; `Drives` has it).  Distances, angles and speeds in rows; steps and
  times in them are taken to be non-negative, and so is the time that passes by the
  sequencer's clock, which is the system's.
* The turret angle, the shroud, the amount of the wanted speed and the states of the diagnostics in `Shooter`; the
  camera target is in `VisionLink`, which is not composed with it.
* The conversions of the listener, the coordinates of a target and `moveToLift` as a
  reader in `VisionLink`; `transport()` in `BallAcq`, which nothing calls.
* In `DriverStationControls` times of release, which nobody asks for, axes (whose
  inversion by `setInverted` has no effect on `getAxis`), and what only passes the driver
  station's answer on.  The output of `PID`, `EncoderData.reset()`.
* `Scaling`: `readControls()` overwrites its state at the start of every pass, so SCALING and
  the limit switch are never reached; a pass is a function of the axis it reads.
* `Logger`'s queue and `LogWriter`'s pass, since nothing is queued (section 10).
* The robot's own camera code: image processing and constants.

Known and without a property, besides the hazards in `PROJECT.json`: in `Drives.java` 351
(TELEOP in autonomous mode) and 627 (`moveToLift` uses the last picture however old); in
`Autonomous.java` 302, 347, 244, 321 (a motion refused is taken as given) and 498
(`abortCommands` tells the ball acquisition nothing); in `Shooter.java` 271 and 308; in
`BallAcq.java` 188; in `DriverStationControls.java` 354 (all objects share one record of the POV).

ntcore and the camera computer:

* Identities, several servers to choose from, and a start after the acceptor has failed
  in `Dispatcher`; a client program that restarts, in `NetworkTables`; addresses, options and
  the branches for Windows in `Sockets`; the process ending during a call in `RpcCalls`; the
  interfaces in `networktables/` that turn a notification into a call.
* UTF conversions (`ConvertUTF.cpp`): pure, and called only from the Java binding
  (`ConvertUTF.cpp` 609, the lenient conversion, writes behind its target).  The Java
  binding (`jni_util.h`), mDNS, logs and time stamps: no state of interest, or not built
  into the program.  Small vectors, arrays, hashing, paths, and what nothing in ntcore
  calls.
* OpenCV's part of the finders: a picture is the rectangles it finds.

`tables`, `connection`, `services` and `library` are not composed with each other or with the
robot's modules: `VisionLink` has the listener's calls as they come, which is what
`ListenersSeeTable` and `NoticesArrive` promise.


## 12. Plan

What is left, in this order:

1. A composition of `Autonomous` and `Drives` (refused orders, waits that end early),
   as a refinement of the sequencer with one-step drives.
2. `NetworkTables` with `Dispatcher`'s threads for one connection; clients that restart.
3. `Shooter`, continued: the turret angle, the shroud position, and the camera target
   with `VisionLink`; `moveToLift` as a reader of the lift's image.
4. Proofs: `Converged`, along the lines of `TableOrderProofs`; for `Drives` with `stopDrives` the part of
   `RestInv` that survives; the contract of the drives as the sequencer's model of them.
