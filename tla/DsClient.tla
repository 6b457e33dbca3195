------------------------------ MODULE DsClient ------------------------------
(***************************************************************************)
(* Finding the server through the driver station                           *)
(* (Vision/src/DsClient.cpp, and the static half of                        *)
(* Vision/src/networktables/NetworkTable.cpp that starts and stops it).    *)
(*                                                                         *)
(* A thread reads the robot's address from the driver station and makes    *)
(* the dispatcher connect there instead of to the servers it was given.    *)
(* Stop() does not wait for the thread: an old and a new one may overlap.  *)
(***************************************************************************)
EXTENDS Naturals

CONSTANTS Addresses,     \* robot addresses; 0 is "none"
          MaxDsThreads,  \* bound: threads ever started
          MaxMessages,   \* bound: messages of the driver station
          MaxDsCalls       \* bound: calls of the program

ASSUME DsAssumption ==
  /\ 0 \in Addresses /\ Addresses \subseteq Nat
  /\ MaxDsThreads \in Nat /\ MaxMessages \in Nat /\ MaxDsCalls \in Nat

DsThreads == 1 .. MaxDsThreads

VARIABLES running, client, enabled,  \* s_running, s_client, s_enable_ds
          node,        \* what the dispatcher runs as
          servers,     \* m_client_connectors is not empty
          dsOwner, dsStarted,
          ds,          \* the threads
          override,    \* the dispatcher's override; 0: none
          messages, dsCalls

statics == <<running, client, enabled, node, servers>>
dsVars == <<statics, dsOwner, dsStarted, ds, override, messages, dsCalls>>

NewDs == [pc |-> "none", active |-> FALSE, stream |-> "none", oldip |-> 0]

DsInit ==
  /\ running = FALSE /\ client = FALSE /\ enabled = TRUE
  /\ node = "off" /\ servers = FALSE
  /\ dsOwner = 0 /\ dsStarted = 0 /\ ds = [t \in DsThreads |-> NewDs]
  /\ override = 0 /\ messages = 0 /\ dsCalls = 0
-----------------------------------------------------------------------------
(* Start and Stop; a running thread only gets the new port.                *)

CanStart == dsOwner # 0 \/ dsStarted < MaxDsThreads

StartDsIf(wanted) ==
  IF ~wanted \/ dsOwner # 0 THEN UNCHANGED <<dsOwner, dsStarted, ds>>
  ELSE /\ dsStarted' = dsStarted + 1 /\ dsOwner' = dsStarted + 1
       /\ ds' = [ds EXCEPT ![dsStarted + 1] = [NewDs EXCEPT !.pc = "wait", !.active = TRUE]]

StopDs ==
  IF dsOwner = 0 THEN UNCHANGED <<dsOwner, dsStarted, ds>>
  ELSE /\ dsOwner' = 0
       /\ ds' = [ds EXCEPT ![dsOwner].active = FALSE,
                           ![dsOwner].stream = IF @ = "open" THEN "closed" ELSE @]
       /\ UNCHANGED dsStarted

Call == dsCalls < MaxDsCalls /\ CanStart /\ dsCalls' = dsCalls + 1
        /\ UNCHANGED <<override, messages>>

SetMode(isClient) ==
  /\ Call
  /\ client' = isClient
  /\ UNCHANGED <<running, enabled, node, servers, dsOwner, dsStarted, ds>>

\* The servers are replaced; connecting to this machine needs no station.
SetIPAddress(localhost) ==
  /\ Call
  /\ servers' = TRUE
  /\ IF localhost THEN StopDs ELSE StartDsIf(enabled)
  /\ UNCHANGED <<running, client, enabled, node>>

SetDSClientEnabled(on) ==
  /\ Call
  /\ enabled' = on
  /\ IF on THEN StartDsIf(TRUE) ELSE StopDs
  /\ UNCHANGED <<running, client, node, servers>>

\* GetTable() calls this when nothing runs.
Initialize ==
  /\ Call /\ ~running
  /\ running' = TRUE
  /\ node' = IF node # "off" THEN node ELSE IF client THEN "client" ELSE "server"
  /\ StartDsIf(client /\ enabled)
  /\ UNCHANGED <<client, enabled, servers>>

\* Stopping the node also forgets the servers.  In server mode the driver
\* station client is left running.
Shutdown ==
  /\ Call /\ running
  /\ running' = FALSE /\ node' = "off" /\ servers' = FALSE
  /\ IF client THEN StopDs ELSE UNCHANGED <<dsOwner, dsStarted, ds>>
  /\ UNCHANGED <<client, enabled>>
-----------------------------------------------------------------------------
(* The thread.                                                             *)

DsBecomes(t, new) ==
  /\ ds' = [ds EXCEPT ![t] = new]
  /\ UNCHANGED <<statics, dsOwner, dsStarted, dsCalls>>

\* After half a second, or at once when it is stopped.
WaitsDs(t) ==
  /\ ds[t].pc = "wait"
  /\ DsBecomes(t, [ds[t] EXCEPT !.pc = IF ds[t].active THEN "connect" ELSE "done"])
  /\ UNCHANGED <<override, messages>>

ConnectsDs(t) ==
  /\ ds[t].pc = "connect"
  /\ \E stream \in {"open", "none"} :
       DsBecomes(t, [ds[t] EXCEPT
         !.stream = stream,
         !.pc = IF ~ds[t].active THEN "done" ELSE IF stream = "none" THEN "wait" ELSE "read"])
  /\ UNCHANGED <<override, messages>>

\* A message with the address; whether the thread is active is seen again
\* while it reads.
ReadsDs(t) ==
  /\ ds[t].pc = "read" /\ ds[t].stream = "open" /\ messages < MaxMessages
  /\ messages' = messages + 1
  /\ \E ip \in Addresses :
       DsBecomes(t,
         IF ~ds[t].active THEN [ds[t] EXCEPT !.pc = "done"]
         ELSE IF ip = 0 THEN [ds[t] EXCEPT !.pc = "clear"]
         ELSE IF ip = ds[t].oldip THEN ds[t]
         ELSE [ds[t] EXCEPT !.pc = "set", !.oldip = ip])
  /\ UNCHANGED override

SetsOverride(t) ==
  /\ ds[t].pc = "set"
  /\ override' = ds[t].oldip
  /\ DsBecomes(t, [ds[t] EXCEPT !.pc = "read"])
  /\ UNCHANGED messages

ClearsOverride(t) ==
  /\ ds[t].pc = "clear"
  /\ override' = 0
  /\ DsBecomes(t, [ds[t] EXCEPT !.pc = "read", !.oldip = 0])
  /\ UNCHANGED messages

\* Mutant: the address read last is not forgotten.
ReadFailsRemembers(t) ==
  /\ ds[t].pc = "read"
  /\ override' = 0
  /\ DsBecomes(t, [ds[t] EXCEPT !.pc = IF ds[t].active THEN "wait" ELSE "done",
                                !.stream = "none"])
  /\ UNCHANGED messages

\* The station, or Stop, closed the stream.
ReadFails(t) ==
  /\ ds[t].pc = "read"
  /\ override' = 0
  /\ DsBecomes(t, [ds[t] EXCEPT !.pc = IF ds[t].active THEN "wait" ELSE "done",
                                !.stream = "none", !.oldip = 0])
  /\ UNCHANGED messages

DoneDs(t) ==
  /\ ds[t].pc = "done"
  /\ override' = 0
  /\ DsBecomes(t, [ds[t] EXCEPT !.pc = "gone"])
  /\ UNCHANGED messages
-----------------------------------------------------------------------------
DsThread(t) ==
  \/ WaitsDs(t) \/ ConnectsDs(t) \/ ReadsDs(t) \/ SetsOverride(t)
  \/ ClearsOverride(t) \/ ReadFails(t) \/ DoneDs(t)

DsNext ==
  \/ \E b \in BOOLEAN : SetMode(b) \/ SetIPAddress(b) \/ SetDSClientEnabled(b)
  \/ Initialize \/ Shutdown
  \/ \E t \in DsThreads : DsThread(t)

DsSpec == DsInit /\ [][DsNext]_dsVars
-----------------------------------------------------------------------------
(* Properties.                                                             *)

\* The threads and the dispatcher's override have their types, and a thread that
\* reads has a stream.
DsTypeOK ==
  /\ {running, client, enabled, servers} \subseteq BOOLEAN
  /\ node \in {"off", "client", "server"} /\ override \in Addresses
  /\ dsOwner \in 0 .. dsStarted /\ dsStarted \in 0 .. MaxDsThreads
  /\ \A t \in DsThreads :
       /\ ds[t].pc \in {"none", "wait", "connect", "read", "set", "clear", "done", "gone"}
       /\ ds[t].stream \in {"none", "open", "closed"} /\ ds[t].oldip \in Addresses
       /\ ds[t].pc = "read" => ds[t].stream # "none"

Alive(t) == ds[t].pc \notin {"none", "gone"}

\* Only one thread at a time is not on its way out, and it is the one that can
\* be stopped: no order of the calls leaves two stations in charge.
OneInCharge == \A t \in DsThreads : Alive(t) /\ ds[t].active => t = dsOwner

\* With no driver station thread left, the client goes back to the servers it
\* was given, wherever the last thread was when it was stopped.
OverrideEnds == (\A t \in DsThreads : ~Alive(t)) => override = 0

\* Between messages the override is the address last read, as long as the
\* program has not restarted the thread.  (A stopped thread clears the override
\* when it ends, even one its successor has set, and the successor, which
\* remembers the address, does not set it again.)
OverrideIsCurrent ==
  \A t \in DsThreads :
    dsStarted = 1 /\ ds[t].pc = "read" => override = ds[t].oldip

\* The thread runs only while the program wants it: disabling it, or giving an
\* address after that, never leaves it on.
OnlyIfEnabled == dsOwner # 0 => enabled

\* What the run checks of the driver station's override.
OverrideSound ==
  DsTypeOK /\ OneInCharge /\ OverrideEnds /\ OverrideIsCurrent /\ OnlyIfEnabled
=============================================================================
