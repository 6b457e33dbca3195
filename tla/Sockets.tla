------------------------------ MODULE Sockets ------------------------------
(***************************************************************************)
(* Descriptors and the threads that share them (Vision/src/TCPAcceptor.cpp,*)
(* TCPConnector.cpp, TCPStream.cpp; the POSIX branches).                   *)
(*                                                                         *)
(* The server thread accepts while another thread shuts the acceptor down; *)
(* a connector makes streams; a stream is read by one thread and closed by *)
(* several.  The operating system gives out the lowest free number, so a   *)
(* number that was closed soon means another socket.                       *)
(***************************************************************************)
EXTENDS Integers, FiniteSets

CONSTANTS MaxFd,       \* bound: the highest descriptor
          MaxStreams   \* bound: streams ever made

ASSUME SocketsAssumption == MaxFd \in Nat \ {0} /\ MaxStreams \in Nat

Fds     == 0 .. MaxFd
Streams == 1 .. MaxStreams
Closers == {"reader", "writer"}   \* ReadThreadMain and WriteThreadMain

\* What a descriptor can stand for besides a stream's socket.
Free == -1   Listener == -2   Null == -3   Stdin == -4   Connecting == -5   Accepted == -6

VARIABLES fd,        \* what every descriptor stands for
          acc,       \* the acceptor: m_lsd, m_listening, m_shutdown
          server,    \* where the server thread is in the acceptor
          taken,     \* what ::accept gave it
          woken,     \* ::shutdown has been called on the listening socket
          stopper,   \* where shutdown() is
          connector, \* where connect() is, and its socket
          made,      \* streams made
          sd,        \* m_sd of each stream
          reading,   \* the descriptor a read is called with, or Free
          closing,   \* the descriptor each thread is closing, or Free
          raced      \* history: threads met on one stream's descriptor

acceptor == <<acc, server, taken, woken, stopper>>
streams  == <<made, sd, reading, closing, raced>>
socketVars == <<fd, acceptor, connector, streams>>

NotClosing == [at |-> "idle", sd |-> Free]

SocketsInit ==
  /\ fd = [n \in Fds |-> IF n = 0 THEN Stdin ELSE Free]
  /\ acc = [lsd |-> 0, listening |-> FALSE, shut |-> FALSE]
  /\ server = "start" /\ taken = Free /\ woken = FALSE /\ stopper = "idle"
  /\ connector = [pc |-> "idle", sd |-> Free]
  /\ made = 0 /\ sd = [k \in Streams |-> Free]
  /\ reading = [k \in Streams |-> Free]
  /\ closing = [k \in Streams |-> [c \in Closers |-> NotClosing]]
  /\ raced = FALSE

Unused == {n \in Fds : fd[n] = Free}
Lowest == CHOOSE n \in Unused : \A m \in Unused : n <= m

\* socket() and ::accept() fail, or take the lowest number.
Opens(what, n) == Unused # {} /\ n = Lowest /\ fd' = [fd EXCEPT ![n] = what]

\* The bound, with the streams that are about to be made.
StreamsUsedUp ==
  Cardinality({b \in {"server", "connector"} :
                 IF b = "server" THEN server = "accepted" ELSE connector.pc # "idle"})
    + made >= MaxStreams

\* The socket may have been closed by a thread that meant another.
NewStream(n, what) ==
  /\ made' = made + 1
  /\ sd' = [sd EXCEPT ![made + 1] = n]
  /\ fd' = [fd EXCEPT ![n] = IF @ = what THEN made + 1 ELSE @]
  /\ UNCHANGED <<reading, closing, raced>>
-----------------------------------------------------------------------------
(* TCPAcceptor.                                                            *)

\* start(): no socket; or a socket that cannot be bound or listened on, which
\* stays open; or success.
StartAcceptor ==
  /\ server = "start"
  /\ \/ /\ acc' = [acc EXCEPT !.lsd = -1]
        /\ server' = "over" /\ UNCHANGED fd
     \/ \E n \in Fds, ok \in BOOLEAN :
          /\ Opens(Listener, n)
          /\ acc' = [acc EXCEPT !.lsd = n, !.listening = ok]
          /\ server' = IF ok THEN "loop" ELSE "over"
  /\ UNCHANGED <<taken, woken, stopper, connector, streams>>

\* accept() looks at m_shutdown, blocks in ::accept, and looks again.
Accept ==
  /\ server = "loop"
  /\ server' = IF acc.listening /\ ~acc.shut THEN "accept" ELSE "over"
  /\ UNCHANGED <<fd, acc, taken, woken, stopper, connector, streams>>

AcceptCalled ==
  /\ server = "accept"
  /\ server' = IF fd[acc.lsd] = Listener THEN "blocked" ELSE "over"
  /\ UNCHANGED <<fd, acc, taken, woken, stopper, connector, streams>>

\* Once in the call, only a client, ::shutdown or a lack of descriptors ends it.
AcceptReturns ==
  /\ server = "blocked"
  /\ \/ /\ woken \/ Unused = {}
        /\ server' = "over" /\ UNCHANGED <<fd, taken>>
     \/ /\ fd[acc.lsd] = Listener /\ ~woken /\ ~StreamsUsedUp
        /\ \E n \in Fds : Opens(Accepted, n) /\ taken' = n
        /\ server' = "accepted"
  /\ UNCHANGED <<acc, woken, stopper, connector, streams>>

Accepts ==
  /\ server = "accepted"
  /\ IF acc.shut
     THEN server' = "over" /\ fd' = [fd EXCEPT ![taken] = Free] /\ UNCHANGED streams
     ELSE server' = "loop" /\ NewStream(taken, Accepted)
  /\ taken' = Free
  /\ UNCHANGED <<acc, woken, stopper, connector>>

\* shutdown(), by the thread that stops the node, in three calls.
Shut ==
  /\ stopper = "idle"
  /\ acc' = [acc EXCEPT !.shut = TRUE] /\ stopper' = "wake"
  /\ UNCHANGED <<fd, server, taken, woken, connector, streams>>

\* Mutant: the socket is not shut down.
WakeAcceptSkipped ==
  /\ stopper = "wake"
  /\ stopper' = "replace"
  /\ UNCHANGED <<fd, acc, server, taken, woken, connector, streams>>

WakeAccept ==
  /\ stopper = "wake"
  /\ woken' = (woken \/ (acc.lsd >= 0 /\ fd[acc.lsd] = Listener))
  /\ stopper' = "replace"
  /\ UNCHANGED <<fd, acc, server, taken, connector, streams>>

\* The listening descriptor becomes one of /dev/null.  (Before start() it is 0,
\* which is the standard input.)
Replace ==
  /\ stopper = "replace"
  /\ fd' = IF acc.lsd >= 0 THEN [fd EXCEPT ![acc.lsd] = Null] ELSE fd
  /\ stopper' = "done"
  /\ UNCHANGED <<acc, server, taken, woken, connector, streams>>

\* ~TCPAcceptor(), after the server thread was joined.
DestroyAcceptor ==
  /\ stopper = "done" /\ server = "over"
  /\ fd' = IF acc.lsd > 0 THEN [fd EXCEPT ![acc.lsd] = Free] ELSE fd
  /\ server' = "destroyed"
  /\ UNCHANGED <<acc, taken, woken, stopper, connector, streams>>
-----------------------------------------------------------------------------
(* TCPConnector::connect with a timeout.                                   *)

ConnectBegins ==
  /\ connector.pc = "idle" /\ ~StreamsUsedUp
  /\ \E n \in Fds : Opens(Connecting, n) /\ connector' = [pc |-> "connect", sd |-> n]
  /\ UNCHANGED <<acceptor, streams>>

\* Connected at once, refused at once, or under way: then select() waits, for
\* success, an error or the timeout.
ConnectTries ==
  /\ connector.pc = "connect"
  /\ \E pc \in {"select", "connected", "failed"} : connector' = [connector EXCEPT !.pc = pc]
  /\ UNCHANGED <<fd, acceptor, streams>>

Selects ==
  /\ connector.pc = "select"
  /\ \E pc \in {"connected", "failed"} : connector' = [connector EXCEPT !.pc = pc]
  /\ UNCHANGED <<fd, acceptor, streams>>

\* "Create stream object if connected, close if not."
ConnectEnds ==
  /\ \/ connector.pc = "connected" /\ NewStream(connector.sd, Connecting)
     \/ /\ connector.pc = "failed"
        /\ fd' = [fd EXCEPT ![connector.sd] = Free] /\ UNCHANGED streams
  /\ connector' = [pc |-> "idle", sd |-> Free]
  /\ UNCHANGED acceptor
-----------------------------------------------------------------------------
(* TCPStream.                                                              *)

Closing(k) == \E c \in Closers : closing[k][c].at # "idle"

\* receive() looks at m_sd, then reads from that number.
Receive(k) ==
  /\ sd[k] # Free /\ reading[k] = Free /\ closing[k]["reader"].at = "idle"
  /\ reading' = [reading EXCEPT ![k] = sd[k]]
  /\ raced' = (raced \/ Closing(k))
  /\ UNCHANGED <<fd, acceptor, connector, made, sd, closing>>

Received(k) ==
  /\ reading[k] # Free
  /\ reading' = [reading EXCEPT ![k] = Free]
  /\ UNCHANGED <<fd, acceptor, connector, made, sd, closing, raced>>

\* close(): look at m_sd; shut down and close that number; m_sd = -1.
CloseBegins(k, c) ==
  /\ sd[k] # Free /\ closing[k][c].at = "idle"
  /\ c = "reader" => reading[k] = Free
  /\ closing' = [closing EXCEPT ![k][c] = [at |-> "close", sd |-> sd[k]]]
  /\ raced' = (raced \/ Closing(k) \/ reading[k] # Free)
  /\ UNCHANGED <<fd, acceptor, connector, made, sd, reading>>

CloseFrees(k, c) ==
  /\ closing[k][c].at = "close"
  /\ fd' = [fd EXCEPT ![closing[k][c].sd] = Free]
  /\ closing' = [closing EXCEPT ![k][c].at = "forget"]
  /\ UNCHANGED <<acceptor, connector, made, sd, reading, raced>>

\* Mutant: the stream keeps the number it has closed.
CloseEndsKept(k, c) ==
  /\ closing[k][c].at = "forget"
  /\ closing' = [closing EXCEPT ![k][c] = NotClosing]
  /\ UNCHANGED <<fd, acceptor, connector, made, sd, reading, raced>>

CloseEnds(k, c) ==
  /\ closing[k][c].at = "forget"
  /\ sd' = [sd EXCEPT ![k] = Free]
  /\ closing' = [closing EXCEPT ![k][c] = NotClosing]
  /\ UNCHANGED <<fd, acceptor, connector, made, reading, raced>>
-----------------------------------------------------------------------------
ServerThread == StartAcceptor \/ Accept \/ AcceptCalled \/ AcceptReturns \/ Accepts
ShuttingDown == WakeAccept \/ Replace
Connector == ConnectBegins \/ ConnectTries \/ Selects \/ ConnectEnds

StreamStep(k) ==
  \/ Receive(k) \/ Received(k)
  \/ \E c \in Closers : CloseBegins(k, c) \/ CloseFrees(k, c) \/ CloseEnds(k, c)

SocketsNext ==
  \/ ServerThread \/ Shut \/ ShuttingDown \/ DestroyAcceptor
  \/ Connector
  \/ \E k \in Streams : StreamStep(k)

\* The server thread and the one that stops it run on; whether somebody
\* connects is up to the network.
SocketsFairness == WF_socketVars(ServerThread) /\ WF_socketVars(ShuttingDown)

SocketsSpec == SocketsInit /\ [][SocketsNext]_socketVars /\ SocketsFairness
-----------------------------------------------------------------------------
(* Properties.                                                             *)

\* Numbers stand for what they can stand for, and the threads are somewhere.
SocketsTypeOK ==
  /\ fd \in [Fds -> {Free, Listener, Null, Stdin, Connecting, Accepted} \cup (1 .. made)]
  /\ server \in {"start", "loop", "accept", "blocked", "accepted", "over", "destroyed"}
  /\ stopper \in {"idle", "wake", "replace", "done"}
  /\ connector.pc \in {"idle", "connect", "select", "connected", "failed"}
  /\ made \in 0 .. MaxStreams
  /\ taken \in Fds \cup {Free} /\ (taken # Free <=> server = "accepted")
  /\ \A k \in Streams : {sd[k], reading[k]} \subseteq Fds \cup {Free}

\* Every open socket has somebody who will close it, on every path through a
\* failed connect, an accept that meets a shutdown or a start that fails, and
\* even when two threads close one stream at the same time.
NothingLeaks ==
  \A n \in Fds :
    /\ fd[n] \in Streams => sd[fd[n]] = n
    /\ fd[n] = Connecting => connector.sd = n
    /\ fd[n] = Listener => acc.lsd = n /\ server # "destroyed"
    /\ fd[n] = Accepted => taken = n

\* A stream's number stands for its own socket, so that nobody reads or closes
\* another connection's, as long as no thread closes a stream while another is
\* in receive() or close() of it.
OwnSocket ==
  ~raced =>
    \A k \in Streams :
      /\ sd[k] # Free /\ ~Closing(k) => fd[sd[k]] = k
      /\ reading[k] # Free => fd[reading[k]] = k

\* What the run checks of the descriptors in every state.
DescriptorsSound == SocketsTypeOK /\ NothingLeaks /\ OwnSocket

\* Shutting the acceptor down ends the server thread's loop, wherever the
\* thread is: about to start, about to accept, in ::accept or back from it.
\* (Unless threads that close one stream at the same time have closed the
\* listening descriptor instead: then ::shutdown wakes nobody.)
ShutdownEndsAccept == stopper = "wake" ~> server \in {"over", "destroyed"} \/ raced
=============================================================================
