------------------------------ MODULE RpcCalls ------------------------------
(***************************************************************************)
(* Calling a remote procedure and waiting for its result                   *)
(* (Vision/src/Storage.cpp: CallRpc, GetRpcResult, CancelBlockingRpcResult *)
(* and two messages of ProcessIncoming; Vision/src/RpcServer.cpp).         *)
(*                                                                         *)
(* There is one procedure.  A call is known by a 16-bit uid that wraps     *)
(* around; call numbers, which do not, say which answer is whose.          *)
(***************************************************************************)
EXTENDS Naturals, Sequences, SequencesExt, FiniteSets

CONSTANTS Callers,   \* threads of the calling node
          MaxUid,    \* 0xffff in the code
          MaxCalls,  \* bound: calls made
          MaxLosses  \* bound: connections lost

ASSUME RpcAssumption ==
  MaxUid \in Nat \ {0} /\ MaxCalls \in Nat /\ MaxLosses \in Nat

Uids == 0 .. MaxUid
Calls == 1 .. MaxCalls
NoCall == 0

VARIABLES onServer,   \* the caller is the server itself
          polled,     \* the procedure has no callback: the program polls
          defined,    \* the server has the entry of the procedure
          callUid, calls,           \* rpc_call_uid; number of calls made
          uidOf,                    \* the uid of each call
          results, blocking,        \* m_rpc_results, m_rpc_blocking_calls
          waiting,                  \* what a thread in GetRpcResult waits for
          requests, responses,      \* on their way
          pollQueue, callQueue,     \* RpcServer: m_poll_queue, m_call_queue
          responseMap,              \* m_response_map: uids that may be answered
          inHand,                   \* calls the program has polled
          answers, losses           \* history: answers handed out, by call

rpcNode   == <<callUid, calls, uidOf, results, blocking, waiting>>
rpcServer == <<pollQueue, callQueue, responseMap, inHand>>
rpcKind   == <<onServer, polled>>
rpcVars == <<rpcKind, defined, rpcNode, requests, responses, rpcServer, answers, losses>>

RpcInit ==
  /\ onServer \in BOOLEAN /\ polled \in BOOLEAN /\ defined = TRUE
  /\ callUid = 0 /\ calls = 0 /\ uidOf = [c \in Calls |-> 0]
  /\ results = [u \in Uids |-> NoCall] /\ blocking = {}
  /\ waiting = [t \in Callers |-> NoCall]
  /\ requests = <<>> /\ responses = <<>>
  /\ pollQueue = <<>> /\ callQueue = <<>> /\ responseMap = {} /\ inHand = {}
  /\ answers = {} /\ losses = 0
-----------------------------------------------------------------------------
(* RpcServer::ProcessRpc.                                                  *)

ProcessRpc(c) ==
  /\ pollQueue' = IF polled THEN Append(pollQueue, c) ELSE pollQueue
  /\ callQueue' = IF polled THEN callQueue ELSE Append(callQueue, c)
  /\ UNCHANGED <<responseMap, inHand>>

NextUid == IF callUid + 1 > MaxUid THEN 0 ELSE callUid + 1

CallRpc ==
  /\ calls < MaxCalls
  /\ onServer => defined
  /\ callUid' = NextUid /\ calls' = calls + 1
  /\ uidOf' = [uidOf EXCEPT ![calls + 1] = NextUid]
  /\ IF onServer THEN ProcessRpc(calls + 1) /\ UNCHANGED requests
                 ELSE requests' = Append(requests, calls + 1) /\ UNCHANGED rpcServer
  /\ UNCHANGED <<rpcKind, defined, results, blocking, waiting, responses, answers, losses>>

\* An answer arrives; one that is there already is kept (map::insert).
Insert(c) ==
  results' = [results EXCEPT ![uidOf[c]] = IF @ = NoCall THEN c ELSE @]

\* The response goes to the connection of the call, or straight to the caller.
SendResponse(c) ==
  IF onServer THEN Insert(c) /\ UNCHANGED responses
              ELSE responses' = Append(responses, c) /\ UNCHANGED results

ServerExecutes ==
  /\ requests # <<>>
  /\ IF defined THEN ProcessRpc(Head(requests)) ELSE UNCHANGED rpcServer
  /\ requests' = Tail(requests)
  /\ UNCHANGED <<rpcKind, defined, rpcNode, responses, answers, losses>>

RunsCallback ==
  /\ callQueue # <<>>
  /\ SendResponse(Head(callQueue))
  /\ callQueue' = Tail(callQueue)
  /\ UNCHANGED <<rpcKind, defined, callUid, calls, uidOf, blocking, waiting, requests,
                 pollQueue, responseMap, inHand, answers, losses>>

PollRpc ==
  /\ pollQueue # <<>>
  /\ inHand' = inHand \cup {Head(pollQueue)}
  /\ responseMap' = responseMap \cup {uidOf[Head(pollQueue)]}
  /\ pollQueue' = Tail(pollQueue)
  /\ UNCHANGED <<rpcKind, defined, rpcNode, requests, responses, callQueue, answers, losses>>

\* The program answers the calls it polled in any order.
PostRpcResponse ==
  \E c \in inHand :
    /\ inHand' = inHand \ {c}
    /\ responseMap' = responseMap \ {uidOf[c]}
    /\ IF uidOf[c] \in responseMap THEN SendResponse(c) ELSE UNCHANGED <<responses, results>>
    /\ UNCHANGED <<rpcKind, defined, callUid, calls, uidOf, blocking, waiting, requests,
                   pollQueue, callQueue, answers, losses>>

TakesResponse ==
  /\ responses # <<>>
  /\ Insert(Head(responses))
  /\ responses' = Tail(responses)
  /\ UNCHANGED <<rpcKind, defined, callUid, calls, uidOf, blocking, waiting, requests,
                 rpcServer, answers, losses>>

DeleteProcedure ==
  /\ defined /\ defined' = FALSE
  /\ UNCHANGED <<rpcKind, rpcNode, requests, responses, rpcServer, answers, losses>>

LoseConnection ==
  /\ ~onServer /\ losses < MaxLosses
  /\ requests' = <<>> /\ responses' = <<>>
  /\ losses' = losses + 1
  /\ UNCHANGED <<rpcKind, defined, rpcNode, rpcServer, answers>>
-----------------------------------------------------------------------------
(* GetRpcResult.                                                           *)

\* Mutant: the result is handed out and kept.
HandOutKeeps(t, c) ==
  /\ answers' = answers \cup {<<c, results[uidOf[c]]>>}
  /\ blocking' = blocking \ {uidOf[c]}
  /\ waiting' = [waiting EXCEPT ![t] = NoCall]
  /\ UNCHANGED results

\* The result is handed out and forgotten.
HandOut(t, c) ==
  /\ answers' = answers \cup {<<c, results[uidOf[c]]>>}
  /\ results' = [results EXCEPT ![uidOf[c]] = NoCall]
  /\ blocking' = blocking \ {uidOf[c]}
  /\ waiting' = [waiting EXCEPT ![t] = NoCall]

Leave(t, c) ==
  /\ waiting' = [waiting EXCEPT ![t] = NoCall]
  /\ blocking' = blocking \ {uidOf[c]}
  /\ UNCHANGED <<results, answers>>

GetRpcResult(t, c, block) ==
  /\ c <= calls /\ waiting[t] = NoCall
  /\ uidOf[c] \notin blocking        \* else it returns false at once
  /\ \/ results[uidOf[c]] # NoCall /\ HandOut(t, c)
     \/ /\ results[uidOf[c]] = NoCall /\ block
        /\ blocking' = blocking \cup {uidOf[c]}
        /\ waiting' = [waiting EXCEPT ![t] = c]
        /\ UNCHANGED <<results, answers>>
  /\ UNCHANGED <<rpcKind, defined, callUid, calls, uidOf, requests, responses, rpcServer, losses>>

\* Woken, a thread leaves if its uid is no longer among the blocking calls,
\* takes the result if there is one, and else goes on waiting.
WakeUp(t) ==
  LET c == waiting[t] IN
  /\ c # NoCall
  /\ \/ /\ uidOf[c] \notin blocking
        /\ waiting' = [waiting EXCEPT ![t] = NoCall]
        /\ UNCHANGED <<results, blocking, answers>>
     \/ uidOf[c] \in blocking /\ results[uidOf[c]] # NoCall /\ HandOut(t, c)
  /\ UNCHANGED <<rpcKind, defined, callUid, calls, uidOf, requests, responses, rpcServer, losses>>

\* The time is up, whatever has arrived by now.
TimeOut(t) ==
  /\ waiting[t] # NoCall
  /\ Leave(t, waiting[t])
  /\ UNCHANGED <<rpcKind, defined, callUid, calls, uidOf, requests, responses, rpcServer, losses>>

CancelBlockingRpcResult(u) ==
  /\ u \in blocking
  /\ blocking' = blocking \ {u}
  /\ UNCHANGED <<rpcKind, defined, callUid, calls, uidOf, results, waiting, requests,
                 responses, rpcServer, answers, losses>>
-----------------------------------------------------------------------------
RpcNext ==
  \/ CallRpc \/ ServerExecutes \/ RunsCallback \/ PollRpc \/ PostRpcResponse
  \/ TakesResponse \/ DeleteProcedure \/ LoseConnection
  \/ \E t \in Callers, c \in Calls, block \in BOOLEAN : GetRpcResult(t, c, block)
  \/ \E t \in Callers : WakeUp(t) \/ TimeOut(t)
  \/ \E u \in Uids : CancelBlockingRpcResult(u)

RpcSpec == RpcInit /\ [][RpcNext]_rpcVars
-----------------------------------------------------------------------------
(* Properties.                                                             *)

\* What is kept for a call is a call that was made, and has its uid.
RpcTypeOK ==
  /\ callUid \in Uids /\ calls \in 0 .. MaxCalls /\ uidOf \in [Calls -> Uids]
  /\ blocking \subseteq Uids /\ responseMap \subseteq Uids
  /\ waiting \in [Callers -> 0 .. calls] /\ inHand \subseteq 1 .. calls
  /\ {requests, responses, pollQueue, callQueue} \subseteq Seq(1 .. calls)
  /\ \A u \in Uids : results[u] # NoCall => uidOf[results[u]] = u

\* As long as the uids have not wrapped around, a caller gets the answer of its
\* own call and it is handed out only once, however answers, timeouts, cancellations
\* and lost connections interleave.  (After a wrap, an answer nobody fetched is
\* kept for the next call with its uid.)
RightAnswer ==
  calls <= MaxUid + 1 =>
    \A a \in answers : a[1] = a[2] /\ results[uidOf[a[2]]] # a[2]

\* A uid is blocked only while a thread waits for it: no timeout, cancellation
\* or answer leaves one behind on which GetRpcResult would always fail.
BlockedHasWaiter ==
  \A u \in blocking : \E t \in Callers : waiting[t] # NoCall /\ uidOf[waiting[t]] = u

\* What the run checks of remote calls.
RpcSafe == RpcTypeOK /\ RightAnswer /\ BlockedHasWaiter
=============================================================================
