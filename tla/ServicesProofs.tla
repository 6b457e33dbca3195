--------------------------- MODULE ServicesProofs ---------------------------
(***************************************************************************)
(* That the parts of a node which share no state are safe, each by itself  *)
(* (MCServices runs the same modules): remote calls, the persistent file,  *)
(* the driver station's client, the descriptors and the listeners.         *)
(***************************************************************************)
EXTENDS RpcCalls, Persistence, DsClient, Sockets, Notifier,
        FunctionTheorems, FiniteSetTheorems, SequenceTheorems, WellFoundedInduction, TLAPS

(***************************************************************************)
(* Remote calls, for any number of callers, calls, losses and uids.        *)
(*                                                                         *)
(* On its way a call passes seven places, from the requests to the answers *)
(* handed out, and is never in two of them, nor twice in one.  So what was *)
(* handed out is not kept any more.  Until the uids wrap around no two     *)
(* calls have one uid, and an answer kept for a uid is its call's own.     *)
(***************************************************************************)

(***************************************************************************)
(* Sequences in which nothing is twice.                                    *)
(***************************************************************************)

Elems(s)    == {s[i] : i \in 1 .. Len(s)}
Distinct(s) == \A i, j \in 1 .. Len(s) : s[i] = s[j] => i = j

LEMMA ElemsIn ==
  ASSUME NEW S, NEW s \in Seq(S)
  PROVE  Elems(s) \subseteq S
<1>1. \A i \in 1 .. Len(s) : s[i] \in S
  OBVIOUS
<1> QED BY <1>1 DEF Elems

LEMMA PushedOnce ==
  ASSUME NEW S, NEW s \in Seq(S), Distinct(s), NEW x \in S, x \notin Elems(s)
  PROVE  /\ Append(s, x) \in Seq(S) /\ Distinct(Append(s, x))
         /\ Elems(Append(s, x)) = Elems(s) \cup {x}
<1> DEFINE t == Append(s, x)
<1>1. /\ t \in Seq(S) /\ Len(t) = Len(s) + 1 /\ Len(s) \in Nat /\ t[Len(s) + 1] = x
      /\ \A i \in 1 .. Len(s) : t[i] = s[i]
  OBVIOUS
<1> HIDE DEF t
<1>2. Distinct(t)
  <2> SUFFICES ASSUME NEW i \in 1 .. Len(t), NEW j \in 1 .. Len(t), t[i] = t[j] PROVE i = j
    BY DEF Distinct
  <2>1. CASE i \in 1 .. Len(s) /\ j \in 1 .. Len(s)
    BY <1>1, <2>1 DEF Distinct
  <2>2. CASE i = Len(s) + 1 \/ j = Len(s) + 1
    BY <1>1, <2>2 DEF Elems
  <2> QED BY <1>1, <2>1, <2>2
<1>3. Elems(t) = Elems(s) \cup {x}
  <2>1. ASSUME NEW y \in Elems(t) PROVE y \in Elems(s) \cup {x}
    BY <1>1 DEF Elems
  <2>2. ASSUME NEW y \in Elems(s) \cup {x} PROVE y \in Elems(t)
    <3>1. CASE y = x
      BY <1>1, <3>1 DEF Elems
    <3>2. CASE y \in Elems(s)
      BY <1>1, <3>2 DEF Elems
    <3> QED BY <3>1, <3>2
  <2> QED BY <2>1, <2>2
<1> QED BY <1>1, <1>2, <1>3 DEF t

LEMMA PoppedOnce ==
  ASSUME NEW S, NEW s \in Seq(S), Distinct(s), s # <<>>
  PROVE  /\ Tail(s) \in Seq(S) /\ Distinct(Tail(s)) /\ Head(s) \in S
         /\ Head(s) \in Elems(s) /\ Elems(Tail(s)) = Elems(s) \ {Head(s)}
<1> DEFINE t == Tail(s)
<1>1. /\ t \in Seq(S) /\ Len(t) = Len(s) - 1 /\ Len(s) \in Nat /\ Len(s) > 0
      /\ \A i \in 1 .. Len(t) : t[i] = s[i + 1]
      /\ Head(s) = s[1] /\ Head(s) \in S
  BY HeadTailProperties, EmptySeq
<1> HIDE DEF t
<1>2. Distinct(t)
  BY <1>1 DEF Distinct
<1>3. ASSUME NEW y \in Elems(t) PROVE y \in Elems(s) /\ y # s[1]
  <2>1. PICK i \in 1 .. Len(t) : y = t[i]
    BY DEF Elems
  <2>2. i + 1 \in 1 .. Len(s) /\ y = s[i + 1] /\ i + 1 # 1 /\ 1 \in 1 .. Len(s)
    BY <1>1, <2>1
  <2> QED BY <2>2 DEF Elems, Distinct
<1>4. ASSUME NEW y \in Elems(s), y # s[1] PROVE y \in Elems(t)
  <2>1. PICK i \in 1 .. Len(s) : y = s[i]
    BY DEF Elems
  <2>2. i - 1 \in 1 .. Len(t) /\ t[i - 1] = s[(i - 1) + 1] /\ (i - 1) + 1 = i
    BY <1>1, <1>4, <2>1
  <2> QED BY <2>1, <2>2 DEF Elems
<1>5. s[1] \in Elems(s)
  BY <1>1 DEF Elems
<1> QED BY <1>1, <1>2, <1>3, <1>4, <1>5 DEF t

(***************************************************************************)
(* Where a call can be on its way from the caller and back.                *)
(***************************************************************************)

Kept    == {results[u] : u \in Uids} \ {NoCall}
Handed  == {a[2] : a \in answers}

\* The places, in the order a call passes them.
Place == [i \in 1 .. 7 |->
            CASE i = 1 -> Elems(requests)  [] i = 2 -> Elems(pollQueue)
              [] i = 3 -> Elems(callQueue) [] i = 4 -> inHand
              [] i = 5 -> Elems(responses) [] i = 6 -> Kept [] i = 7 -> Handed]

\* No call is in two places, or twice in one.
Once ==
  /\ Distinct(requests) /\ Distinct(pollQueue) /\ Distinct(callQueue) /\ Distinct(responses)
  /\ \A i, j \in 1 .. 7 : i # j => Place[i] \cap Place[j] = {}

RpcTypes ==
  /\ RpcTypeOK
  /\ requests \in Seq(1 .. calls) /\ responses \in Seq(1 .. calls)
  /\ pollQueue \in Seq(1 .. calls) /\ callQueue \in Seq(1 .. calls)
  /\ results \in [Uids -> 0 .. calls]
  /\ answers \subseteq (1 .. calls) \X (1 .. calls)

\* Before the uids wrap around, no two calls have one.
UidsFresh ==
  calls <= MaxUid + 1 =>
    /\ callUid = IF calls <= MaxUid THEN calls ELSE 0
    /\ \A c \in 1 .. calls : uidOf[c] = IF c <= MaxUid THEN c ELSE 0

\* As long as they have not, what a caller was given is the answer of its call.
OwnAnswer == calls <= MaxUid + 1 => \A a \in answers : a[1] = a[2]

RpcInv == RpcTypes /\ Once /\ UidsFresh /\ OwnAnswer /\ BlockedHasWaiter

LEMMA Places ==
  /\ Place[1] = Elems(requests) /\ Place[2] = Elems(pollQueue) /\ Place[3] = Elems(callQueue)
  /\ Place[4] = inHand /\ Place[5] = Elems(responses) /\ Place[6] = Kept /\ Place[7] = Handed
BY DEF Place

LEMMA PlacesNext ==
  /\ Place'[1] = Elems(requests') /\ Place'[2] = Elems(pollQueue') /\ Place'[3] = Elems(callQueue')
  /\ Place'[4] = inHand' /\ Place'[5] = Elems(responses') /\ Place'[6] = Kept' /\ Place'[7] = Handed'
BY DEF Place

Apart == \A i, j \in 1 .. 7 : i # j => Place[i] \cap Place[j] = {}

\* A call that moves on leaves the place where it was.
LEMMA MovesOn ==
  ASSUME Apart, NEW k \in 1 .. 7, NEW j \in 1 .. 7, k # j, NEW c \in Place[k],
         Place'[k] \subseteq Place[k] \ {c}, Place'[j] \subseteq Place[j] \cup {c},
         \A i \in 1 .. 7 \ {j} : Place'[i] \subseteq Place[i]
  PROVE  Apart'
BY DEF Apart

LEMMA DropsOut ==
  ASSUME Apart, \A i \in 1 .. 7 : Place'[i] \subseteq Place[i]
  PROVE  Apart'
BY DEF Apart

LEMMA Enters ==
  ASSUME Apart, NEW c, NEW j \in 1 .. 7, \A i \in 1 .. 7 : c \notin Place[i],
         Place'[j] \subseteq Place[j] \cup {c},
         \A i \in 1 .. 7 \ {j} : Place'[i] \subseteq Place[i]
  PROVE  Apart'
BY DEF Apart

\* Every call under way was made.
LEMMA PlacesMade ==
  ASSUME RpcTypes
  PROVE  /\ \A i \in 1 .. 7 : Place[i] \subseteq 1 .. calls
         /\ calls \in Nat /\ calls <= MaxCalls
<1>1. calls \in Nat /\ calls <= MaxCalls /\ inHand \subseteq 1 .. calls
  BY RpcAssumption DEF RpcTypes, RpcTypeOK
<1>2. \A s \in Seq(1 .. calls) : Elems(s) \subseteq 1 .. calls
  BY ElemsIn
<1>3. Kept \subseteq 1 .. calls
  BY <1>1 DEF RpcTypes, Kept, NoCall
<1>4. Handed \subseteq 1 .. calls
  BY DEF RpcTypes, Handed
<1>5. \A i \in 1 .. 7 : i = 1 \/ i = 2 \/ i = 3 \/ i = 4 \/ i = 5 \/ i = 6 \/ i = 7
  OBVIOUS
<1> QED BY <1>1, <1>2, <1>3, <1>4, <1>5, Places DEF RpcTypes

(***************************************************************************)
(* What the actions share.                                                 *)
(***************************************************************************)
Uncounted == UNCHANGED <<callUid, calls, uidOf>>

\* Most of RpcTypes, for a step that makes no call.
LEMMA TypesKept ==
  ASSUME RpcTypes, Uncounted,
         requests' \in Seq(1 .. calls), responses' \in Seq(1 .. calls),
         pollQueue' \in Seq(1 .. calls), callQueue' \in Seq(1 .. calls),
         inHand' \subseteq 1 .. calls, responseMap' \subseteq Uids, blocking' \subseteq Uids,
         waiting' \in [Callers -> 0 .. calls], answers' \subseteq (1 .. calls) \X (1 .. calls),
         results' \in [Uids -> 0 .. calls],
         \A u \in Uids : results'[u] # NoCall => uidOf[results'[u]] = u
  PROVE  RpcTypes'
BY DEF RpcTypes, RpcTypeOK, Uncounted

\* No new answer, nobody waits anew or stops waiting.
Unheard == UNCHANGED <<answers, blocking, waiting>>

LEMMA QuietKeeps ==
  ASSUME RpcInv, Uncounted, Unheard, RpcTypes', Once'
  PROVE  RpcInv'
<1>1. UidsFresh'
  BY DEF RpcInv, UidsFresh, Uncounted
<1>2. OwnAnswer'
  BY DEF RpcInv, OwnAnswer, Uncounted, Unheard
<1>3. BlockedHasWaiter'
  BY DEF RpcInv, BlockedHasWaiter, Uncounted, Unheard
<1> QED BY <1>1, <1>2, <1>3 DEF RpcInv

\* An answer that arrives is kept for its uid, unless there is one.
LEMMA InsertKeeps ==
  ASSUME RpcTypes, NEW c \in 1 .. calls, Insert(c)
  PROVE  /\ results' \in [Uids -> 0 .. calls]
         /\ \A u \in Uids : results'[u] # NoCall => uidOf[results'[u]] = u
         /\ Kept' \subseteq Kept \cup {c}
<1>1. c \in Calls /\ c \in 0 .. calls
  BY PlacesMade, RpcAssumption DEF Calls
<1>2. PICK k : k = uidOf[c]
  OBVIOUS
<1>3. k \in Uids
  BY <1>1, <1>2 DEF RpcTypes, RpcTypeOK
<1>4. results \in [Uids -> 0 .. calls]
  BY DEF RpcTypes
<1>5. \A u \in Uids : results[u] # NoCall => uidOf[results[u]] = u
  BY DEF RpcTypes, RpcTypeOK
<1>6. results' = [results EXCEPT ![k] = IF results[k] = NoCall THEN c ELSE results[k]]
  BY <1>2 DEF Insert
<1>7. results' \in [Uids -> 0 .. calls]
  BY <1>1, <1>3, <1>4, <1>6
<1>8. \A u \in Uids : results'[u] = results[u] \/ (u = k /\ results'[u] = c)
  BY <1>3, <1>4, <1>6
<1>9. \A u \in Uids : results'[u] # NoCall => uidOf[results'[u]] = u
  BY <1>2, <1>5, <1>8
<1>10. Kept' \subseteq Kept \cup {c}
  BY <1>8 DEF Kept
<1> QED BY <1>7, <1>9, <1>10

\* The server's end takes a request, or the caller's own server does.
LEMMA ProcessKeeps ==
  ASSUME RpcTypes, Distinct(pollQueue), Distinct(callQueue), NEW c, c \in 1 .. calls',
         calls <= calls', calls' \in Nat, ProcessRpc(c),
         c \notin Elems(pollQueue), c \notin Elems(callQueue)
  PROVE  /\ pollQueue' \in Seq(1 .. calls') /\ callQueue' \in Seq(1 .. calls')
         /\ Distinct(pollQueue') /\ Distinct(callQueue')
         /\ inHand' = inHand /\ responseMap' = responseMap
         /\ \E j \in {2, 3} : /\ Place'[j] = Place[j] \cup {c}
                              /\ Place'[5 - j] = Place[5 - j]
<1>1. pollQueue \in Seq(1 .. calls') /\ callQueue \in Seq(1 .. calls')
  <2>1. calls \in Nat
    BY PlacesMade
  <2>2. 1 .. calls \subseteq 1 .. calls'
    BY <2>1
  <2>3. pollQueue \in Seq(1 .. calls) /\ callQueue \in Seq(1 .. calls)
    BY DEF RpcTypes
  <2> QED BY <2>2, <2>3, SeqMonotonic
<1>2. inHand' = inHand /\ responseMap' = responseMap
  BY DEF ProcessRpc
<1>3. CASE polled
  <2>1. pollQueue' = Append(pollQueue, c) /\ callQueue' = callQueue
    BY <1>3 DEF ProcessRpc
  <2>2. /\ pollQueue' \in Seq(1 .. calls') /\ Distinct(pollQueue')
        /\ Elems(pollQueue') = Elems(pollQueue) \cup {c}
    BY <1>1, <2>1, PushedOnce
  <2>3. Place'[2] = Place[2] \cup {c} /\ Place'[5 - 2] = Place[5 - 2]
    BY <2>1, <2>2, Places, PlacesNext
  <2> QED BY <1>1, <1>2, <2>1, <2>2, <2>3
<1>4. CASE ~polled
  <2>1. callQueue' = Append(callQueue, c) /\ pollQueue' = pollQueue
    BY <1>4 DEF ProcessRpc
  <2>2. /\ callQueue' \in Seq(1 .. calls') /\ Distinct(callQueue')
        /\ Elems(callQueue') = Elems(callQueue) \cup {c}
    BY <1>1, <2>1, PushedOnce
  <2>3. Place'[3] = Place[3] \cup {c} /\ Place'[5 - 3] = Place[5 - 3]
    BY <2>1, <2>2, Places, PlacesNext
  <2> QED BY <1>1, <1>2, <2>1, <2>2, <2>3
<1> QED BY <1>3, <1>4

LEMMA SendKeeps ==
  ASSUME RpcTypes, Distinct(responses), NEW c \in 1 .. calls, SendResponse(c),
         c \notin Elems(responses)
  PROVE  /\ responses' \in Seq(1 .. calls) /\ Distinct(responses')
         /\ results' \in [Uids -> 0 .. calls]
         /\ \A u \in Uids : results'[u] # NoCall => uidOf[results'[u]] = u
         /\ \E j \in {5, 6} : /\ Place'[j] \subseteq Place[j] \cup {c}
                              /\ Place'[11 - j] = Place[11 - j]
<1>1. CASE onServer
  <2>1. Insert(c) /\ responses' = responses
    BY <1>1 DEF SendResponse
  <2>2. /\ results' \in [Uids -> 0 .. calls]
        /\ \A u \in Uids : results'[u] # NoCall => uidOf[results'[u]] = u
        /\ Kept' \subseteq Kept \cup {c}
    BY <2>1, InsertKeeps
  <2>3. Place'[6] \subseteq Place[6] \cup {c} /\ Place'[11 - 6] = Place[11 - 6]
    BY <2>1, <2>2, Places, PlacesNext
  <2> QED BY <2>1, <2>2, <2>3 DEF RpcTypes
<1>2. CASE ~onServer
  <2>1. responses' = Append(responses, c) /\ results' = results
    BY <1>2 DEF SendResponse
  <2>5. PICK S : S = 1 .. calls
    OBVIOUS
  <2>6. responses \in Seq(S) /\ c \in S
    BY <2>5 DEF RpcTypes
  <2>2. /\ responses' \in Seq(1 .. calls) /\ Distinct(responses')
        /\ Elems(responses') = Elems(responses) \cup {c}
    <3>1. Distinct(responses) /\ c \notin Elems(responses)
      OBVIOUS
    <3>2. /\ Append(responses, c) \in Seq(S) /\ Distinct(Append(responses, c))
          /\ Elems(Append(responses, c)) = Elems(responses) \cup {c}
      BY <2>6, <3>1, PushedOnce
    <3> QED BY <2>1, <2>5, <3>2
  <2>3. Kept' = Kept
    BY <2>1 DEF Kept
  <2>4. Place'[5] \subseteq Place[5] \cup {c} /\ Place'[11 - 5] = Place[11 - 5]
    BY <2>2, <2>3, Places, PlacesNext
  <2> QED BY <2>1, <2>2, <2>4 DEF RpcTypes, RpcTypeOK
<1> QED BY <1>1, <1>2
(***************************************************************************)
(* The actions.                                                            *)
(***************************************************************************)

LEMMA OnceParts ==
  ASSUME RpcInv
  PROVE  /\ RpcTypes /\ RpcTypeOK /\ Apart /\ BlockedHasWaiter /\ UidsFresh /\ OwnAnswer
         /\ Distinct(requests) /\ Distinct(pollQueue) /\ Distinct(callQueue) /\ Distinct(responses)
         /\ requests \in Seq(1 .. calls) /\ responses \in Seq(1 .. calls)
         /\ pollQueue \in Seq(1 .. calls) /\ callQueue \in Seq(1 .. calls)
BY DEF RpcInv, Once, Apart, RpcTypes

\* The procedure is deleted.
LEMMA DeleteProcedureKeeps ==
  ASSUME RpcInv, DeleteProcedure
  PROVE  RpcInv'
<1>1. UNCHANGED <<callUid, calls, uidOf, results, blocking, waiting, requests, responses, rpcServer, answers>>
  BY DEF DeleteProcedure, rpcNode
<1>2. Kept' = Kept /\ Handed' = Handed
  BY <1>1 DEF Kept, Handed
<1>3. \A i \in 1 .. 7 : Place'[i] = Place[i]
  BY <1>1, <1>2, Places, PlacesNext DEF rpcServer
<1>4. Apart'
  BY <1>3, OnceParts, DropsOut
<1>5. Once'
  BY <1>1, <1>4, OnceParts DEF Once, Apart, rpcServer
<1>6. RpcTypes'
  BY <1>1, OnceParts DEF RpcTypes, RpcTypeOK, rpcServer
<1> QED BY <1>1, <1>5, <1>6, QuietKeeps DEF Uncounted, Unheard

\* A connection is lost with all that was on its way.
LEMMA LoseConnectionKeeps ==
  ASSUME RpcInv, LoseConnection
  PROVE  RpcInv'
<1>1. /\ Uncounted /\ Unheard /\ UNCHANGED <<results, pollQueue, callQueue, inHand, responseMap>>
      /\ requests' = <<>> /\ responses' = <<>>
  BY DEF LoseConnection, rpcNode, rpcServer, Uncounted, Unheard
<1>2. \A S : <<>> \in Seq(S) /\ Len(<<>>) = 0
  BY EmptySeq
<1>3. Elems(<<>>) = {} /\ Distinct(<<>>)
  BY <1>2 DEF Elems, Distinct
<1>4. RpcTypes'
  <2>1. requests' \in Seq(1 .. calls) /\ responses' \in Seq(1 .. calls)
    BY <1>1, <1>2
  <2> QED BY <1>1, <2>1, TypesKept DEF RpcInv, RpcTypes, RpcTypeOK, Unheard
<1>5. Kept' = Kept /\ Handed' = Handed
  BY <1>1 DEF Kept, Handed, Unheard
<1>6. \A i \in 1 .. 7 : Place'[i] \subseteq Place[i]
  BY <1>1, <1>3, <1>5, Places, PlacesNext
<1>7. Apart'
  BY <1>6, OnceParts, DropsOut
<1>8. Once'
  BY <1>1, <1>3, <1>7, OnceParts DEF Once, Apart
<1> QED BY <1>1, <1>4, <1>8, QuietKeeps

\* The poll hands the first call of its queue to the program.
LEMMA PollRpcKeeps ==
  ASSUME RpcInv, PollRpc
  PROVE  RpcInv'
<1>1. PICK c : c = Head(pollQueue)
  OBVIOUS
<1>2. PICK S : S = 1 .. calls
  OBVIOUS
<1>3. pollQueue \in Seq(S) /\ Distinct(pollQueue) /\ pollQueue # <<>>
  BY <1>2, OnceParts DEF PollRpc
<1>4. /\ Tail(pollQueue) \in Seq(S) /\ Distinct(Tail(pollQueue)) /\ c \in S
      /\ c \in Elems(pollQueue) /\ Elems(Tail(pollQueue)) = Elems(pollQueue) \ {c}
  BY <1>1, <1>3, PoppedOnce
<1>5. /\ Uncounted /\ Unheard /\ UNCHANGED <<results, requests, responses, callQueue>>
      /\ pollQueue' = Tail(pollQueue) /\ inHand' = inHand \cup {c}
      /\ responseMap' = responseMap \cup {uidOf[c]}
  BY <1>1 DEF PollRpc, rpcNode, Uncounted, Unheard
<1>6. RpcTypes'
  <2>1. uidOf[c] \in Uids
    BY <1>2, <1>4, OnceParts, PlacesMade, RpcAssumption DEF RpcTypeOK, Calls
  <2> QED BY <1>2, <1>4, <1>5, <2>1, TypesKept DEF RpcInv, RpcTypes, RpcTypeOK, Unheard
<1>7. Kept' = Kept /\ Handed' = Handed
  BY <1>5 DEF Kept, Handed, Unheard
<1>8. Apart'
  <2>1. PICK k \in 1 .. 7, j \in 1 .. 7 : k = 2 /\ j = 4
    OBVIOUS
  <2>2. /\ c \in Place[k] /\ Place'[k] \subseteq Place[k] \ {c} /\ Place'[j] \subseteq Place[j] \cup {c}
        /\ \A i \in 1 .. 7 \ {j} : Place'[i] \subseteq Place[i]
    BY <1>4, <1>5, <1>7, <2>1, Places, PlacesNext
  <2>3. k # j
    BY <2>1
  <2> QED BY <2>2, <2>3, OnceParts, MovesOn
<1>9. Once'
  BY <1>4, <1>5, <1>8, OnceParts DEF Once, Apart
<1> QED BY <1>5, <1>6, <1>9, QuietKeeps

\* The server takes a request off the connection.
LEMMA ServerExecutesKeeps ==
  ASSUME RpcInv, ServerExecutes
  PROVE  RpcInv'
<1>1. PICK c : c = Head(requests)
  OBVIOUS
<1>2. PICK S : S = 1 .. calls
  OBVIOUS
<1>3. requests \in Seq(S) /\ Distinct(requests) /\ requests # <<>>
  BY <1>2, OnceParts DEF ServerExecutes
<1>4. /\ Tail(requests) \in Seq(S) /\ Distinct(Tail(requests)) /\ c \in S
      /\ c \in Elems(requests) /\ Elems(Tail(requests)) = Elems(requests) \ {c}
  BY <1>1, <1>3, PoppedOnce
<1>5. /\ Uncounted /\ Unheard /\ UNCHANGED <<results, responses>>
      /\ requests' = Tail(requests)
  BY DEF ServerExecutes, rpcNode, Uncounted, Unheard
<1>6. Kept' = Kept /\ Handed' = Handed
  BY <1>5 DEF Kept, Handed, Unheard
<1>7. c \in 1 .. calls' /\ calls <= calls' /\ calls' \in Nat /\ calls' = calls
  BY <1>2, <1>4, <1>5, OnceParts, PlacesMade DEF Uncounted
<1>8. c \notin Elems(pollQueue) /\ c \notin Elems(callQueue)
  BY <1>4, OnceParts, Places DEF Apart
<1>9. /\ pollQueue' \in Seq(S) /\ callQueue' \in Seq(S)
      /\ Distinct(pollQueue') /\ Distinct(callQueue')
      /\ inHand' = inHand /\ responseMap' \subseteq Uids
      /\ \E j \in {2, 3} : Place'[j] \subseteq Place[j] \cup {c} /\ Place'[5 - j] \subseteq Place[5 - j]
  <2>1. CASE defined
    <3>1. ProcessRpc(c)
      BY <1>1, <2>1 DEF ServerExecutes
    <3>2. /\ pollQueue' \in Seq(1 .. calls') /\ callQueue' \in Seq(1 .. calls')
          /\ Distinct(pollQueue') /\ Distinct(callQueue')
          /\ inHand' = inHand /\ responseMap' = responseMap
          /\ \E j \in {2, 3} : /\ Place'[j] = Place[j] \cup {c}
                               /\ Place'[5 - j] = Place[5 - j]
      BY <1>7, <1>8, <3>1, OnceParts, ProcessKeeps
    <3>3. responseMap \subseteq Uids
      BY OnceParts DEF RpcTypeOK
    <3> QED BY <1>2, <1>7, <3>2, <3>3
  <2>2. CASE ~defined
    <3>1. UNCHANGED rpcServer
      BY <2>2 DEF ServerExecutes
    <3>2. Place'[2] = Place[2] /\ Place'[3] = Place[3]
      BY <3>1, Places, PlacesNext DEF rpcServer
    <3>3. responseMap \subseteq Uids
      BY OnceParts DEF RpcTypeOK
    <3>4. Place'[2] \subseteq Place[2] \cup {c} /\ Place'[5 - 2] \subseteq Place[5 - 2]
      BY <3>2
    <3>5. \E j \in {2, 3} : Place'[j] \subseteq Place[j] \cup {c} /\ Place'[5 - j] \subseteq Place[5 - j]
      BY <3>4
    <3> QED BY <1>2, <3>1, <3>3, <3>5, OnceParts DEF rpcServer
  <2> QED BY <2>1, <2>2
<1>10. RpcTypes'
  BY <1>2, <1>4, <1>5, <1>9, TypesKept DEF RpcInv, RpcTypes, RpcTypeOK, Unheard
<1>11. Apart'
  <2>1. PICK j \in {2, 3} : Place'[j] \subseteq Place[j] \cup {c} /\ Place'[5 - j] \subseteq Place[5 - j]
    BY <1>9
  <2>7. PICK k \in 1 .. 7 : k = 1
    OBVIOUS
  <2>2. c \in Place[k] /\ Place'[k] \subseteq Place[k] \ {c}
    BY <1>4, <1>5, <2>7, Places, PlacesNext
  <2>3. \A i \in {4, 5, 6, 7} : Place'[i] \subseteq Place[i]
    BY <1>5, <1>6, <1>9, Places, PlacesNext
  <2>4. \A i \in 1 .. 7 : i = k \/ i = j \/ i = 5 - j \/ i \in {4, 5, 6, 7}
    BY <2>7
  <2>5. \A i \in 1 .. 7 \ {j} : Place'[i] \subseteq Place[i]
    BY <2>1, <2>2, <2>3, <2>4
  <2>6. j \in 1 .. 7 /\ k # j
    BY <2>7
  <2>8. PICK m \in 1 .. 7 : m = j
    BY <2>6
  <2>9. /\ k # m /\ Place'[m] \subseteq Place[m] \cup {c}
        /\ \A i \in 1 .. 7 \ {m} : Place'[i] \subseteq Place[i]
    BY <2>1, <2>5, <2>6, <2>8
  <2> QED BY <2>2, <2>9, OnceParts, MovesOn
<1>12. Once'
  BY <1>4, <1>5, <1>9, <1>11, OnceParts DEF Once, Apart
<1> QED BY <1>5, <1>10, <1>12, QuietKeeps

\* A call whose answer is sent: it leaves place k for the answers on their way
\* or, on the server itself, for those kept.
LEMMA SentKeeps ==
  ASSUME RpcInv, NEW k \in 1 .. 4, NEW c \in Place[k], c \in 1 .. calls, SendResponse(c),
         Uncounted, Unheard, requests' = requests,
         inHand' \subseteq inHand, responseMap' \subseteq Uids,
         pollQueue' \in Seq(1 .. calls), Distinct(pollQueue'),
         callQueue' \in Seq(1 .. calls), Distinct(callQueue'),
         Place'[k] \subseteq Place[k] \ {c}, \A i \in 1 .. 4 : Place'[i] \subseteq Place[i]
  PROVE  RpcInv'
<1>1. c \notin Elems(responses)
  BY SMTT(30), OnceParts, Places DEF Apart
<1>2. /\ responses' \in Seq(1 .. calls) /\ Distinct(responses')
      /\ results' \in [Uids -> 0 .. calls]
      /\ \A u \in Uids : results'[u] # NoCall => uidOf[results'[u]] = u
      /\ \E j \in {5, 6} : /\ Place'[j] \subseteq Place[j] \cup {c}
                           /\ Place'[11 - j] = Place[11 - j]
  BY <1>1, OnceParts, SendKeeps
<1>3. RpcTypes'
  BY <1>2, TypesKept DEF RpcInv, RpcTypes, RpcTypeOK, Unheard
<1>4. Apart'
  <2>1. PICK j \in {5, 6} : /\ Place'[j] \subseteq Place[j] \cup {c}
                            /\ Place'[11 - j] = Place[11 - j]
    BY <1>2
  <2>2. PICK m \in 1 .. 7 : m = j
    OBVIOUS
  <2>3. PICK n \in 1 .. 7 : n = k
    OBVIOUS
  <2>4. Handed' = Handed
    BY DEF Unheard, Handed
  <2>5. \A i \in 1 .. 7 : i \in 1 .. 4 \/ i = j \/ i = 11 - j \/ i = 7
    OBVIOUS
  <2>6. Place'[7] = Place[7]
    BY <2>4, Places, PlacesNext
  <2>7. \A i \in 1 .. 7 \ {m} : Place'[i] \subseteq Place[i]
    BY <2>1, <2>2, <2>5, <2>6
  <2>8. n # m /\ c \in Place[n] /\ Place'[n] \subseteq Place[n] \ {c} /\ Place'[m] \subseteq Place[m] \cup {c}
    BY <2>1, <2>2, <2>3
  <2> QED BY <2>7, <2>8, OnceParts, MovesOn
<1>5. Once'
  BY <1>2, <1>4, OnceParts DEF Once, Apart
<1> QED BY <1>3, <1>5, QuietKeeps

\* The server thread runs the callback of a call and sends what it returns.
LEMMA RunsCallbackKeeps ==
  ASSUME RpcInv, RunsCallback
  PROVE  RpcInv'
<1>1. PICK c : c = Head(callQueue)
  OBVIOUS
<1>2. PICK S : S = 1 .. calls
  OBVIOUS
<1>3. callQueue \in Seq(S) /\ Distinct(callQueue) /\ callQueue # <<>>
  BY <1>2, OnceParts DEF RunsCallback
<1>4. /\ Tail(callQueue) \in Seq(S) /\ Distinct(Tail(callQueue)) /\ c \in S
      /\ c \in Elems(callQueue) /\ Elems(Tail(callQueue)) = Elems(callQueue) \ {c}
  BY <1>1, <1>3, PoppedOnce
<1>5. /\ Uncounted /\ Unheard /\ UNCHANGED <<requests, pollQueue, inHand, responseMap>>
      /\ callQueue' = Tail(callQueue) /\ SendResponse(c)
  BY <1>1 DEF RunsCallback, Uncounted, Unheard
<1>6. PICK k \in 1 .. 4 : k = 3
  OBVIOUS
<1>7. /\ c \in Place[k] /\ Place'[k] \subseteq Place[k] \ {c}
      /\ \A i \in 1 .. 4 : Place'[i] \subseteq Place[i]
  <2>1. \A i \in 1 .. 4 : i = 1 \/ i = 2 \/ i = 3 \/ i = 4
    OBVIOUS
  <2> QED BY <1>4, <1>5, <1>6, <2>1, Places, PlacesNext
<1>8. /\ c \in 1 .. calls /\ requests' = requests /\ inHand' \subseteq inHand /\ responseMap' \subseteq Uids
      /\ pollQueue' \in Seq(1 .. calls) /\ Distinct(pollQueue')
      /\ callQueue' \in Seq(1 .. calls) /\ Distinct(callQueue')
  BY <1>2, <1>4, <1>5, OnceParts DEF RpcTypeOK
<1> QED BY <1>5, <1>7, <1>8, SentKeeps

\* The program answers a call it polled; the uid may no longer be on the map.
LEMMA PostRpcResponseKeeps ==
  ASSUME RpcInv, PostRpcResponse
  PROVE  RpcInv'
<1>1. PICK c \in inHand :
        /\ inHand' = inHand \ {c} /\ responseMap' = responseMap \ {uidOf[c]}
        /\ IF uidOf[c] \in responseMap THEN SendResponse(c) ELSE UNCHANGED <<responses, results>>
        /\ UNCHANGED <<callUid, calls, uidOf, blocking, waiting, requests, pollQueue, callQueue, answers>>
  BY DEF PostRpcResponse
<1>2. Uncounted /\ Unheard
  BY <1>1 DEF Uncounted, Unheard
<1>3. /\ c \in 1 .. calls /\ requests' = requests /\ inHand' \subseteq inHand /\ responseMap' \subseteq Uids
      /\ pollQueue' \in Seq(1 .. calls) /\ Distinct(pollQueue')
      /\ callQueue' \in Seq(1 .. calls) /\ Distinct(callQueue')
  <2>1. inHand \subseteq 1 .. calls /\ responseMap \subseteq Uids
    BY OnceParts DEF RpcTypeOK
  <2> QED BY <1>1, <2>1, OnceParts
<1>4. PICK k \in 1 .. 4 : k = 4
  OBVIOUS
<1>5. /\ c \in Place[k] /\ Place'[k] \subseteq Place[k] \ {c}
      /\ \A i \in 1 .. 4 : Place'[i] \subseteq Place[i]
  <2>1. \A i \in 1 .. 4 : i = 1 \/ i = 2 \/ i = 3 \/ i = 4
    OBVIOUS
  <2> QED BY <1>1, <1>4, <2>1, Places, PlacesNext
<1>6. CASE uidOf[c] \in responseMap
  <2>1. SendResponse(c)
    BY <1>1, <1>6
  <2> QED BY <1>2, <1>3, <1>5, <2>1, SentKeeps
<1>7. CASE uidOf[c] \notin responseMap
  <2>1. responses' = responses /\ results' = results
    BY <1>1, <1>7
  <2>2. RpcTypes'
    BY <1>2, <1>3, <2>1, TypesKept DEF RpcInv, RpcTypes, RpcTypeOK, Unheard
  <2>3. Kept' = Kept /\ Handed' = Handed
    BY <1>1, <2>1 DEF Kept, Handed
  <2>4. \A i \in 1 .. 7 : i \in 1 .. 4 \/ i = 5 \/ i = 6 \/ i = 7
    OBVIOUS
  <2>5. \A i \in 1 .. 7 : Place'[i] \subseteq Place[i]
    BY <1>5, <2>1, <2>3, <2>4, Places, PlacesNext
  <2>6. Apart'
    BY <2>5, OnceParts, DropsOut
  <2>7. Once'
    BY <1>3, <2>1, <2>6, OnceParts DEF Once, Apart
  <2> QED BY <1>2, <2>2, <2>7, QuietKeeps
<1> QED BY <1>6, <1>7

\* An answer arrives at the caller.
LEMMA TakesResponseKeeps ==
  ASSUME RpcInv, TakesResponse
  PROVE  RpcInv'
<1>1. PICK c : c = Head(responses)
  OBVIOUS
<1>2. PICK S : S = 1 .. calls
  OBVIOUS
<1>3. responses \in Seq(S) /\ Distinct(responses) /\ responses # <<>>
  BY <1>2, OnceParts DEF TakesResponse
<1>4. /\ Tail(responses) \in Seq(S) /\ Distinct(Tail(responses)) /\ c \in S
      /\ c \in Elems(responses) /\ Elems(Tail(responses)) = Elems(responses) \ {c}
  BY <1>1, <1>3, PoppedOnce
<1>5. /\ Uncounted /\ Unheard /\ UNCHANGED <<requests, pollQueue, callQueue, inHand, responseMap>>
      /\ responses' = Tail(responses) /\ Insert(c)
  BY <1>1 DEF TakesResponse, rpcServer, Uncounted, Unheard
<1>6. /\ results' \in [Uids -> 0 .. calls]
      /\ \A u \in Uids : results'[u] # NoCall => uidOf[results'[u]] = u
      /\ Kept' \subseteq Kept \cup {c}
  <2>1. c \in 1 .. calls
    BY <1>2, <1>4
  <2> QED BY <1>5, <2>1, OnceParts, InsertKeeps
<1>7. RpcTypes'
  BY <1>2, <1>4, <1>5, <1>6, TypesKept DEF RpcInv, RpcTypes, RpcTypeOK, Unheard
<1>8. Handed' = Handed
  BY <1>5 DEF Handed, Unheard
<1>9. Apart'
  <2>1. PICK k \in 1 .. 7, j \in 1 .. 7 : k = 5 /\ j = 6
    OBVIOUS
  <2>2. /\ c \in Place[k] /\ Place'[k] \subseteq Place[k] \ {c} /\ Place'[j] \subseteq Place[j] \cup {c}
        /\ \A i \in 1 .. 7 \ {j} : Place'[i] \subseteq Place[i]
    BY <1>4, <1>5, <1>6, <1>8, <2>1, Places, PlacesNext
  <2>3. k # j
    BY <2>1
  <2> QED BY <2>2, <2>3, OnceParts, MovesOn
<1>10. Once'
  BY <1>4, <1>5, <1>9, OnceParts DEF Once, Apart
<1> QED BY <1>5, <1>7, <1>10, QuietKeeps

\* A call is made, with the next uid.
LEMMA CallRpcKeeps ==
  ASSUME RpcInv, CallRpc
  PROVE  RpcInv'
<1>1. PICK c : c = calls + 1
  OBVIOUS
<1>2. /\ calls \in Nat /\ calls < MaxCalls /\ calls' = c /\ callUid' = NextUid
      /\ uidOf' = [uidOf EXCEPT ![c] = NextUid]
      /\ UNCHANGED <<results, responses, answers, blocking, waiting>>
  BY <1>1, OnceParts, PlacesMade DEF CallRpc
<1>3. NextUid \in Uids
  BY OnceParts, RpcAssumption DEF NextUid, RpcTypeOK, Uids
<1>4. \A i \in 1 .. 7 : c \notin Place[i]
  BY <1>1, <1>2, OnceParts, PlacesMade
<1>5. PICK S : S = 1 .. c
  OBVIOUS
<1>6. 1 .. calls \subseteq S /\ c \in S /\ 0 .. calls \subseteq 0 .. c /\ c \in Calls
  BY <1>1, <1>2, <1>5, RpcAssumption DEF Calls
<1>7. /\ requests \in Seq(S) /\ responses \in Seq(S)
      /\ pollQueue \in Seq(S) /\ callQueue \in Seq(S)
  BY <1>6, OnceParts, SeqMonotonic
<1>8. /\ c \notin Elems(requests) /\ c \notin Elems(pollQueue) /\ c \notin Elems(callQueue)
  BY <1>4, Places
<1>9. Kept' = Kept /\ Handed' = Handed
  BY <1>2 DEF Kept, Handed
<1>10. /\ requests' \in Seq(S) /\ Distinct(requests') /\ pollQueue' \in Seq(S) /\ Distinct(pollQueue')
       /\ callQueue' \in Seq(S) /\ Distinct(callQueue') /\ inHand' = inHand /\ responseMap' = responseMap
       /\ \E j \in 1 .. 3 : /\ Place'[j] \subseteq Place[j] \cup {c}
                            /\ \A i \in 1 .. 7 \ {j} : Place'[i] \subseteq Place[i]
  <2>1. CASE onServer
    <3>1. ProcessRpc(c) /\ requests' = requests
      BY <1>1, <2>1 DEF CallRpc
    <3>2. c \in 1 .. calls' /\ calls <= calls' /\ calls' \in Nat
      BY <1>1, <1>2
    <3>3. /\ pollQueue' \in Seq(1 .. calls') /\ callQueue' \in Seq(1 .. calls')
          /\ Distinct(pollQueue') /\ Distinct(callQueue')
          /\ inHand' = inHand /\ responseMap' = responseMap
          /\ \E j \in {2, 3} : /\ Place'[j] = Place[j] \cup {c}
                               /\ Place'[5 - j] = Place[5 - j]
      BY <1>8, <3>1, <3>2, OnceParts, ProcessKeeps
    <3>4. PICK j \in {2, 3} : Place'[j] = Place[j] \cup {c} /\ Place'[5 - j] = Place[5 - j]
      BY <3>3
    <3>5. \A i \in 1 .. 7 : i = j \/ i = 5 - j \/ i \in {1, 4, 5, 6, 7}
      OBVIOUS
    <3>6. \A i \in {1, 4, 5, 6, 7} : Place'[i] = Place[i]
      BY <1>2, <1>9, <3>1, <3>3, Places, PlacesNext
    <3>7. Place'[j] \subseteq Place[j] \cup {c} /\ \A i \in 1 .. 7 \ {j} : Place'[i] \subseteq Place[i]
      BY <3>4, <3>5, <3>6
    <3>8. j \in 1 .. 3
      OBVIOUS
    <3> QED BY <1>2, <1>5, <1>7, <3>1, <3>3, <3>7, <3>8, OnceParts
  <2>2. CASE ~onServer
    <3>1. requests' = Append(requests, c) /\ UNCHANGED rpcServer
      BY <1>1, <2>2 DEF CallRpc
    <3>2. /\ Append(requests, c) \in Seq(S) /\ Distinct(Append(requests, c))
          /\ Elems(Append(requests, c)) = Elems(requests) \cup {c}
      BY <1>6, <1>7, <1>8, OnceParts, PushedOnce
    <3>3. PICK j \in 1 .. 3 : j = 1
      OBVIOUS
    <3>4. \A i \in 1 .. 7 : i = j \/ i \in {2, 3, 4, 5, 6, 7}
      BY <3>3
    <3>5. \A i \in {2, 3, 4, 5, 6, 7} : Place'[i] = Place[i]
      BY <1>2, <1>9, <3>1, Places, PlacesNext DEF rpcServer
    <3>6. Place'[j] = Place[j] \cup {c}
      BY <3>1, <3>2, <3>3, Places, PlacesNext
    <3>7. Place'[j] \subseteq Place[j] \cup {c} /\ \A i \in 1 .. 7 \ {j} : Place'[i] \subseteq Place[i]
      BY <3>4, <3>5, <3>6
    <3> QED BY <1>7, <3>1, <3>2, <3>7, OnceParts DEF rpcServer
  <2> QED BY <2>1, <2>2
<1>11. Apart'
  <2>1. PICK j \in 1 .. 3 : /\ Place'[j] \subseteq Place[j] \cup {c}
                            /\ \A i \in 1 .. 7 \ {j} : Place'[i] \subseteq Place[i]
    BY <1>10
  <2>2. PICK m \in 1 .. 7 : m = j
    OBVIOUS
  <2> QED BY <1>4, <2>1, <2>2, OnceParts, Enters
<1>12. Once'
  BY <1>2, <1>10, <1>11, OnceParts DEF Once, Apart
<1>13. uidOf \in [Calls -> Uids] /\ results \in [Uids -> 0 .. calls] /\ waiting \in [Callers -> 0 .. calls]
  BY OnceParts DEF RpcTypes, RpcTypeOK
<1>14. \A d \in 1 .. calls : uidOf'[d] = uidOf[d] /\ d \in Calls
  BY <1>1, <1>2, <1>13, RpcAssumption DEF Calls
<1>15. uidOf'[c] = NextUid /\ uidOf' \in [Calls -> Uids]
  BY <1>2, <1>3, <1>6, <1>13
<1>16. RpcTypes'
  <2>1. \A u \in Uids : results'[u] # NoCall => uidOf'[results'[u]] = u
    <3> SUFFICES ASSUME NEW u \in Uids, results[u] # NoCall PROVE uidOf'[results[u]] = u
      BY <1>2
    <3>1. results[u] \in 1 .. calls
      BY <1>2, <1>13 DEF NoCall
    <3>2. uidOf[results[u]] = u
      BY OnceParts DEF RpcTypeOK
    <3> QED BY <1>14, <3>1, <3>2
  <2>2. /\ blocking' \subseteq Uids /\ responseMap' \subseteq Uids /\ inHand' \subseteq S
        /\ waiting' \in [Callers -> 0 .. c] /\ results' \in [Uids -> 0 .. c]
        /\ answers' \subseteq S \X S
    <3>1. /\ blocking \subseteq Uids /\ responseMap \subseteq Uids /\ inHand \subseteq 1 .. calls
          /\ answers \subseteq (1 .. calls) \X (1 .. calls)
      BY OnceParts DEF RpcTypes, RpcTypeOK
    <3> QED BY <1>2, <1>6, <1>10, <1>13, <3>1
  <2>3. callUid' \in Uids /\ calls' \in 0 .. MaxCalls
    BY <1>1, <1>2, <1>3, RpcAssumption
  <2>4. responses' \in Seq(S)
    BY <1>2, <1>7
  <2> QED BY <1>2, <1>5, <1>10, <1>15, <2>1, <2>2, <2>3, <2>4 DEF RpcTypes, RpcTypeOK
<1>17. UidsFresh'
  <2> SUFFICES ASSUME c <= MaxUid + 1
               PROVE  /\ NextUid = IF c <= MaxUid THEN c ELSE 0
                      /\ \A d \in 1 .. c : uidOf'[d] = IF d <= MaxUid THEN d ELSE 0
    BY <1>2 DEF UidsFresh
  <2>1. callUid = calls /\ \A d \in 1 .. calls : uidOf[d] = IF d <= MaxUid THEN d ELSE 0
    BY <1>1, <1>2, OnceParts, RpcAssumption DEF UidsFresh
  <2>2. NextUid = IF c <= MaxUid THEN c ELSE 0
    BY <1>1, <1>2, <2>1, RpcAssumption DEF NextUid
  <2>3. \A d \in 1 .. c : d = c \/ d \in 1 .. calls
    BY <1>1, <1>2
  <2> QED BY <1>14, <1>15, <2>1, <2>2, <2>3
<1>18. OwnAnswer'
  BY <1>1, <1>2, OnceParts, RpcAssumption DEF OwnAnswer
<1>19. BlockedHasWaiter'
  <2>1. \A t \in Callers : waiting[t] # NoCall => waiting[t] \in 1 .. calls
    BY <1>2, <1>13 DEF NoCall
  <2> QED BY <1>2, <1>14, <2>1, OnceParts DEF BlockedHasWaiter
<1> QED BY <1>12, <1>16, <1>17, <1>18, <1>19 DEF RpcInv

\* The answer kept for the uid of a call is handed to the caller and forgotten.
LEMMA AnsweredKeeps ==
  ASSUME RpcInv, NEW t \in Callers, NEW c \in 1 .. calls, HandOut(t, c),
         results[uidOf[c]] # NoCall, waiting[t] = NoCall \/ waiting[t] = c,
         Uncounted, UNCHANGED <<requests, responses, rpcServer>>
  PROVE  RpcInv'
<1>1. PICK k : k = uidOf[c]
  OBVIOUS
<1>2. PICK d : d = results[k]
  OBVIOUS
<1>3. calls \in Nat /\ c \in Calls
  BY OnceParts, PlacesMade, RpcAssumption DEF Calls
<1>4. results \in [Uids -> 0 .. calls] /\ uidOf \in [Calls -> Uids] /\ waiting \in [Callers -> 0 .. calls]
  BY OnceParts DEF RpcTypes, RpcTypeOK
<1>5. k \in Uids /\ d \in 1 .. calls /\ d # NoCall
  BY <1>1, <1>2, <1>3, <1>4 DEF NoCall
<1>6. /\ answers' = answers \cup {<<c, d>>} /\ results' = [results EXCEPT ![k] = NoCall]
      /\ blocking' = blocking \ {k} /\ waiting' = [waiting EXCEPT ![t] = NoCall]
  BY <1>1, <1>2 DEF HandOut
<1>7. \A u \in Uids : results[u] # NoCall => uidOf[results[u]] = u
  BY OnceParts DEF RpcTypeOK
<1>8. uidOf[d] = k
  BY <1>2, <1>5, <1>7
<1>9. results' \in [Uids -> 0 .. calls] /\ results'[k] = NoCall /\ \A u \in Uids \ {k} : results'[u] = results[u]
  <2>1. NoCall \in 0 .. calls
    BY <1>3 DEF NoCall
  <2> QED BY <1>4, <1>5, <1>6, <2>1
<1>10. Kept' \subseteq Kept \ {d}
  <2> SUFFICES ASSUME NEW u \in Uids, results'[u] # NoCall PROVE results'[u] \in Kept /\ results'[u] # d
    BY DEF Kept
  <2>1. u # k /\ results'[u] = results[u]
    BY <1>9
  <2>2. uidOf[results[u]] = u
    BY <1>7, <2>1
  <2> QED BY <1>8, <2>1, <2>2 DEF Kept
<1>11. d \in Kept /\ Handed' \subseteq Handed \cup {d}
  <2>1. d \in Kept
    BY <1>2, <1>5 DEF Kept
  <2>2. \A a \in answers' : a \in answers \/ a[2] = d
    BY <1>6
  <2> QED BY <2>1, <2>2 DEF Handed
<1>12. Apart'
  <2>1. PICK i \in 1 .. 7, j \in 1 .. 7 : i = 6 /\ j = 7
    OBVIOUS
  <2>2. d \in Place[i] /\ Place'[i] \subseteq Place[i] \ {d} /\ Place'[j] \subseteq Place[j] \cup {d}
    BY <1>10, <1>11, <2>1, Places, PlacesNext
  <2>3. \A m \in 1 .. 7 : m = i \/ m = j \/ m \in {1, 2, 3, 4, 5}
    BY <2>1
  <2>4. \A m \in {1, 2, 3, 4, 5} : Place'[m] \subseteq Place[m]
    BY Places, PlacesNext DEF rpcServer
  <2>5. \A m \in 1 .. 7 \ {j} : Place'[m] \subseteq Place[m]
    BY <2>2, <2>3, <2>4
  <2>6. i # j
    BY <2>1
  <2>7. Apart
    BY OnceParts
  <2> QED BY <2>2, <2>5, <2>6, <2>7, MovesOn
<1>13. Once'
  BY <1>12, OnceParts DEF Once, Apart, rpcServer
<1>14. RpcTypes'
  <2>1. \A u \in Uids : results'[u] # NoCall => uidOf[results'[u]] = u
    BY <1>7, <1>9
  <2>2. waiting' \in [Callers -> 0 .. calls]
    <3>1. NoCall \in 0 .. calls
      BY <1>3 DEF NoCall
    <3> QED BY <1>4, <1>6, <3>1
  <2>3. answers' \subseteq (1 .. calls) \X (1 .. calls)
    BY <1>5, <1>6, OnceParts DEF RpcTypes
  <2>4. blocking' \subseteq Uids
    BY <1>6, OnceParts DEF RpcTypeOK
  <2>5. inHand' \subseteq 1 .. calls /\ responseMap' \subseteq Uids
    BY OnceParts DEF RpcTypeOK, rpcServer
  <2> QED BY <1>9, <2>1, <2>2, <2>3, <2>4, <2>5, OnceParts, TypesKept DEF rpcServer
<1>15. UidsFresh'
  BY OnceParts DEF UidsFresh, Uncounted
<1>16. OwnAnswer'
  <2> SUFFICES ASSUME calls <= MaxUid + 1 PROVE \A a \in answers' : a[1] = a[2]
    BY DEF OwnAnswer, Uncounted
  <2>1. \A e \in 1 .. calls : uidOf[e] = IF e <= MaxUid THEN e ELSE 0
    BY OnceParts DEF UidsFresh
  <2>2. c = d
    BY <1>1, <1>3, <1>5, <1>8, <2>1, RpcAssumption
  <2>3. \A a \in answers : a[1] = a[2]
    BY OnceParts DEF OwnAnswer
  <2> QED BY <1>6, <2>2, <2>3
<1>17. BlockedHasWaiter'
  <2> SUFFICES ASSUME NEW u \in blocking'
               PROVE  \E w \in Callers : waiting'[w] # NoCall /\ uidOf[waiting'[w]] = u
    BY DEF BlockedHasWaiter, Uncounted
  <2>1. u \in blocking /\ u # k
    BY <1>6
  <2>2. PICK w \in Callers : waiting[w] # NoCall /\ uidOf[waiting[w]] = u
    BY <2>1, OnceParts DEF BlockedHasWaiter
  <2>3. w # t
    BY <1>1, <2>1, <2>2
  <2>4. waiting'[w] = waiting[w]
    BY <1>4, <1>6, <2>3
  <2> QED BY <2>2, <2>4
<1> QED BY <1>13, <1>14, <1>15, <1>16, <1>17 DEF RpcInv

\* No answer is handed out: a caller begins to wait or gives up.
LEMMA WaitingKeeps ==
  ASSUME RpcInv, Uncounted, UNCHANGED <<requests, responses, rpcServer, results, answers>>,
         blocking' \subseteq Uids, waiting' \in [Callers -> 0 .. calls], BlockedHasWaiter'
  PROVE  RpcInv'
<1>1. Kept' = Kept /\ Handed' = Handed
  BY DEF Kept, Handed
<1>2. \A i \in 1 .. 7 : Place'[i] = Place[i]
  BY <1>1, Places, PlacesNext DEF rpcServer
<1>3. Apart'
  BY <1>2, OnceParts, DropsOut
<1>4. Once'
  BY <1>3, OnceParts DEF Once, Apart, rpcServer
<1>5. RpcTypes'
  BY OnceParts DEF RpcTypes, RpcTypeOK, rpcServer, Uncounted
<1>6. UidsFresh' /\ OwnAnswer'
  BY OnceParts DEF UidsFresh, OwnAnswer, Uncounted
<1> QED BY <1>4, <1>5, <1>6 DEF RpcInv

LEMMA GetRpcResultKeeps ==
  ASSUME RpcInv, NEW t \in Callers, NEW c \in Calls, NEW block \in BOOLEAN, GetRpcResult(t, c, block)
  PROVE  RpcInv'
<1>1. calls \in Nat
  BY OnceParts, PlacesMade
<1>2. c \in 1 .. calls /\ waiting[t] = NoCall /\ Uncounted /\ UNCHANGED <<requests, responses, rpcServer>>
  BY <1>1, RpcAssumption DEF GetRpcResult, Uncounted, Calls
<1>3. CASE results[uidOf[c]] # NoCall /\ HandOut(t, c)
  BY <1>2, <1>3, AnsweredKeeps
<1>4. CASE /\ blocking' = blocking \cup {uidOf[c]}
           /\ waiting' = [waiting EXCEPT ![t] = c]
           /\ UNCHANGED <<results, answers>>
  <2>1. blocking \subseteq Uids /\ waiting \in [Callers -> 0 .. calls] /\ uidOf[c] \in Uids
    BY OnceParts DEF RpcTypeOK
  <2>2. blocking' \subseteq Uids
    BY <1>4, <2>1
  <2>3. waiting' \in [Callers -> 0 .. calls] /\ waiting'[t] = c /\ \A w \in Callers \ {t} : waiting'[w] = waiting[w]
    BY <1>1, <1>2, <1>4, <2>1
  <2>4. BlockedHasWaiter'
    <3> SUFFICES ASSUME NEW u \in blocking'
                 PROVE  \E w \in Callers : waiting'[w] # NoCall /\ uidOf[waiting'[w]] = u
      BY <1>2 DEF BlockedHasWaiter, Uncounted
    <3>1. CASE u = uidOf[c]
      BY <1>1, <1>2, <2>3, <3>1 DEF NoCall
    <3>2. CASE u \in blocking
      <4>1. PICK w \in Callers : waiting[w] # NoCall /\ uidOf[waiting[w]] = u
        BY <3>2, OnceParts DEF BlockedHasWaiter
      <4>2. w # t
        BY <1>2, <4>1
      <4> QED BY <2>3, <4>1, <4>2
    <3> QED BY <1>4, <3>1, <3>2
  <2> QED BY <1>2, <1>4, <2>2, <2>3, <2>4, WaitingKeeps
<1> QED BY <1>3, <1>4 DEF GetRpcResult

LEMMA WakeUpKeeps ==
  ASSUME RpcInv, NEW t \in Callers, WakeUp(t)
  PROVE  RpcInv'
<1>1. PICK c : c = waiting[t]
  OBVIOUS
<1>2. waiting \in [Callers -> 0 .. calls] /\ calls \in Nat /\ blocking \subseteq Uids
  BY OnceParts, PlacesMade DEF RpcTypeOK
<1>3. c \in 1 .. calls /\ Uncounted /\ UNCHANGED <<requests, responses, rpcServer>>
  BY <1>1, <1>2 DEF WakeUp, Uncounted, NoCall
<1>4. CASE uidOf[c] \in blocking /\ results[uidOf[c]] # NoCall /\ HandOut(t, c)
  BY <1>1, <1>3, <1>4, AnsweredKeeps
<1>5. CASE /\ uidOf[c] \notin blocking
           /\ waiting' = [waiting EXCEPT ![t] = NoCall]
           /\ UNCHANGED <<results, blocking, answers>>
  <2>1. waiting' \in [Callers -> 0 .. calls] /\ \A w \in Callers \ {t} : waiting'[w] = waiting[w]
    <3>1. NoCall \in 0 .. calls
      BY <1>2 DEF NoCall
    <3> QED BY <1>2, <1>5, <3>1
  <2>2. BlockedHasWaiter'
    <3> SUFFICES ASSUME NEW u \in blocking
                 PROVE  \E w \in Callers : waiting'[w] # NoCall /\ uidOf[waiting'[w]] = u
      BY <1>3, <1>5 DEF BlockedHasWaiter, Uncounted
    <3>1. PICK w \in Callers : waiting[w] # NoCall /\ uidOf[waiting[w]] = u
      BY OnceParts DEF BlockedHasWaiter
    <3>2. w # t
      BY <1>1, <1>5, <3>1
    <3> QED BY <2>1, <3>1, <3>2
  <2> QED BY <1>2, <1>3, <1>5, <2>1, <2>2, WaitingKeeps
<1> QED BY <1>1, <1>4, <1>5 DEF WakeUp

LEMMA TimeOutKeeps ==
  ASSUME RpcInv, NEW t \in Callers, TimeOut(t)
  PROVE  RpcInv'
<1>1. PICK c : c = waiting[t]
  OBVIOUS
<1>2. waiting \in [Callers -> 0 .. calls] /\ calls \in Nat /\ blocking \subseteq Uids
  BY OnceParts, PlacesMade DEF RpcTypeOK
<1>3. /\ Uncounted /\ UNCHANGED <<requests, responses, rpcServer, results, answers>>
      /\ waiting' = [waiting EXCEPT ![t] = NoCall] /\ blocking' = blocking \ {uidOf[c]}
  BY <1>1 DEF TimeOut, Leave, Uncounted
<1>4. waiting' \in [Callers -> 0 .. calls] /\ \A w \in Callers \ {t} : waiting'[w] = waiting[w]
  <2>1. NoCall \in 0 .. calls
    BY <1>2 DEF NoCall
  <2> QED BY <1>2, <1>3, <2>1
<1>5. BlockedHasWaiter'
  <2> SUFFICES ASSUME NEW u \in blocking, u # uidOf[c]
               PROVE  \E w \in Callers : waiting'[w] # NoCall /\ uidOf[waiting'[w]] = u
    BY <1>3 DEF BlockedHasWaiter, Uncounted
  <2>1. PICK w \in Callers : waiting[w] # NoCall /\ uidOf[waiting[w]] = u
    BY OnceParts DEF BlockedHasWaiter
  <2>2. w # t
    BY <1>1, <2>1
  <2> QED BY <1>4, <2>1, <2>2
<1>6. blocking' \subseteq Uids
  BY <1>2, <1>3
<1> QED BY <1>3, <1>4, <1>5, <1>6, WaitingKeeps

LEMMA CancelKeeps ==
  ASSUME RpcInv, NEW u \in Uids, CancelBlockingRpcResult(u)
  PROVE  RpcInv'
<1>1. /\ Uncounted /\ UNCHANGED <<requests, responses, rpcServer, results, answers, waiting>>
      /\ blocking' = blocking \ {u}
  BY DEF CancelBlockingRpcResult, Uncounted
<1>2. blocking' \subseteq Uids /\ waiting' \in [Callers -> 0 .. calls]
  BY <1>1, OnceParts DEF RpcTypeOK
<1>3. BlockedHasWaiter'
  BY <1>1, OnceParts DEF BlockedHasWaiter, Uncounted
<1> QED BY <1>1, <1>2, <1>3, WaitingKeeps

LEMMA RpcStep ==
  ASSUME RpcInv, [RpcNext]_rpcVars
  PROVE  RpcInv'
<1>1. CASE CallRpc
  BY <1>1, CallRpcKeeps
<1>2. CASE ServerExecutes
  BY <1>2, ServerExecutesKeeps
<1>3. CASE RunsCallback
  BY <1>3, RunsCallbackKeeps
<1>4. CASE PollRpc
  BY <1>4, PollRpcKeeps
<1>5. CASE PostRpcResponse
  BY <1>5, PostRpcResponseKeeps
<1>6. CASE TakesResponse
  BY <1>6, TakesResponseKeeps
<1>7. CASE DeleteProcedure
  BY <1>7, DeleteProcedureKeeps
<1>8. CASE LoseConnection
  BY <1>8, LoseConnectionKeeps
<1>9. CASE \E t \in Callers, c \in Calls, block \in BOOLEAN : GetRpcResult(t, c, block)
  BY <1>9, GetRpcResultKeeps
<1>10. CASE \E t \in Callers : WakeUp(t) \/ TimeOut(t)
  BY <1>10, WakeUpKeeps, TimeOutKeeps
<1>11. CASE \E u \in Uids : CancelBlockingRpcResult(u)
  BY <1>11, CancelKeeps
<1>12. CASE UNCHANGED rpcVars
  <2>1. /\ Uncounted /\ UNCHANGED <<requests, responses, rpcServer, results, answers, blocking, waiting>>
    BY <1>12 DEF rpcVars, rpcNode, Uncounted
  <2>2. blocking' \subseteq Uids /\ waiting' \in [Callers -> 0 .. calls] /\ BlockedHasWaiter'
    BY <2>1, OnceParts DEF RpcTypeOK, BlockedHasWaiter, Uncounted
  <2> QED BY <2>1, <2>2, WaitingKeeps
<1> QED BY <1>1, <1>2, <1>3, <1>4, <1>5, <1>6, <1>7, <1>8, <1>9, <1>10, <1>11, <1>12 DEF RpcNext

LEMMA RpcStarts ==
  ASSUME RpcInit
  PROVE  RpcInv
<1>1. /\ calls = 0 /\ callUid = 0 /\ blocking = {} /\ responseMap = {} /\ inHand = {} /\ answers = {}
      /\ requests = <<>> /\ responses = <<>> /\ pollQueue = <<>> /\ callQueue = <<>>
      /\ uidOf = [c \in Calls |-> 0] /\ results = [u \in Uids |-> NoCall]
      /\ waiting = [t \in Callers |-> NoCall]
  BY DEF RpcInit
<1>2. \A S : <<>> \in Seq(S) /\ Len(<<>>) = 0
  BY EmptySeq
<1>3. Elems(<<>>) = {} /\ Distinct(<<>>)
  BY <1>2 DEF Elems, Distinct
<1>4. RpcTypes
  <2>1. 0 \in Uids /\ 0 \in 0 .. MaxCalls /\ NoCall \in 0 .. calls
    BY <1>1, RpcAssumption DEF Uids, NoCall
  <2>2. {requests, responses, pollQueue, callQueue} \subseteq Seq(1 .. calls)
    BY <1>1, <1>2
  <2>3. \A u \in Uids : results[u] = NoCall
    BY <1>1
  <2> QED BY <1>1, <2>1, <2>2, <2>3 DEF RpcTypes, RpcTypeOK
<1>5. Kept = {} /\ Handed = {}
  BY <1>1 DEF Kept, Handed
<1>6. \A i \in 1 .. 7 : Place[i] = {}
  <2>1. \A i \in 1 .. 7 : i \in {1, 2, 3, 4, 5, 6, 7}
    OBVIOUS
  <2> QED BY <1>1, <1>3, <1>5, <2>1, Places
<1>7. Once
  BY <1>1, <1>3, <1>6 DEF Once
<1>8. UidsFresh
  BY <1>1, RpcAssumption DEF UidsFresh
<1>9. OwnAnswer /\ BlockedHasWaiter
  BY <1>1 DEF OwnAnswer, BlockedHasWaiter
<1> QED BY <1>4, <1>7, <1>8, <1>9 DEF RpcInv

\* A call that was handed out is in no other place, so its answer is not kept.
LEMMA RpcInvSafe ==
  ASSUME RpcInv
  PROVE  RpcSafe
<1>1. RightAnswer
  <2> SUFFICES ASSUME calls <= MaxUid + 1, NEW a \in answers
               PROVE  a[1] = a[2] /\ results[uidOf[a[2]]] # a[2]
    BY DEF RightAnswer
  <2>1. a[1] = a[2]
    BY OnceParts DEF OwnAnswer
  <2>2. a[2] \in Handed /\ a[2] \in 1 .. calls
    BY OnceParts DEF Handed, RpcTypes
  <2>3. a[2] \notin Kept
    <3>1. PICK i \in 1 .. 7, j \in 1 .. 7 : i = 6 /\ j = 7
      OBVIOUS
    <3>2. i # j /\ Place[i] = Kept /\ Place[j] = Handed
      BY <3>1, Places
    <3> QED BY <2>2, <3>2, OnceParts DEF Apart
  <2>4. calls \in Nat /\ a[2] \in Calls /\ a[2] # NoCall
    BY <2>2, OnceParts, PlacesMade, RpcAssumption DEF Calls, NoCall
  <2>5. uidOf[a[2]] \in Uids
    BY <2>4, OnceParts DEF RpcTypeOK
  <2> QED BY <2>1, <2>3, <2>4, <2>5 DEF Kept
<1> QED BY <1>1, OnceParts DEF RpcSafe

\* Remote calls: what is kept for a uid is a call that has that uid, a caller is given
\* the answer of its own call and only once until the uids wrap around, and no uid
\* stays blocked without a thread that waits for it.
THEOREM RpcCallsSafe == RpcSpec => []RpcSafe
<1>1. RpcInit => RpcInv
  BY RpcStarts
<1>2. RpcInv /\ [RpcNext]_rpcVars => RpcInv'
  BY RpcStep
<1>3. RpcInv => RpcSafe
  BY RpcInvSafe
<1> QED BY <1>1, <1>2, <1>3, PTL DEF RpcSpec

(***************************************************************************)
(* The persistent file, for any number of changes, saves, failures, files  *)
(* and crashes.                                                            *)
(*                                                                         *)
(* As long as the two savers have not worked on the file at once, at most  *)
(* one of them is at work, and the file it writes is the temporary one;    *)
(* from the removal of the backup on, that one is whole.  Of the other two *)
(* names, only between the renames may the backup be the only one taken,   *)
(* unless a restore failed; so removing it loses nothing.                  *)
(***************************************************************************)

SaverPlaces == {"idle", "open", "write", "remove", "backup", "move", "restore"}

Written == {"remove", "backup", "move", "restore"}  \* the temporary file is complete

PersistTypes ==
  /\ edits \in 0 .. MaxVersions /\ version \in 0 .. edits /\ loaded \in 0 .. edits
  /\ dirty \in BOOLEAN /\ shared \in BOOLEAN /\ userSaved \in BOOLEAN /\ stranded \in BOOLEAN
  /\ pc \in [Savers -> SaverPlaces]
  /\ files \in 0 .. MaxFiles /\ crashes \in 0 .. MaxCrashes
  /\ snap \in [Savers -> 0 .. edits] /\ handle \in [Savers -> 0 .. files]
  /\ path \in [Paths -> 0 .. files]
  /\ data \in [1 .. MaxFiles -> [saved : 0 .. edits, whole : BOOLEAN]]

OneName == \A p, q \in Paths : p # q /\ path[p] = path[q] => path[p] = Nothing

\* Files that were not created yet have nothing in them.
NotCreated == \A i \in 1 .. MaxFiles : i > files => ~data[i].whole

OneSaver == ~shared => \A s, t \in Savers : s # t => pc[s] = "idle" \/ pc[t] = "idle"

\* A saver at work knows the temporary file.
TmpKnown ==
  ~shared => \A s \in Savers :
    /\ pc[s] = "write" =>
         path["tmp"] = handle[s] /\ path["tmp"] # Nothing /\ ~data[path["tmp"]].whole
    /\ pc[s] \in Written =>
         path["tmp"] # Nothing /\ data[path["tmp"]] = [saved |-> snap[s], whole |-> TRUE]

\* Until the first crash, and a failed restore, the backup is the only one of
\* the two only between the renames.
NamesByPlace ==
  crashes = 0 /\ ~shared /\ ~stranded /\ (\A s \in Savers : pc[s] \notin {"move", "restore"}) =>
    (path["bak"] # Nothing => path["fn"] # Nothing)

\* And that one of them has a table once any file but the temporary one had.
KeepsOne ==
  crashes = 0 /\ ~shared /\ ~stranded
  /\ (\E i \in 1 .. MaxFiles : data[i].whole /\ i # path["tmp"]) =>
    path["fn"] # Nothing \/ path["bak"] # Nothing

\* While the program does not save, a clean table is the one being saved.
CleanIsSnap ==
  ~userSaved =>
    /\ ~shared /\ pc["user"] = "idle"
    /\ ~dirty /\ pc["dispatch"] # "idle" => snap["dispatch"] = version

SaveInv ==
  /\ PersistTypes /\ OneName /\ NotCreated /\ OneSaver /\ TmpKnown /\ NeverTorn
  /\ NamesByPlace /\ KeepsOne /\ CleanIsSnap /\ CleanIsSaved

LEMMA SaveInvInit == PersistInit => SaveInv
<1> SUFFICES ASSUME PersistInit PROVE SaveInv
  OBVIOUS
<1> USE PersistenceAssumption DEF PersistInit, Nothing, Paths, Savers
<1>1. PersistTypes
  <2>1. /\ edits \in 0 .. MaxVersions /\ version \in 0 .. edits /\ loaded \in 0 .. edits
        /\ files \in 0 .. MaxFiles /\ crashes \in 0 .. MaxCrashes
    OBVIOUS
  <2>2. dirty \in BOOLEAN /\ shared \in BOOLEAN /\ userSaved \in BOOLEAN /\ stranded \in BOOLEAN
    OBVIOUS
  <2>3. pc \in [Savers -> SaverPlaces]
    BY DEF SaverPlaces
  <2>4. /\ snap \in [Savers -> 0 .. edits] /\ handle \in [Savers -> 0 .. files]
        /\ path \in [Paths -> 0 .. files]
    OBVIOUS
  <2>5. data \in [1 .. MaxFiles -> [saved : 0 .. edits, whole : BOOLEAN]]
    BY DEF Empty
  <2> QED BY <2>1, <2>2, <2>3, <2>4, <2>5 DEF PersistTypes
<1>2. OneName /\ NotCreated /\ OneSaver /\ TmpKnown /\ NeverTorn
  BY DEF OneName, NotCreated, OneSaver, TmpKnown, NeverTorn, Empty, Written
<1>3. NamesByPlace /\ KeepsOne /\ CleanIsSnap /\ CleanIsSaved
  BY DEF NamesByPlace, KeepsOne, CleanIsSnap, CleanIsSaved, Empty
<1> QED BY <1>1, <1>2, <1>3 DEF SaveInv

LEMMA SaveInvSafe == SaveInv => SaveSafe
<1> SUFFICES ASSUME SaveInv PROVE SaveSafe
  OBVIOUS
<1>1. PersistTypeOK
  BY DEF SaveInv, PersistTypes, OneName, PersistTypeOK, SaverPlaces
<1>2. SomeCopy
  <2> SUFFICES ASSUME crashes = 0, ~shared, ~stranded, NEW i \in 1 .. files, data[i].whole
               PROVE  \E p \in Paths : path[p] # Nothing /\ data[path[p]].whole
    BY DEF SomeCopy
  <2>1. CASE i = path["tmp"]
    BY <2>1 DEF Paths, Nothing, SaveInv, PersistTypes
  <2>2. CASE i # path["tmp"]
    <3>1. i \in 1 .. MaxFiles
      BY PersistenceAssumption DEF SaveInv, PersistTypes
    <3>2. path["fn"] # Nothing \/ path["bak"] # Nothing
      BY <2>2, <3>1 DEF SaveInv, KeepsOne
    <3> QED BY <3>2 DEF SaveInv, NeverTorn, Paths
  <2> QED BY <2>1, <2>2
<1> QED BY <1>1, <1>2 DEF SaveInv, SaveSafe

(***************************************************************************)
(* The steps that no saver takes.                                          *)
(***************************************************************************)
LEMMA SaveInvChange ==
  ASSUME SaveInv, ChangeTable
  PROVE  SaveInv'
<1> USE PersistenceAssumption DEF SaveInv, ChangeTable, savers, disk
<1>1. PersistTypes'
  <2>1. edits' = edits + 1 /\ edits' \in 0 .. MaxVersions /\ version' \in 0 .. edits'
    BY DEF PersistTypes
  <2>2. snap' \in [Savers -> 0 .. edits'] /\ data' \in [1 .. MaxFiles -> [saved : 0 .. edits', whole : BOOLEAN]]
    <3>1. (0 .. edits) \subseteq (0 .. edits')
      BY <2>1 DEF PersistTypes
    <3> QED BY <3>1 DEF PersistTypes
  <2> QED BY <2>1, <2>2 DEF PersistTypes
<1>2. OneName' /\ NotCreated' /\ OneSaver' /\ TmpKnown' /\ NeverTorn'
  BY DEF OneName, NotCreated, OneSaver, TmpKnown, NeverTorn
<1>3. NamesByPlace' /\ KeepsOne'
  BY DEF NamesByPlace, KeepsOne
<1>4. CleanIsSnap' /\ CleanIsSaved'
  BY DEF CleanIsSnap, CleanIsSaved
<1> QED BY <1>1, <1>2, <1>3, <1>4

LEMMA SaveInvElsewhere ==
  ASSUME SaveInv, SaveElsewhere
  PROVE  SaveInv'
<1> USE DEF SaveInv, SaveElsewhere, savers, disk
<1>1. PersistTypes'
  BY DEF PersistTypes
<1>2. OneName' /\ NotCreated' /\ OneSaver' /\ TmpKnown' /\ NeverTorn'
  BY DEF OneName, NotCreated, OneSaver, TmpKnown, NeverTorn
<1>3. NamesByPlace' /\ KeepsOne'
  BY DEF NamesByPlace, KeepsOne
<1>4. CleanIsSnap' /\ CleanIsSaved'
  BY DEF CleanIsSnap, CleanIsSaved
<1> QED BY <1>1, <1>2, <1>3, <1>4

LEMMA SaveInvCrash ==
  ASSUME SaveInv, Crash
  PROVE  SaveInv'
<1> USE PersistenceAssumption DEF SaveInv, Crash, disk
<1>1. PersistTypes'
  <2>1. version' \in 0 .. edits
    <3>1. CASE path["fn"] # Nothing /\ data[path["fn"]].whole
      <4>1. path["fn"] \in 1 .. MaxFiles
        BY <3>1 DEF PersistTypes, Paths, Nothing
      <4> QED BY <3>1, <4>1 DEF PersistTypes
    <3>2. CASE ~(path["fn"] # Nothing /\ data[path["fn"]].whole)
      BY <3>2 DEF PersistTypes, Nothing
    <3> QED BY <3>1, <3>2
  <2>2. crashes' \in 0 .. MaxCrashes
    BY DEF PersistTypes
  <2>3. pc' \in [Savers -> SaverPlaces]
    BY DEF SaverPlaces
  <2> QED BY <2>1, <2>2, <2>3 DEF PersistTypes
<1>2. pc' = [t \in Savers |-> "idle"] /\ crashes' # 0
  BY DEF PersistTypes
<1>3. OneName' /\ NotCreated' /\ OneSaver' /\ TmpKnown' /\ NeverTorn'
  BY <1>2 DEF OneName, NotCreated, OneSaver, TmpKnown, NeverTorn, Written
<1>4. NamesByPlace' /\ KeepsOne'
  BY <1>2 DEF NamesByPlace, KeepsOne
<1>5. CleanIsSnap' /\ CleanIsSaved'
  BY <1>2 DEF CleanIsSnap, CleanIsSaved, Savers
<1> QED BY <1>1, <1>3, <1>4, <1>5

(***************************************************************************)
(* The steps of a saver.                                                   *)
(***************************************************************************)
LEMMA OthersIdle ==
  ASSUME SaveInv, NEW s \in Savers, pc[s] # "idle", ~shared
  PROVE  \A t \in Savers : t # s => pc[t] = "idle"
BY DEF SaveInv, OneSaver

LEMMA StepsTo ==
  ASSUME SaveInv, NEW s \in Savers, NEW from, NEW to \in SaverPlaces, At(s, from, to)
  PROVE  /\ pc[s] = from /\ pc'[s] = to /\ pc' \in [Savers -> SaverPlaces]
         /\ \A t \in Savers : t # s => pc'[t] = pc[t]
BY DEF SaveInv, PersistTypes, At

LEMMA SaveInvSnapshot ==
  ASSUME SaveInv, NEW s \in Savers, Snapshot(s)
  PROVE  SaveInv'
<1> USE DEF SaveInv, disk
<1>1. /\ pc[s] = "idle" /\ pc'[s] = "open" /\ pc' \in [Savers -> SaverPlaces]
      /\ \A t \in Savers : t # s => pc'[t] = pc[t]
  BY StepsTo, Zenon DEF Snapshot, SaverPlaces
<1>2. /\ dirty' = FALSE
      /\ snap' = [snap EXCEPT ![s] = version]
      /\ shared' = (shared \/ \E t \in Savers \ {s} : pc[t] # "idle")
      /\ userSaved' = (userSaved \/ s = "user")
      /\ UNCHANGED <<version, edits, handle, path, data, files, crashes, loaded, stranded>>
  BY DEF Snapshot
<1>3. snap'[s] = version /\ \A t \in Savers : t # s => snap'[t] = snap[t]
  BY <1>2 DEF PersistTypes
<1>4. PersistTypes'
  <2>1. snap' \in [Savers -> 0 .. edits]
    BY <1>2 DEF PersistTypes
  <2> HIDE DEF SaveInv
  <2>2. dirty' \in BOOLEAN /\ shared' \in BOOLEAN /\ userSaved' \in BOOLEAN
    BY <1>2, Zenon
  <2> QED BY <1>1, <1>2, <2>1, <2>2 DEF SaveInv, PersistTypes
<1>5. ~shared' => ~shared /\ \A t \in Savers : t # s => pc[t] = "idle" /\ pc'[t] = "idle"
  BY <1>1, <1>2
<1>6. OneName' /\ NotCreated' /\ OneSaver' /\ NeverTorn'
  BY <1>1, <1>2, <1>5 DEF OneName, NotCreated, OneSaver, NeverTorn
<1>7. TmpKnown'
  BY <1>1, <1>5 DEF TmpKnown, Written
<1>8. NamesByPlace' /\ KeepsOne'
  BY <1>1, <1>2, <1>5 DEF NamesByPlace, KeepsOne
<1>9. CleanIsSnap' /\ CleanIsSaved'
  <2>1. CASE s = "user"
    BY <1>2, <2>1 DEF CleanIsSnap, CleanIsSaved
  <2>2. CASE s = "dispatch"
    BY <1>1, <1>2, <1>3, <2>2 DEF CleanIsSnap, CleanIsSaved, Savers
  <2> QED BY <2>1, <2>2 DEF Savers
<1> QED BY <1>4, <1>6, <1>7, <1>8, <1>9

\* A failed save leaves the table as it was, and the periodic one leaves it dirty.
LEMMA Failed ==
  ASSUME SaveInv, NEW s \in Savers, FailedSave(s), pc[s] # "idle", UNCHANGED userSaved
  PROVE  dirty' \in BOOLEAN /\ (userSaved' \/ (s = "dispatch" /\ dirty'))
<1>1. dirty' \in BOOLEAN
  BY Zenon DEF FailedSave
<1>2. userSaved \/ s = "dispatch"
  BY DEF SaveInv, CleanIsSnap, Savers
<1> QED BY <1>1, <1>2 DEF FailedSave

LEMMA SaveInvOpen ==
  ASSUME SaveInv, NEW s \in Savers, OpenTmp(s)
  PROVE  SaveInv'
<1> USE PersistenceAssumption DEF SaveInv
<1> DEFINE i == IF path["tmp"] # Nothing THEN path["tmp"] ELSE files + 1
<1>1. UNCHANGED <<version, edits, crashes, loaded, userSaved, snap, shared, stranded>>
  BY DEF OpenTmp, TableKept
<1>2. CASE /\ At(s, "open", "write")
           /\ path' = [path EXCEPT !["tmp"] = i]
           /\ data' = [data EXCEPT ![i] = Empty]
           /\ files' = IF i > files THEN i ELSE files
           /\ handle' = [handle EXCEPT ![s] = i]
           /\ UNCHANGED dirty
  <2>1. i \in 1 .. MaxFiles /\ files' \in files .. MaxFiles /\ i <= files'
    BY <1>2 DEF OpenTmp, PersistTypes, Paths, Nothing
  <2> HIDE DEF i
  <2>2. /\ pc[s] = "open" /\ pc'[s] = "write" /\ pc' \in [Savers -> SaverPlaces]
        /\ \A t \in Savers : t # s => pc'[t] = pc[t]
    BY <1>2, StepsTo, Zenon DEF SaverPlaces
  <2>3. /\ path'["tmp"] = i /\ path'["fn"] = path["fn"] /\ path'["bak"] = path["bak"]
        /\ path["fn"] # i /\ path["bak"] # i
    BY <1>2, <2>1 DEF PersistTypes, OneName, Paths, Nothing, i
  <2>4. data'[i] = Empty /\ \A j \in 1 .. MaxFiles : j # i => data'[j] = data[j]
    BY <1>2, <2>1 DEF PersistTypes
  <2>5. handle'[s] = i
    BY <1>2 DEF PersistTypes
  <2>6. PersistTypes'
    <3>1. handle' \in [Savers -> 0 .. files'] /\ path' \in [Paths -> 0 .. files']
      <4>1. (0 .. files) \subseteq (0 .. files') /\ i \in 0 .. files'
        BY <2>1 DEF PersistTypes
      <4> QED BY <1>2, <4>1 DEF PersistTypes
    <3>2. data' \in [1 .. MaxFiles -> [saved : 0 .. edits, whole : BOOLEAN]]
      <4>1. Empty \in [saved : 0 .. edits, whole : BOOLEAN]
        BY DEF PersistTypes, Empty, Nothing
      <4> QED BY <1>2, <2>1, <4>1 DEF PersistTypes
    <3> QED BY <1>1, <1>2, <2>1, <2>2, <3>1, <3>2 DEF PersistTypes
  <2>7. OneName' /\ NotCreated'
    BY <2>1, <2>3, <2>4, <1>2 DEF OneName, NotCreated, Paths, PersistTypes, Empty
  <2>8. OneSaver' /\ TmpKnown'
    BY <1>1, <2>1, <2>2, <2>3, <2>4, <2>5, OthersIdle
       DEF OneSaver, TmpKnown, Written, Empty, Nothing
  <2>9. NeverTorn'
    <3> SUFFICES ASSUME ~shared, NEW p \in {"fn", "bak"}, path'[p] # Nothing
                 PROVE  data'[path'[p]].whole
      BY <1>1 DEF NeverTorn
    <3>1. path'[p] = path[p] /\ path[p] # i /\ path[p] \in 1 .. MaxFiles
      BY <2>3 DEF PersistTypes, Paths, Nothing
    <3>2. data'[path[p]] = data[path[p]]
      BY <2>4, <3>1
    <3>3. data[path[p]].whole
      BY <3>1 DEF NeverTorn
    <3> QED BY <3>1, <3>2, <3>3
  <2>10. NamesByPlace'
    BY <1>1, <2>2, <2>3, OthersIdle DEF NamesByPlace
  <2>11. KeepsOne'
    <3> SUFFICES ASSUME crashes = 0, ~shared, ~stranded,
                        NEW j \in 1 .. MaxFiles, data'[j].whole, j # path'["tmp"]
                 PROVE  path["fn"] # Nothing \/ path["bak"] # Nothing
      BY <1>1, <2>3 DEF KeepsOne
    <3>1. data[j].whole /\ j # i
      BY <2>3, <2>4
    <3>2. path["tmp"] # j
      BY <3>1 DEF i, Nothing
    <3> QED BY <3>1, <3>2 DEF KeepsOne
  <2>12. CleanIsSnap' /\ CleanIsSaved'
    BY <1>1, <1>2, <2>1, <2>2, <2>3, <2>4 DEF CleanIsSnap, CleanIsSaved, Savers, PersistTypes,
       Paths, Nothing
  <2> QED BY <2>6, <2>7, <2>8, <2>9, <2>10, <2>11, <2>12
<1>3. CASE At(s, "open", "idle") /\ FailedSave(s) /\ UNCHANGED <<disk, handle>>
  <2>1. /\ pc[s] = "open" /\ pc'[s] = "idle" /\ pc' \in [Savers -> SaverPlaces]
        /\ \A t \in Savers : t # s => pc'[t] = pc[t]
    BY <1>3, StepsTo, Zenon DEF SaverPlaces
  <2>2. UNCHANGED <<path, data, files>>
    BY <1>3 DEF disk
  <2>3. dirty' \in BOOLEAN /\ (userSaved' \/ (s = "dispatch" /\ dirty'))
    BY <1>1, <1>3, <2>1, Failed
  <2>4. PersistTypes'
    BY <1>1, <1>3, <2>1, <2>2, <2>3 DEF PersistTypes
  <2>5. OneName' /\ NotCreated' /\ OneSaver' /\ TmpKnown' /\ NeverTorn'
    BY <1>1, <1>3, <2>1, <2>2 DEF OneName, NotCreated, OneSaver, TmpKnown, Written, NeverTorn
  <2>6. NamesByPlace' /\ KeepsOne'
    BY <1>1, <2>1, <2>2, OthersIdle DEF NamesByPlace, KeepsOne
  <2>7. CleanIsSnap' /\ CleanIsSaved'
    BY <1>1, <2>1, <2>2, <2>3 DEF CleanIsSnap, CleanIsSaved, Savers
  <2> QED BY <2>4, <2>5, <2>6, <2>7
<1> QED BY <1>2, <1>3 DEF OpenTmp

\* What removing a name, or failing to, does to the names.
LEMMA Removed ==
  ASSUME SaveInv, NEW name \in Paths, RemoveName(name)
  PROVE  /\ path' \in [Paths -> 0 .. files]
         /\ path'[name] \in {Nothing, path[name]}
         /\ \A p \in Paths \ {name} : path'[p] = path[p]
<1>1. path \in [Paths -> 0 .. files] /\ Nothing \in 0 .. files
  BY DEF SaveInv, PersistTypes, Nothing
<1>2. CASE path' = path
  BY <1>1, <1>2
<1>3. CASE path' = Without(name)
  BY <1>1, <1>3 DEF Without
<1> QED BY <1>2, <1>3 DEF RemoveName

LEMMA SaveInvWrite ==
  ASSUME SaveInv, NEW s \in Savers, WriteTmp(s)
  PROVE  SaveInv'
<1> USE PersistenceAssumption DEF SaveInv
<1>1. UNCHANGED <<version, edits, crashes, loaded, userSaved, snap, shared, handle, files,
                stranded>>
  BY DEF WriteTmp, TableKept
<1>2. CASE /\ At(s, "write", "remove")
           /\ data' = [data EXCEPT ![handle[s]] = [saved |-> snap[s], whole |-> TRUE]]
           /\ UNCHANGED <<dirty, path>>
  <2> DEFINE h == handle[s]
  <2>1. /\ pc[s] = "write" /\ pc'[s] = "remove" /\ pc' \in [Savers -> SaverPlaces]
        /\ \A t \in Savers : t # s => pc'[t] = pc[t]
    BY <1>2, StepsTo, Zenon DEF SaverPlaces
  <2>2. /\ \A j \in 1 .. MaxFiles : j # h => data'[j] = data[j]
        /\ h \in 1 .. MaxFiles => data'[h] = [saved |-> snap[s], whole |-> TRUE]
    BY <1>2 DEF PersistTypes
  <2>3. h \in 0 .. files
    BY DEF PersistTypes
  <2>4. ~shared => path["tmp"] = h /\ h \in 1 .. MaxFiles
    <3>1. ~shared => path["tmp"] = h /\ h # 0
      BY <2>1 DEF TmpKnown, Nothing
    <3> HIDE DEF h
    <3> QED BY <2>3, <3>1 DEF PersistTypes
  <2>5. PersistTypes'
    <3>1. [saved |-> snap[s], whole |-> TRUE] \in [saved : 0 .. edits, whole : BOOLEAN]
      BY DEF PersistTypes
    <3>2. data' \in [1 .. MaxFiles -> [saved : 0 .. edits, whole : BOOLEAN]]
      BY <1>2, <3>1 DEF PersistTypes
    <3> QED BY <1>1, <1>2, <2>1, <3>2 DEF PersistTypes
  <2>6. OneName' /\ NotCreated'
    BY <1>1, <1>2, <2>2, <2>3 DEF OneName, NotCreated, PersistTypes
  <2>7. OneSaver' /\ TmpKnown'
    <3> HIDE DEF h
    <3>1. ~shared => path["tmp"] = h /\ h # 0 /\ data'[h] = [saved |-> snap[s], whole |-> TRUE]
      BY <2>2, <2>4
    <3>2. ~shared => \A t \in Savers : t # s => pc'[t] = "idle"
      BY <2>1, OthersIdle
    <3> QED BY <1>1, <1>2, <2>1, <3>1, <3>2 DEF OneSaver, TmpKnown, Written, Nothing
  <2>8. NeverTorn'
    BY <1>1, <1>2, <2>2, <2>4 DEF NeverTorn, OneName, PersistTypes, Paths, Nothing
  <2>9. NamesByPlace' /\ KeepsOne'
    BY <1>1, <1>2, <2>1, <2>2, <2>4, OthersIdle DEF NamesByPlace, KeepsOne
  <2>10. CleanIsSnap' /\ CleanIsSaved'
    BY <1>1, <1>2, <2>1, <2>2, <2>4 DEF CleanIsSnap, CleanIsSaved, Savers, OneName, Paths,
       PersistTypes, Nothing
  <2> QED BY <2>5, <2>6, <2>7, <2>8, <2>9, <2>10
<1>3. CASE /\ At(s, "write", "idle")
           /\ RemoveName("tmp") /\ FailedSave(s) /\ UNCHANGED data
  <2>1. /\ pc[s] = "write" /\ pc'[s] = "idle" /\ pc' \in [Savers -> SaverPlaces]
        /\ \A t \in Savers : t # s => pc'[t] = pc[t]
    BY <1>3, StepsTo, Zenon DEF SaverPlaces
  <2>2. /\ path'["tmp"] \in {Nothing, path["tmp"]}
        /\ path'["fn"] = path["fn"] /\ path'["bak"] = path["bak"]
        /\ path' \in [Paths -> 0 .. files]
    BY <1>3, Removed DEF Paths
  <2>3. dirty' \in BOOLEAN /\ (userSaved' \/ (s = "dispatch" /\ dirty'))
    BY <1>1, <1>3, <2>1, Failed
  <2>4. PersistTypes'
    BY <1>1, <1>3, <2>1, <2>2, <2>3 DEF PersistTypes
  <2>5. OneName' /\ NotCreated' /\ NeverTorn'
    BY <1>1, <1>3, <2>2 DEF OneName, NotCreated, NeverTorn, Paths, Nothing
  <2>6. OneSaver' /\ TmpKnown'
    BY <1>1, <1>3, <2>1, OthersIdle DEF OneSaver, TmpKnown, Written
  <2>7. NamesByPlace' /\ KeepsOne'
    BY <1>1, <1>3, <2>1, <2>2, OthersIdle DEF NamesByPlace, KeepsOne, TmpKnown
  <2>8. CleanIsSnap' /\ CleanIsSaved'
    BY <1>1, <2>1, <2>2, <2>3 DEF CleanIsSnap, CleanIsSaved, Savers
  <2> QED BY <2>4, <2>5, <2>6, <2>7, <2>8
<1> QED BY <1>2, <1>3 DEF WriteTmp

\* What renaming a file to a free name, or over another file, does to the names.
LEMMA Renamed ==
  ASSUME SaveInv, NEW from \in Paths, NEW to \in Paths, from # to, path' = Rename(from, to)
  PROVE  /\ path' \in [Paths -> 0 .. files]
         /\ path'[to] = path[from] /\ path'[from] = Nothing
         /\ \A p \in Paths \ {from, to} : path'[p] = path[p]
         /\ OneName'
<1>1. path \in [Paths -> 0 .. files] /\ Nothing \in 0 .. files
  BY DEF SaveInv, PersistTypes, Nothing
<1>2. path' \in [Paths -> 0 .. files]
  BY <1>1 DEF Rename
<1>3. /\ path'[to] = path[from] /\ path'[from] = Nothing
      /\ \A p \in Paths \ {from, to} : path'[p] = path[p]
  BY <1>1 DEF Rename
<1>4. OneName'
  BY <1>3 DEF SaveInv, OneName
<1> QED BY <1>2, <1>3, <1>4

\* The same, where the renaming may fail.
LEMMA TriedRename ==
  ASSUME SaveInv, NEW from \in Paths, NEW to \in Paths, from # to, TryRename(from, to)
  PROVE  /\ path' \in [Paths -> 0 .. files] /\ OneName'
         /\ \A p \in Paths \ {from, to} : path'[p] = path[p]
         /\ \/ path' = path
            \/ path[from] # Nothing /\ path'[from] = Nothing /\ path'[to] = path[from]
<1>1. CASE path' = path
  BY <1>1 DEF SaveInv, PersistTypes, OneName
<1>2. CASE path[from] # Nothing /\ path' = Rename(from, to)
  BY <1>2, Renamed
<1> QED BY <1>1, <1>2 DEF TryRename

LEMMA SaveInvRemove ==
  ASSUME SaveInv, NEW s \in Savers, RemoveBak(s)
  PROVE  SaveInv'
<1> USE DEF SaveInv
<1>1. UNCHANGED <<version, edits, crashes, loaded, userSaved, dirty, snap, handle, data, files,
                shared, stranded>>
  BY DEF RemoveBak, TableKept
<1>2. /\ pc[s] = "remove" /\ pc'[s] = "backup" /\ pc' \in [Savers -> SaverPlaces]
      /\ \A t \in Savers : t # s => pc'[t] = pc[t]
  BY StepsTo, Zenon DEF RemoveBak, SaverPlaces
<1>3. /\ path'["bak"] \in {Nothing, path["bak"]}
      /\ path'["fn"] = path["fn"] /\ path'["tmp"] = path["tmp"]
      /\ path' \in [Paths -> 0 .. files]
  BY Removed DEF RemoveBak, Paths
<1>4. PersistTypes'
  BY <1>1, <1>2, <1>3 DEF PersistTypes
<1>5. OneName' /\ NotCreated' /\ NeverTorn'
  BY <1>1, <1>3 DEF OneName, NotCreated, NeverTorn, Paths, Nothing
<1>6. OneSaver' /\ TmpKnown'
  BY <1>1, <1>2, <1>3, OthersIdle DEF OneSaver, TmpKnown, Written
<1>7. NamesByPlace' /\ KeepsOne'
  BY <1>1, <1>2, <1>3, OthersIdle DEF NamesByPlace, KeepsOne
<1>8. CleanIsSnap' /\ CleanIsSaved'
  BY <1>1, <1>2, <1>3 DEF CleanIsSnap, CleanIsSaved, Savers
<1> QED BY <1>4, <1>5, <1>6, <1>7, <1>8

LEMMA SaveInvBackUp ==
  ASSUME SaveInv, NEW s \in Savers, BackUp(s)
  PROVE  SaveInv'
<1> USE DEF SaveInv
<1>1. UNCHANGED <<version, edits, crashes, loaded, userSaved, dirty, snap, handle, data, files,
                shared, stranded>>
  BY DEF BackUp, TableKept
<1>2. /\ pc[s] = "backup" /\ pc'[s] = "move" /\ pc' \in [Savers -> SaverPlaces]
      /\ \A t \in Savers : t # s => pc'[t] = pc[t]
  BY StepsTo, Zenon DEF BackUp, SaverPlaces
<1>3. /\ path' \in [Paths -> 0 .. files] /\ OneName' /\ path'["tmp"] = path["tmp"]
      /\ \/ path'["fn"] = path["fn"] /\ path'["bak"] = path["bak"]
         \/ path["fn"] # Nothing /\ path'["fn"] = Nothing /\ path'["bak"] = path["fn"]
  BY TriedRename DEF BackUp, Paths
<1>4. PersistTypes'
  BY <1>1, <1>2, <1>3 DEF PersistTypes
<1>5. NotCreated' /\ NeverTorn'
  BY <1>1, <1>3 DEF NotCreated, NeverTorn, Paths, Nothing
<1>6. OneSaver' /\ TmpKnown'
  BY <1>1, <1>2, <1>3, OthersIdle DEF OneSaver, TmpKnown, Written
<1>7. NamesByPlace' /\ KeepsOne'
  BY <1>1, <1>2, <1>3, OthersIdle DEF NamesByPlace, KeepsOne
<1>8. CleanIsSnap' /\ CleanIsSaved'
  BY <1>1, <1>2, <1>3 DEF CleanIsSnap, CleanIsSaved, Savers
<1> QED BY <1>3, <1>4, <1>5, <1>6, <1>7, <1>8

LEMMA SaveInvMove ==
  ASSUME SaveInv, NEW s \in Savers, MoveToReal(s)
  PROVE  SaveInv'
<1> USE DEF SaveInv
<1>1. UNCHANGED <<version, edits, crashes, loaded, userSaved, dirty, snap, handle, data, files, shared>>
  BY DEF MoveToReal, TableKept
<1>2. CASE /\ path["tmp"] # Nothing /\ At(s, "move", "idle")
           /\ path' = Rename("tmp", "fn") /\ stranded' = FALSE
  <2>1. /\ pc[s] = "move" /\ pc'[s] = "idle" /\ pc' \in [Savers -> SaverPlaces]
        /\ \A t \in Savers : t # s => pc'[t] = pc[t]
    BY <1>2, StepsTo, Zenon DEF SaverPlaces
  <2>2. /\ path' \in [Paths -> 0 .. files] /\ OneName'
        /\ path'["fn"] = path["tmp"] /\ path'["tmp"] = Nothing /\ path'["bak"] = path["bak"]
    BY <1>2, Renamed DEF Paths
  <2>3. PersistTypes'
    BY <1>1, <1>2, <2>1, <2>2 DEF PersistTypes
  <2>4. ~shared => data[path["tmp"]] = [saved |-> snap[s], whole |-> TRUE]
    BY <2>1 DEF TmpKnown, Written
  <2>5. NotCreated' /\ NeverTorn'
    BY <1>1, <2>2, <2>4 DEF NotCreated, NeverTorn, Paths
  <2>6. OneSaver' /\ TmpKnown'
    BY <1>1, <2>1, OthersIdle DEF OneSaver, TmpKnown, Written
  <2>7. NamesByPlace' /\ KeepsOne'
    BY <1>1, <1>2, <2>1, <2>2, OthersIdle DEF NamesByPlace, KeepsOne
  <2>8. CleanIsSnap' /\ CleanIsSaved'
    BY <1>1, <1>2, <2>1, <2>2, <2>4 DEF CleanIsSnap, CleanIsSaved, Savers
  <2> QED BY <2>2, <2>3, <2>5, <2>6, <2>7, <2>8
<1>3. CASE At(s, "move", "restore") /\ UNCHANGED <<path, stranded>>
  <2>1. /\ pc[s] = "move" /\ pc'[s] = "restore" /\ pc' \in [Savers -> SaverPlaces]
        /\ \A t \in Savers : t # s => pc'[t] = pc[t]
    BY <1>3, StepsTo, Zenon DEF SaverPlaces
  <2>2. PersistTypes'
    BY <1>1, <1>3, <2>1 DEF PersistTypes
  <2>3. OneName' /\ NotCreated' /\ NeverTorn'
    BY <1>1, <1>3 DEF OneName, NotCreated, NeverTorn
  <2>4. OneSaver' /\ TmpKnown'
    BY <1>1, <1>3, <2>1, OthersIdle DEF OneSaver, TmpKnown, Written
  <2>5. NamesByPlace' /\ KeepsOne'
    BY <1>1, <1>3, <2>1, OthersIdle DEF NamesByPlace, KeepsOne
  <2>6. CleanIsSnap' /\ CleanIsSaved'
    BY <1>1, <1>3, <2>1 DEF CleanIsSnap, CleanIsSaved, Savers
  <2> QED BY <2>2, <2>3, <2>4, <2>5, <2>6
<1> QED BY <1>2, <1>3 DEF MoveToReal

LEMMA SaveInvRestore ==
  ASSUME SaveInv, NEW s \in Savers, Restore(s)
  PROVE  SaveInv'
<1> USE DEF SaveInv
<1>1. UNCHANGED <<version, edits, crashes, loaded, userSaved, snap, handle, data, files, shared>>
  BY DEF Restore, TableKept
<1>2. /\ pc[s] = "restore" /\ pc'[s] = "idle" /\ pc' \in [Savers -> SaverPlaces]
      /\ \A t \in Savers : t # s => pc'[t] = pc[t]
  BY StepsTo, Zenon DEF Restore, SaverPlaces
<1>3. /\ path' \in [Paths -> 0 .. files] /\ OneName' /\ path'["tmp"] = path["tmp"]
      /\ \/ path' = path
         \/ path["bak"] # Nothing /\ path'["fn"] = path["bak"] /\ path'["bak"] = Nothing
  BY TriedRename DEF Restore, Paths
<1>5. stranded' \in BOOLEAN /\ (stranded => stranded')
       /\ (~stranded' /\ path' = path => path["bak"] = Nothing)
  BY DEF Restore, PersistTypes
<1>4. dirty' \in BOOLEAN /\ (userSaved' \/ (s = "dispatch" /\ dirty'))
  BY <1>1, <1>2, Failed DEF Restore
<1>6. PersistTypes'
  BY <1>1, <1>2, <1>3, <1>4, <1>5 DEF PersistTypes
<1>7. NotCreated' /\ NeverTorn'
  BY <1>1, <1>3 DEF NotCreated, NeverTorn, Paths, Nothing
<1>8. OneSaver' /\ TmpKnown'
  BY <1>1, <1>2, OthersIdle DEF OneSaver, TmpKnown, Written
<1>9. NamesByPlace' /\ KeepsOne'
  BY <1>1, <1>2, <1>3, <1>5, OthersIdle DEF NamesByPlace, KeepsOne
<1>10. CleanIsSnap' /\ CleanIsSaved'
  BY <1>1, <1>2, <1>3, <1>4 DEF CleanIsSnap, CleanIsSaved, Savers
<1> QED BY <1>3, <1>6, <1>7, <1>8, <1>9, <1>10

LEMMA SaveInvStep == SaveInv /\ [PersistNext]_persistVars => SaveInv'
<1> SUFFICES ASSUME SaveInv, [PersistNext]_persistVars PROVE SaveInv'
  OBVIOUS
<1>1. CASE UNCHANGED persistVars
  BY <1>1 DEF persistVars, savers, disk, SaveInv, PersistTypes, OneName, NotCreated, OneSaver,
     TmpKnown, NeverTorn, NamesByPlace, KeepsOne, CleanIsSnap, CleanIsSaved
<1>2. CASE ChangeTable \/ SaveElsewhere \/ Crash
  BY <1>2, SaveInvChange, SaveInvElsewhere, SaveInvCrash
<1>3. ASSUME NEW s \in Savers, Saving(s) PROVE SaveInv'
  BY <1>3, SaveInvSnapshot, SaveInvOpen, SaveInvWrite, SaveInvRemove, SaveInvBackUp,
     SaveInvMove, SaveInvRestore DEF Saving
<1> QED BY <1>1, <1>2, <1>3 DEF PersistNext

(***************************************************************************)
(* At whatever call the process dies, and whatever call fails: no name but *)
(* the temporary one has a half-written table, a complete one is on the    *)
(* disk until the first crash or the first restore that fails, and a table *)
(* that is not dirty is there.                                             *)
(***************************************************************************)
THEOREM PersistentFileSafe == PersistSpec => []SaveSafe
<1>1. PersistSpec => []SaveInv
  BY SaveInvInit, SaveInvStep, PTL DEF PersistSpec
<1> QED BY <1>1, SaveInvSafe, PTL

(***************************************************************************)
(* The driver station's override, for any number of threads, calls,        *)
(* messages and addresses.                                                 *)
(*                                                                         *)
(* The thread that can be stopped is the only active one, and an active    *)
(* thread is never on its way out; threads that were not started are new.  *)
(* With that, an override has always a thread that will take it back.      *)
(***************************************************************************)

DsPlaces == {"none", "wait", "connect", "read", "set", "clear", "done", "gone"}

DsRecord == [pc : DsPlaces, active : BOOLEAN,
             stream : {"none", "open", "closed"}, oldip : Addresses]

DsTypes ==
  /\ running \in BOOLEAN /\ client \in BOOLEAN /\ enabled \in BOOLEAN /\ servers \in BOOLEAN
  /\ node \in {"off", "client", "server"} /\ override \in Addresses
  /\ dsStarted \in 0 .. MaxDsThreads /\ dsOwner \in 0 .. dsStarted
  /\ ds \in [DsThreads -> DsRecord]

\* The stream is there while messages are worked on.
HasStream == \A t \in DsThreads : ds[t].pc \in {"read", "set", "clear"} => ds[t].stream # "none"

NotStarted == \A t \in DsThreads : t > dsStarted => ds[t] = NewDs

OwnerActive ==
  \A t \in DsThreads :
    /\ ds[t].active <=> t = dsOwner
    /\ ds[t].active => ds[t].pc \notin {"none", "done", "gone"}

HasTaker == override # 0 => \E t \in DsThreads : Alive(t)

\* What the first thread knows, as long as it is the only one.
FirstKnows ==
  \A t \in DsThreads : dsStarted = 1 /\ t = 1 =>
    /\ ds[t].pc \in {"wait", "connect"} => override = 0 /\ ds[t].oldip = 0
    /\ ds[t].pc = "read" => override = ds[t].oldip

DsInv ==
  DsTypes /\ HasStream /\ NotStarted /\ OwnerActive /\ HasTaker /\ FirstKnows /\ OnlyIfEnabled

LEMMA DsInvInit == DsInit => DsInv
<1> SUFFICES ASSUME DsInit PROVE DsInv
  OBVIOUS
<1>1. \A t \in DsThreads : ds[t] = NewDs
  BY DEF DsInit
<1>2. DsTypes
  <2>1. NewDs \in DsRecord
    BY DsAssumption DEF NewDs, DsRecord, DsPlaces
  <2>2. running \in BOOLEAN /\ client \in BOOLEAN /\ enabled \in BOOLEAN /\ servers \in BOOLEAN
    BY Zenon DEF DsInit
  <2>3. ds \in [DsThreads -> DsRecord]
    BY <2>1, Zenon DEF DsInit
  <2>4. node \in {"off", "client", "server"} /\ override \in Addresses
    BY DsAssumption, Zenon DEF DsInit
  <2>5. dsStarted \in 0 .. MaxDsThreads /\ dsOwner \in 0 .. dsStarted
    BY DsAssumption DEF DsInit
  <2> QED BY <2>2, <2>3, <2>4, <2>5 DEF DsTypes
<1>3. HasStream /\ NotStarted /\ FirstKnows /\ OnlyIfEnabled /\ HasTaker
  BY <1>1 DEF DsInit, HasStream, NotStarted, FirstKnows, OnlyIfEnabled, HasTaker, NewDs
<1>4. OwnerActive
  BY <1>1 DEF DsInit, OwnerActive, NewDs, DsThreads
<1> QED BY <1>2, <1>3, <1>4 DEF DsInv

LEMMA DsInvSound == DsInv => OverrideSound
<1> SUFFICES ASSUME DsInv PROVE OverrideSound
  OBVIOUS
<1>1. DsTypeOK
  BY DEF DsInv, DsTypes, DsRecord, HasStream, DsTypeOK, DsPlaces
<1>2. OneInCharge
  BY DEF DsInv, OwnerActive, OneInCharge
<1>3. OverrideEnds
  BY DEF DsInv, HasTaker, OverrideEnds
<1>4. OverrideIsCurrent
  BY DsAssumption DEF DsInv, DsTypes, FirstKnows, NotStarted, OverrideIsCurrent, DsThreads, NewDs
<1>5. OnlyIfEnabled
  BY DEF DsInv
<1> QED BY <1>1, <1>2, <1>3, <1>4, <1>5 DEF OverrideSound

(***************************************************************************)
(* Starting and stopping the thread.                                       *)
(***************************************************************************)
DsKept == /\ UNCHANGED override
          /\ running' \in BOOLEAN /\ client' \in BOOLEAN /\ enabled' \in BOOLEAN
          /\ servers' \in BOOLEAN /\ node' \in {"off", "client", "server"}

LEMMA DsInvStart ==
  ASSUME DsInv, DsKept, CanStart, NEW wanted \in BOOLEAN, StartDsIf(wanted),
         dsOwner # 0 \/ wanted => enabled'
  PROVE  DsInv'
<1> USE DsAssumption DEF DsKept, DsInv
<1>1. CASE ~wanted \/ dsOwner # 0
  <2>1. UNCHANGED <<dsOwner, dsStarted, ds, override>>
    BY <1>1 DEF StartDsIf
  <2> QED BY <1>1, <2>1 DEF DsTypes, HasStream, NotStarted, OwnerActive, HasTaker, FirstKnows,
                       OnlyIfEnabled, Alive, DsThreads
<1>2. CASE wanted /\ dsOwner = 0
  <2> DEFINE new == dsStarted + 1
  <2>1. /\ new \in DsThreads /\ dsStarted' = new /\ dsOwner' = new
        /\ ds' = [ds EXCEPT ![new] = [NewDs EXCEPT !.pc = "wait", !.active = TRUE]]
    BY <1>2 DEF StartDsIf, CanStart, DsTypes, DsThreads
  <2>2. ds'[new] = [pc |-> "wait", active |-> TRUE, stream |-> "none", oldip |-> 0]
    BY <2>1 DEF DsTypes, NewDs
  <2>3. \A t \in DsThreads : t # new => ds'[t] = ds[t]
    BY <2>1 DEF DsTypes, DsRecord
  <2>4. DsTypes'
    <3>0. ds'[new] \in DsRecord
      BY <2>2 DEF DsRecord, DsPlaces
    <3>1. ds' \in [DsThreads -> DsRecord]
      BY <2>1, <3>0, <2>3 DEF DsTypes, DsRecord
    <3>2. dsStarted' \in 0 .. MaxDsThreads /\ dsOwner' \in 0 .. dsStarted'
      BY <2>1 DEF DsThreads, DsTypes
    <3> QED BY <3>1, <3>2 DEF DsTypes, DsRecord
  <2>5. HasStream' /\ NotStarted' /\ OwnerActive'
    BY <1>2, <2>1, <2>2, <2>3 DEF HasStream, NotStarted, OwnerActive, DsTypes, DsThreads
  <2>6. HasTaker'
    BY <2>1, <2>2 DEF HasTaker, Alive
  <2>7. FirstKnows'
    <3>1. ASSUME new = 1 PROVE override' = 0
      <4>1. \A t \in DsThreads : ds[t] = NewDs
        BY <3>1 DEF NotStarted, DsTypes, DsThreads
      <4> QED BY <4>1 DEF HasTaker, Alive, NewDs
    <3>2. ASSUME dsStarted' = 1
          PROVE  override' = 0 /\ ds'[1].pc = "wait" /\ ds'[1].oldip = 0
      <4>1. new = 1
        BY <2>1, <3>2
      <4>2. ds'[1].pc = "wait" /\ ds'[1].oldip = 0
        BY <2>2, <4>1
      <4> QED BY <3>1, <4>1, <4>2
    <3> QED BY <3>2, Zenon DEF FirstKnows
  <2>8. OnlyIfEnabled'
    BY <1>2 DEF OnlyIfEnabled
  <2> QED BY <2>4, <2>5, <2>6, <2>7, <2>8
<1> QED BY <1>1, <1>2

LEMMA DsInvStop ==
  ASSUME DsInv, DsKept, StopDs
  PROVE  DsInv'
<1> USE DsAssumption DEF DsKept, DsInv
<1>1. CASE dsOwner = 0
  <2>1. UNCHANGED <<dsOwner, dsStarted, ds, override>>
    BY <1>1 DEF StopDs
  <2> QED BY <1>1, <2>1 DEF DsTypes, HasStream, NotStarted, OwnerActive, HasTaker, FirstKnows,
                       OnlyIfEnabled, Alive, DsThreads
<1>2. CASE dsOwner # 0
  <2> DEFINE me == ds[dsOwner]
             stopped == [me EXCEPT !.active = FALSE,
                                   !.stream = IF me.stream = "open" THEN "closed" ELSE me.stream]
  <2>0. dsOwner \in DsThreads
    BY <1>2 DEF DsTypes, DsThreads
  <2>1. /\ dsOwner' = 0 /\ dsStarted' = dsStarted
        /\ ds' = [ds EXCEPT ![dsOwner] = stopped]
    BY <1>2, <2>0, Zenon DEF StopDs, DsTypes
  <2>2. /\ \A t \in DsThreads : t # dsOwner => ds'[t] = ds[t]
        /\ ds'[dsOwner].pc = me.pc /\ ds'[dsOwner].oldip = me.oldip
        /\ ds'[dsOwner].active = FALSE
        /\ ds'[dsOwner].stream = IF me.stream = "open" THEN "closed" ELSE me.stream
    BY <2>0, <2>1 DEF DsTypes, DsRecord
  <2>3. DsTypes'
    <3>1. stopped \in DsRecord
      BY <2>0 DEF DsTypes, DsRecord
    <3> HIDE DEF stopped
    <3> QED BY <2>0, <2>1, <3>1 DEF DsTypes, DsRecord
  <2>4. HasStream' /\ NotStarted' /\ OwnerActive'
    BY <2>0, <2>1, <2>2 DEF HasStream, NotStarted, OwnerActive, DsTypes, DsThreads
  <2>5. HasTaker' /\ FirstKnows' /\ OnlyIfEnabled'
    BY <2>0, <2>1, <2>2 DEF HasTaker, FirstKnows, OnlyIfEnabled, Alive, DsThreads
  <2> QED BY <2>3, <2>4, <2>5
<1> QED BY <1>1, <1>2

(***************************************************************************)
(* A step of a thread: all that matters is where it was, where it goes,    *)
(* and what becomes of its address and the override.                       *)
(***************************************************************************)
LEMMA DsInvThread ==
  ASSUME DsInv, NEW t \in DsThreads, DsThread(t)
  PROVE  DsInv'
<1> USE DsAssumption DEF DsInv
<1> DEFINE Moves(new) ==
      /\ DsBecomes(t, new) /\ ds[t].pc \notin {"none", "gone"}
      /\ new \in DsRecord /\ new.active = ds[t].active /\ new.pc # "none"
      /\ new.pc \in {"read", "set", "clear"} => new.stream # "none"
      /\ new.pc \in {"done", "gone"} => ~new.active
      /\ override' \in Addresses
      /\ new.pc = "gone" => override' = 0
      /\ t = 1 /\ dsStarted = 1 =>
           /\ new.pc \in {"wait", "connect"} => override' = 0 /\ new.oldip = 0
           /\ new.pc = "read" => override' = new.oldip
<1>1. ASSUME NEW new, Moves(new) PROVE DsInv'
  <2>1. /\ ds' = [ds EXCEPT ![t] = new] /\ t <= dsStarted
        /\ UNCHANGED <<running, client, enabled, node, servers, dsOwner, dsStarted>>
    BY <1>1 DEF DsBecomes, statics, NotStarted, NewDs, DsTypes, DsThreads
  <2>2. ds'[t] = new /\ \A u \in DsThreads : u # t => ds'[u] = ds[u]
    BY <2>1 DEF DsTypes, DsRecord
  <2>3. DsTypes'
    <3>1. new \in DsRecord
      BY <1>1
    <3> QED BY <1>1, <2>1, <3>1 DEF DsTypes
  <2>4. HasStream' /\ OwnerActive'
    BY <1>1, <2>1, <2>2 DEF HasStream, OwnerActive
  <2>5. NotStarted'
    BY <1>1, <2>1, <2>2 DEF NotStarted, DsTypes, DsThreads
  <2>6. HasTaker'
    BY <1>1, <2>1, <2>2 DEF HasTaker, Alive
  <2>7. FirstKnows'
    BY <1>1, <2>1, <2>2 DEF FirstKnows, DsTypes, DsThreads
  <2>8. OnlyIfEnabled'
    BY <2>1 DEF OnlyIfEnabled
  <2> QED BY <2>3, <2>4, <2>5, <2>6, <2>7, <2>8
<1>0. ds[t] \in DsRecord
  BY DEF DsTypes
<1> USE DEF DsTypes, DsRecord, DsPlaces
<1>2. ASSUME WaitsDs(t) PROVE DsInv'
  <2> DEFINE new == [ds[t] EXCEPT !.pc = IF ds[t].active THEN "connect" ELSE "done"]
  <2>1. Moves(new)
    BY <1>2 DEF WaitsDs, FirstKnows, OwnerActive
  <2> QED BY <2>1, <1>1
<1>3. ASSUME ConnectsDs(t) PROVE DsInv'
  <2>1. PICK stream \in {"open", "none"} :
          DsBecomes(t, [ds[t] EXCEPT
            !.stream = stream,
            !.pc = IF ~ds[t].active THEN "done" ELSE IF stream = "none" THEN "wait" ELSE "read"])
    BY <1>3 DEF ConnectsDs
  <2> DEFINE new == [ds[t] EXCEPT
            !.stream = stream,
            !.pc = IF ~ds[t].active THEN "done" ELSE IF stream = "none" THEN "wait" ELSE "read"]
  <2>2. t = 1 /\ dsStarted = 1 => override = 0 /\ ds[t].oldip = 0 /\ override' = override
    BY <1>3 DEF ConnectsDs, FirstKnows
  <2>3. /\ new.pc = IF ~ds[t].active THEN "done" ELSE IF stream = "none" THEN "wait" ELSE "read"
        /\ new.active = ds[t].active /\ new.stream = stream /\ new.oldip = ds[t].oldip
    BY <1>0
  <2>4. DsBecomes(t, new)
    BY <2>1
  <2>5. new \in DsRecord
    BY <1>0
  <2> HIDE DEF new
  <2>6. Moves(new)
    BY <1>3, <2>2, <2>3, <2>4, <2>5 DEF ConnectsDs
  <2> QED BY <2>6, <1>1
<1>4. ASSUME ReadsDs(t) PROVE DsInv'
  <2>1. PICK ip \in Addresses :
          DsBecomes(t,
            IF ~ds[t].active THEN [ds[t] EXCEPT !.pc = "done"]
            ELSE IF ip = 0 THEN [ds[t] EXCEPT !.pc = "clear"]
            ELSE IF ip = ds[t].oldip THEN ds[t]
            ELSE [ds[t] EXCEPT !.pc = "set", !.oldip = ip])
    BY <1>4 DEF ReadsDs
  <2> DEFINE new == IF ~ds[t].active THEN [ds[t] EXCEPT !.pc = "done"]
                    ELSE IF ip = 0 THEN [ds[t] EXCEPT !.pc = "clear"]
                    ELSE IF ip = ds[t].oldip THEN ds[t]
                    ELSE [ds[t] EXCEPT !.pc = "set", !.oldip = ip]
  <2>2. Moves(new)
    BY ZenonT(40), <1>4, <2>1 DEF ReadsDs, FirstKnows, OwnerActive, HasStream
  <2> QED BY <2>2, <1>1
<1>5. ASSUME SetsOverride(t) PROVE DsInv'
  <2> DEFINE new == [ds[t] EXCEPT !.pc = "read"]
  <2>1. Moves(new)
    BY <1>5 DEF SetsOverride, OwnerActive, HasStream
  <2> QED BY <2>1, <1>1
<1>6. ASSUME ClearsOverride(t) PROVE DsInv'
  <2> DEFINE new == [ds[t] EXCEPT !.pc = "read", !.oldip = 0]
  <2>1. /\ new.pc = "read" /\ new.active = ds[t].active
        /\ new.stream = ds[t].stream /\ new.oldip = 0
    BY <1>0
  <2>2. DsBecomes(t, new)
    BY <1>6 DEF ClearsOverride
  <2>3. new \in DsRecord
    BY <1>0
  <2> HIDE DEF new
  <2>4. Moves(new)
    BY <1>6, <2>1, <2>2, <2>3 DEF ClearsOverride, HasStream
  <2> QED BY <2>4, <1>1
<1>7. ASSUME ReadFails(t) PROVE DsInv'
  <2> DEFINE new == [ds[t] EXCEPT !.pc = IF ds[t].active THEN "wait" ELSE "done",
                                  !.stream = "none", !.oldip = 0]
  <2>1. /\ new.pc = (IF ds[t].active THEN "wait" ELSE "done") /\ new.active = ds[t].active
        /\ new.stream = "none" /\ new.oldip = 0
    BY <1>0
  <2>2. DsBecomes(t, new)
    BY <1>7 DEF ReadFails
  <2>3. new \in DsRecord
    BY <1>0
  <2> HIDE DEF new
  <2>4. Moves(new)
    BY <1>7, <2>1, <2>2, <2>3 DEF ReadFails
  <2> QED BY <2>4, <1>1
<1>8. ASSUME DoneDs(t) PROVE DsInv'
  <2> DEFINE new == [ds[t] EXCEPT !.pc = "gone"]
  <2>1. Moves(new)
    BY <1>8 DEF DoneDs, OwnerActive
  <2> QED BY <2>1, <1>1
<1> HIDE DEF DsTypes, DsRecord, DsPlaces
<1> QED BY <1>2, <1>3, <1>4, <1>5, <1>6, <1>7, <1>8 DEF DsThread

LEMMA DsInvStep == DsInv /\ [DsNext]_dsVars => DsInv'
<1> SUFFICES ASSUME DsInv, [DsNext]_dsVars PROVE DsInv'
  OBVIOUS
<1>1. CASE UNCHANGED dsVars
  BY <1>1 DEF dsVars, statics, DsInv, DsTypes, HasStream, NotStarted, OwnerActive, HasTaker,
              FirstKnows, OnlyIfEnabled, Alive
<1>2. ASSUME NEW b \in BOOLEAN, SetMode(b) PROVE DsInv'
  <2>1. DsKept /\ CanStart /\ StartDsIf(FALSE) /\ UNCHANGED <<enabled, dsOwner>>
    BY <1>2 DEF SetMode, Call, DsKept, DsInv, DsTypes, StartDsIf
  <2> QED BY <2>1, DsInvStart DEF DsInv, OnlyIfEnabled
<1>3. ASSUME NEW b \in BOOLEAN, SetIPAddress(b) PROVE DsInv'
  <2>1. DsKept /\ CanStart /\ UNCHANGED enabled
    BY <1>3 DEF SetIPAddress, Call, DsKept, DsInv, DsTypes
  <2>2. CASE b
    BY <1>3, <2>1, <2>2, DsInvStop DEF SetIPAddress
  <2>3. CASE ~b
    <3>1. StartDsIf(enabled) /\ enabled \in BOOLEAN
      BY <1>3, <2>3 DEF SetIPAddress, DsInv, DsTypes
    <3> QED BY <2>1, <3>1, DsInvStart DEF DsInv, OnlyIfEnabled
  <2> QED BY <2>2, <2>3
<1>4. ASSUME NEW b \in BOOLEAN, SetDSClientEnabled(b) PROVE DsInv'
  <2>1. DsKept /\ CanStart /\ enabled' = b
    BY <1>4 DEF SetDSClientEnabled, Call, DsKept, DsInv, DsTypes
  <2>2. CASE b
    BY <1>4, <2>1, <2>2, DsInvStart DEF SetDSClientEnabled
  <2>3. CASE ~b
    BY <1>4, <2>1, <2>3, DsInvStop DEF SetDSClientEnabled
  <2> QED BY <2>2, <2>3
<1>5. ASSUME Initialize PROVE DsInv'
  <2>1. /\ DsKept /\ CanStart /\ UNCHANGED enabled /\ StartDsIf(client /\ enabled)
        /\ (client /\ enabled) \in BOOLEAN
    BY <1>5 DEF Initialize, Call, DsKept, DsInv, DsTypes
  <2> QED BY <2>1, DsInvStart DEF DsInv, OnlyIfEnabled
<1>6. ASSUME Shutdown PROVE DsInv'
  <2>1. DsKept /\ CanStart /\ UNCHANGED enabled
    BY <1>6 DEF Shutdown, Call, DsKept, DsInv, DsTypes
  <2>2. CASE client
    BY <1>6, <2>1, <2>2, DsInvStop DEF Shutdown
  <2>3. CASE ~client
    <3>1. StartDsIf(FALSE) /\ UNCHANGED dsOwner
      BY <1>6, <2>3 DEF Shutdown, StartDsIf
    <3> QED BY <2>1, <3>1, DsInvStart DEF DsInv, OnlyIfEnabled
  <2> QED BY <2>2, <2>3
<1>7. ASSUME NEW t \in DsThreads, DsThread(t) PROVE DsInv'
  BY <1>7, DsInvThread
<1> QED BY <1>1, <1>2, <1>3, <1>4, <1>5, <1>6, <1>7 DEF DsNext

(***************************************************************************)
(* However the program's calls, the station's messages and the threads'    *)
(* steps fall, there is one thread in charge and only while it is wanted,  *)
(* and no override outlives the last thread.                               *)
(***************************************************************************)
THEOREM DsOverrideSound == DsSpec => []OverrideSound
<1>1. DsSpec => []DsInv
  BY DsInvInit, DsInvStep, PTL DEF DsSpec
<1> QED BY <1>1, DsInvSound, PTL

(***************************************************************************)
(* The descriptors, for any number of them and of streams.                 *)
(*                                                                         *)
(* That every open descriptor has somebody who will close it needs no      *)
(* more than what each thread has in hand.  That a stream's number stands  *)
(* for its own socket holds until threads meet on a stream: until then     *)
(* each number in use is known to exactly one thread or stream.            *)
(***************************************************************************)

Numbers == Fds \ {0}   \* what socket() and accept() can give out

CloserStates == [at : {"idle", "close", "forget"}, sd : Numbers \cup {Free}]

SocketParts ==
  /\ SocketsTypeOK
  /\ acc \in [lsd : Fds \cup {-1}, listening : BOOLEAN, shut : BOOLEAN]
  /\ connector \in [pc : {"idle", "connect", "select", "connected", "failed"}, sd : Numbers \cup {Free}]
  /\ connector.pc = "idle" <=> connector.sd = Free
  /\ taken \in Numbers \cup {Free}
  /\ server = "destroyed" => stopper = "done"
  /\ sd \in [Streams -> Numbers \cup {Free}]
  /\ reading \in [Streams -> Fds \cup {Free}]
  /\ closing \in [Streams -> [Closers -> CloserStates]]

\* The standard input is never closed, so no socket has its number.
ZeroTaken == fd[0] \in {Stdin, Null}

\* The streams made and about to be made.
Ahead == (IF server = "accepted" THEN 1 ELSE 0) + (IF connector.pc # "idle" THEN 1 ELSE 0)
EnoughStreams == made + Ahead <= MaxStreams

\* What holds of the streams' descriptors whoever closes what.
StreamsOwned ==
  /\ \A n \in Fds : fd[n] \in Streams => sd[fd[n]] = n
  /\ \A k \in Streams : k > made =>
       sd[k] = Free /\ reading[k] = Free /\ \A c \in Closers : closing[k][c].at = "idle"
  /\ \A k \in Streams, c \in Closers :
       /\ closing[k][c].at = "close" => closing[k][c].sd # Free /\ sd[k] \in {closing[k][c].sd, Free}
       /\ closing[k][c].at = "forget" => \A n \in Fds : fd[n] # k

\* And of the others.
OthersOwned ==
  /\ \A n \in Fds :
       /\ fd[n] = Connecting => connector.sd = n
       /\ fd[n] = Listener => acc.lsd = n /\ server \notin {"start", "destroyed"}
       /\ fd[n] = Accepted => taken = n

\* What holds of them until threads meet on one stream.
StreamsUnraced ==
  \A k \in Streams :
    /\ \A c, d \in Closers : closing[k][c].at # "idle" /\ closing[k][d].at # "idle" => c = d
    /\ reading[k] # Free => ~Closing(k) /\ reading[k] = sd[k]
    /\ \A c \in Closers : closing[k][c].at = "close" => closing[k][c].sd = sd[k]
    /\ sd[k] # Free /\ (\A c \in Closers : closing[k][c].at # "forget") => fd[sd[k]] = k

OthersUnraced ==
  /\ acc.lsd >= 0 /\ server # "destroyed" => fd[acc.lsd] \in {Listener, Null, Stdin}
  /\ connector.pc # "idle" => fd[connector.sd] = Connecting
  /\ server = "accepted" => fd[taken] = Accepted

Unraced == StreamsUnraced /\ OthersUnraced

SocketsInv ==
  SocketParts /\ ZeroTaken /\ EnoughStreams /\ StreamsOwned /\ OthersOwned /\ (~raced => Unraced)

LEMMA SocketsKnown ==
  ASSUME SocketsInv
  PROVE  /\ MaxFd \in Nat \ {0} /\ MaxStreams \in Nat /\ made \in Nat /\ made \in 0 .. MaxStreams
         /\ fd \in [Fds -> {Free, Listener, Null, Stdin, Connecting, Accepted} \cup (1 .. made)]
         /\ 0 \in Fds /\ Numbers \subseteq Fds /\ Free \notin Fds
         /\ acc.lsd \in Fds \cup {-1}
         /\ connector.sd \in Numbers \cup {Free} /\ (connector.pc = "idle" <=> connector.sd = Free)
         /\ taken \in Numbers \cup {Free} /\ (taken # Free <=> server = "accepted")
         /\ sd \in [Streams -> Numbers \cup {Free}]
         /\ reading \in [Streams -> Fds \cup {Free}]
         /\ closing \in [Streams -> [Closers -> CloserStates]]
<1>1. MaxFd \in Nat \ {0} /\ MaxStreams \in Nat
  BY SocketsAssumption
<1>2. 0 \in Fds /\ Numbers \subseteq Fds /\ Free \notin Fds
  BY <1>1 DEF Fds, Numbers, Free
<1>3. /\ made \in 0 .. MaxStreams
      /\ fd \in [Fds -> {Free, Listener, Null, Stdin, Connecting, Accepted} \cup (1 .. made)]
      /\ (taken # Free <=> server = "accepted")
  BY DEF SocketsInv, SocketParts, SocketsTypeOK
<1>4. /\ acc.lsd \in Fds \cup {-1}
      /\ connector.sd \in Numbers \cup {Free} /\ (connector.pc = "idle" <=> connector.sd = Free)
      /\ taken \in Numbers \cup {Free}
  BY DEF SocketsInv, SocketParts
<1>5. /\ sd \in [Streams -> Numbers \cup {Free}]
      /\ reading \in [Streams -> Fds \cup {Free}]
      /\ closing \in [Streams -> [Closers -> CloserStates]]
  BY DEF SocketsInv, SocketParts
<1> QED BY <1>1, <1>2, <1>3, <1>4, <1>5

\* What the system gives out was free, and is never the standard input.
LEMMA LowestIsFree ==
  ASSUME SocketsInv, NEW what, NEW n, Opens(what, n)
  PROVE  n \in Numbers /\ fd[n] = Free /\ fd' = [fd EXCEPT ![n] = what]
<1>1. Unused # {} /\ n = Lowest /\ fd' = [fd EXCEPT ![n] = what]
  BY DEF Opens
<1>2. Unused \subseteq Nat
  BY SocketsKnown DEF Unused, Fds
<1>3. \E m \in Unused : \A j \in Unused : m <= j
  <2>1. PICK m \in Unused : \A y \in Unused : ~ (<<y, m>> \in OpToRel(<, Nat))
    BY <1>1, <1>2, NatLessThanWellFounded, WFMin
  <2>2. \A y \in Unused : ~(y < m)
    BY <1>2, <2>1 DEF OpToRel
  <2> QED BY <1>2, <2>2
<1>4. n \in Unused
  BY <1>1, <1>3 DEF Lowest
<1>5. n # 0
  BY <1>4 DEF Unused, SocketsInv, ZeroTaken, Free, Stdin, Null
<1> QED BY <1>1, <1>4, <1>5 DEF Unused, Numbers

LEMMA AheadCounted ==
  ASSUME SocketsInv, ~StreamsUsedUp
  PROVE  made + Ahead + 1 <= MaxStreams
<1> DEFINE B == {b \in {"server", "connector"} :
                 IF b = "server" THEN server = "accepted" ELSE connector.pc # "idle"}
<1>1. made \in Nat /\ MaxStreams \in Nat
  BY SocketsKnown
<1>2. ~(Cardinality(B) + made >= MaxStreams)
  BY DEF StreamsUsedUp
<1>3. Cardinality(B) = Ahead
  <2>1. CASE server = "accepted" /\ connector.pc # "idle"
    <3>1. B = {"server", "connector"}
      BY <2>1
    <3>2. Cardinality({"server", "connector"}) = 2
      <4>1. {"server", "connector"} = {"server"} \cup {"connector"} /\ "connector" \notin {"server"}
        OBVIOUS
      <4>2. IsFiniteSet({"server"}) /\ Cardinality({"server"}) = 1
        BY FS_Singleton
      <4> QED BY <4>1, <4>2, FS_AddElement
    <3> QED BY <2>1, <3>1, <3>2 DEF Ahead
  <2>2. CASE server = "accepted" /\ connector.pc = "idle"
    <3>1. B = {"server"}
      BY <2>2
    <3> QED BY <2>2, <3>1, FS_Singleton DEF Ahead
  <2>3. CASE server # "accepted" /\ connector.pc # "idle"
    <3>1. B = {"connector"}
      BY <2>3
    <3> QED BY <2>3, <3>1, FS_Singleton DEF Ahead
  <2>4. CASE server # "accepted" /\ connector.pc = "idle"
    <3>1. B = {}
      BY <2>4
    <3> QED BY <2>4, <3>1, FS_EmptySet DEF Ahead
  <2> QED BY <2>1, <2>2, <2>3, <2>4
<1>4. Ahead \in Nat
  BY DEF Ahead
<1> HIDE DEF B
<1> QED BY <1>1, <1>2, <1>3, <1>4

\* Steps that open and close nothing and do not touch a stream.
LEMMA QuietSockets ==
  ASSUME SocketsInv, UNCHANGED <<fd, streams, taken>>,
         acc' \in [lsd : Fds \cup {-1}, listening : BOOLEAN, shut : BOOLEAN], acc'.lsd = acc.lsd,
         server' \in {"start", "loop", "accept", "blocked", "accepted", "over", "destroyed"},
         server' = "start" <=> server = "start", server' = "accepted" <=> server = "accepted",
         server' = "destroyed" <=> server = "destroyed",
         stopper' \in {"idle", "wake", "replace", "done"}, server' = "destroyed" => stopper' = "done",
         connector' \in [pc : {"idle", "connect", "select", "connected", "failed"}, sd : Numbers \cup {Free}],
         connector'.sd = connector.sd, connector'.pc = "idle" <=> connector.pc = "idle"
  PROVE  SocketsInv'
<1>1. UNCHANGED <<made, sd, reading, closing, raced>>
  BY DEF streams
<1>2. SocketsTypeOK'
  BY <1>1 DEF SocketsInv, SocketParts, SocketsTypeOK
<1>3. SocketParts'
  BY <1>1, <1>2 DEF SocketsInv, SocketParts
<1>4. ZeroTaken' /\ EnoughStreams'
  BY <1>1 DEF SocketsInv, ZeroTaken, EnoughStreams, Ahead
<1>5. StreamsOwned' /\ OthersOwned'
  <2>1. StreamsOwned'
    BY <1>1 DEF SocketsInv, StreamsOwned
  <2>2. OthersOwned'
    BY <1>1 DEF SocketsInv, OthersOwned
  <2> QED BY <2>1, <2>2
<1>6. ASSUME ~raced' PROVE Unraced'
  <2>1. StreamsUnraced /\ OthersUnraced
    BY <1>1, <1>6 DEF SocketsInv, Unraced
  <2>2. StreamsUnraced'
    BY <1>1, <2>1 DEF StreamsUnraced, Closing
  <2>3. OthersUnraced'
    BY <1>1, <2>1 DEF OthersUnraced
  <2> QED BY <2>2, <2>3 DEF Unraced
<1> QED BY <1>3, <1>4, <1>5, <1>6 DEF SocketsInv

Marks == {Free, Listener, Null, Stdin, Connecting, Accepted}

\* A descriptor comes to stand for something that is not a stream.
LEMMA MarkKeeps ==
  ASSUME SocketsInv, UNCHANGED streams, NEW n \in Fds, NEW what \in Marks, fd' = [fd EXCEPT ![n] = what]
  PROVE  /\ fd' \in [Fds -> Marks \cup (1 .. made)] /\ StreamsOwned'
         /\ \A m \in Fds : fd'[m] = IF m = n THEN what ELSE fd[m]
         /\ fd[n] \notin Streams /\ Unraced => StreamsUnraced'
<1>1. UNCHANGED <<made, sd, reading, closing, raced>>
  BY DEF streams
<1>2. fd \in [Fds -> Marks \cup (1 .. made)]
  BY SocketsKnown DEF Marks
<1>3. fd' \in [Fds -> Marks \cup (1 .. made)] /\ \A m \in Fds : fd'[m] = IF m = n THEN what ELSE fd[m]
  BY <1>2
<1>4. what \notin Streams
  BY SocketsKnown DEF Marks, Streams, Free, Listener, Null, Stdin, Connecting, Accepted
<1>5. StreamsOwned'
  BY <1>1, <1>3, <1>4 DEF SocketsInv, StreamsOwned
<1>6. ASSUME fd[n] \notin Streams, StreamsUnraced PROVE StreamsUnraced'
  <2>1. \A k \in Streams : sd[k] # Free => sd[k] \in Fds
    BY SocketsKnown
  <2> QED BY <1>1, <1>3, <1>6, <2>1 DEF StreamsUnraced, Closing
<1> QED BY <1>3, <1>5, <1>6 DEF Unraced

\* A stream is made of a descriptor, which is its own unless it was closed.
LEMMA StreamMade ==
  ASSUME SocketsInv, made < MaxStreams, NEW n \in Numbers, NEW what \in Marks, NewStream(n, what)
  PROVE  /\ made' = made + 1 /\ made' \in 0 .. MaxStreams
         /\ sd' \in [Streams -> Numbers \cup {Free}]
         /\ fd' \in [Fds -> Marks \cup (1 .. made')] /\ StreamsOwned'
         /\ \A m \in Fds : fd'[m] = IF m = n /\ fd[m] = what THEN made' ELSE fd[m]
         /\ UNCHANGED <<reading, closing, raced>>
         /\ fd[n] = what /\ Unraced => StreamsUnraced'
<1>1. PICK k : k = made + 1
  OBVIOUS
<1>2. /\ made' = k /\ sd' = [sd EXCEPT ![k] = n] /\ fd' = [fd EXCEPT ![n] = IF fd[n] = what THEN k ELSE fd[n]]
      /\ UNCHANGED <<reading, closing, raced>>
  BY <1>1 DEF NewStream
<1>3. made \in Nat /\ k \in Streams /\ k > made /\ MaxStreams \in Nat
  BY <1>1, SocketsKnown DEF Streams
<1>4. fd \in [Fds -> Marks \cup (1 .. made)] /\ Numbers \subseteq Fds
  BY SocketsKnown DEF Marks
<1>5. /\ fd' \in [Fds -> Marks \cup (1 .. k)]
      /\ \A m \in Fds : fd'[m] = IF m = n /\ fd[m] = what THEN k ELSE fd[m]
  BY <1>1, <1>2, <1>3, <1>4
<1>6. /\ sd' \in [Streams -> Numbers \cup {Free}]
      /\ sd'[k] = n /\ \A j \in Streams \ {k} : sd'[j] = sd[j]
  BY <1>2, <1>3, SocketsKnown
<1>7. \A m \in Fds : fd[m] # k
  BY <1>1, <1>3, <1>4 DEF Marks, Free, Listener, Null, Stdin, Connecting, Accepted
<1>8. \A c \in Closers : closing[k][c].at = "idle"
  BY <1>3 DEF SocketsInv, StreamsOwned
<1>9. reading[k] = Free /\ n # Free
  BY <1>3, SocketsKnown DEF SocketsInv, StreamsOwned
<1>10. StreamsOwned'
  <2>1. \A m \in Fds : fd'[m] \in Streams => sd'[fd'[m]] = m
    <3>1. \A m \in Fds : fd[m] \in Streams => sd[fd[m]] = m
      BY DEF SocketsInv, StreamsOwned
    <3> QED BY <1>4, <1>5, <1>6, <1>7, <3>1
  <2>2. \A j \in Streams : j > k =>
          sd'[j] = Free /\ reading'[j] = Free /\ \A c \in Closers : closing'[j][c].at = "idle"
    <3>1. \A j \in Streams : j > k => j > made /\ j # k
      BY <1>1, <1>3 DEF Streams
    <3> QED BY <1>2, <1>6, <3>1 DEF SocketsInv, StreamsOwned
  <2>3. \A j \in Streams, c \in Closers :
         /\ closing'[j][c].at = "close" => closing'[j][c].sd # Free /\ sd'[j] \in {closing'[j][c].sd, Free}
         /\ closing'[j][c].at = "forget" => \A m \in Fds : fd'[m] # j
    <3>1. \A j \in Streams, c \in Closers :
         /\ closing[j][c].at = "close" => closing[j][c].sd # Free /\ sd[j] \in {closing[j][c].sd, Free}
         /\ closing[j][c].at = "forget" => \A m \in Fds : fd[m] # j
      BY DEF SocketsInv, StreamsOwned
    <3> QED BY <1>2, <1>5, <1>6, <1>8, <3>1
  <2> QED BY <1>2, <2>1, <2>2, <2>3 DEF StreamsOwned
<1>11. ASSUME fd[n] = what, StreamsUnraced PROVE StreamsUnraced'
  <2>1. fd'[n] = k /\ what \notin Streams
    BY <1>4, <1>5, <1>11, SocketsKnown
       DEF Marks, Streams, Free, Listener, Null, Stdin, Connecting, Accepted
  <2>2. \A j \in Streams \ {k} : sd[j] # Free /\ fd[sd[j]] = j => fd'[sd'[j]] = j
    <3>1. \A j \in Streams : sd[j] # Free => sd[j] \in Fds
      BY SocketsKnown
    <3> QED BY <1>5, <1>6, <1>11, <2>1, <3>1
  <2>3. ASSUME NEW j \in Streams \ {k}
        PROVE /\ \A c, d \in Closers : closing'[j][c].at # "idle" /\ closing'[j][d].at # "idle" => c = d
              /\ reading'[j] # Free => ~Closing(j)' /\ reading'[j] = sd'[j]
              /\ \A c \in Closers : closing'[j][c].at = "close" => closing'[j][c].sd = sd'[j]
              /\ sd'[j] # Free /\ (\A c \in Closers : closing'[j][c].at # "forget") => fd'[sd'[j]] = j
    BY <1>2, <1>6, <1>11, <2>2 DEF StreamsUnraced, Closing
  <2>4. /\ \A c, d \in Closers : closing'[k][c].at # "idle" /\ closing'[k][d].at # "idle" => c = d
        /\ reading'[k] # Free => ~Closing(k)' /\ reading'[k] = sd'[k]
        /\ \A c \in Closers : closing'[k][c].at = "close" => closing'[k][c].sd = sd'[k]
        /\ sd'[k] # Free /\ (\A c \in Closers : closing'[k][c].at # "forget") => fd'[sd'[k]] = k
    BY <1>2, <1>6, <1>8, <1>9, <2>1
  <2> QED BY <2>3, <2>4 DEF StreamsUnraced, Closing
<1>12. k \in 0 .. MaxStreams
  BY <1>1, <1>3
<1> QED BY <1>1, <1>2, <1>5, <1>6, <1>10, <1>11, <1>12 DEF Unraced

\* start() finds no socket, or one that it keeps even when it cannot listen.
LEMMA StartAcceptorKeeps ==
  ASSUME SocketsInv, StartAcceptor
  PROVE  SocketsInv'
<1>1. /\ server = "start" /\ UNCHANGED <<taken, woken, stopper, connector, streams>>
      /\ UNCHANGED <<made, sd, reading, closing, raced>>
  BY DEF StartAcceptor, streams
<1>2. server' \in {"loop", "over"}
  BY DEF StartAcceptor
<1>3. EnoughStreams'
  BY <1>1, <1>2 DEF SocketsInv, EnoughStreams, Ahead
<1>4. CASE acc' = [acc EXCEPT !.lsd = -1] /\ UNCHANGED fd
  <2>1. acc' \in [lsd : Fds \cup {-1}, listening : BOOLEAN, shut : BOOLEAN] /\ acc'.lsd = -1
    BY <1>4 DEF SocketsInv, SocketParts
  <2>2. SocketsTypeOK'
    BY <1>1, <1>2, <1>4 DEF SocketsInv, SocketParts, SocketsTypeOK
  <2>3. SocketParts'
    BY <1>1, <1>2, <2>1, <2>2 DEF SocketsInv, SocketParts
  <2>4. ZeroTaken' /\ StreamsOwned'
    BY <1>1, <1>4 DEF SocketsInv, ZeroTaken, StreamsOwned
  <2>5. OthersOwned'
    BY <1>1, <1>4 DEF SocketsInv, OthersOwned
  <2>6. ASSUME ~raced' PROVE Unraced'
    <3>1. StreamsUnraced /\ OthersUnraced
      BY <1>1, <2>6 DEF SocketsInv, Unraced
    <3>2. StreamsUnraced'
      BY <1>1, <1>4, <3>1 DEF StreamsUnraced, Closing
    <3>3. OthersUnraced'
      BY <1>1, <1>2, <1>4, <2>1, <3>1 DEF OthersUnraced
    <3> QED BY <3>2, <3>3 DEF Unraced
  <2> QED BY <1>3, <2>3, <2>4, <2>5, <2>6 DEF SocketsInv
<1>5. CASE \E n \in Fds, ok \in BOOLEAN :
             /\ Opens(Listener, n)
             /\ acc' = [acc EXCEPT !.lsd = n, !.listening = ok]
  <2>1. PICK n \in Fds, ok \in BOOLEAN :
             /\ Opens(Listener, n)
             /\ acc' = [acc EXCEPT !.lsd = n, !.listening = ok]
    BY <1>5
  <2>2. n \in Numbers /\ fd[n] = Free /\ fd' = [fd EXCEPT ![n] = Listener]
    BY <2>1, LowestIsFree
  <2>3. acc' \in [lsd : Fds \cup {-1}, listening : BOOLEAN, shut : BOOLEAN] /\ acc'.lsd = n
    BY <2>1 DEF SocketsInv, SocketParts
  <2>4. Listener \in Marks /\ UNCHANGED streams
    BY <1>1 DEF Marks
  <2>5. /\ fd' \in [Fds -> Marks \cup (1 .. made)] /\ StreamsOwned'
        /\ \A m \in Fds : fd'[m] = IF m = n THEN Listener ELSE fd[m]
        /\ fd[n] \notin Streams /\ Unraced => StreamsUnraced'
    BY <2>1, <2>2, <2>4, MarkKeeps
  <2>6. SocketsTypeOK'
    BY <1>1, <1>2, <2>5 DEF SocketsInv, SocketParts, SocketsTypeOK, Marks
  <2>7. SocketParts'
    BY <1>1, <1>2, <2>3, <2>6 DEF SocketsInv, SocketParts
  <2>8. ZeroTaken'
    BY <2>2, <2>5, SocketsKnown DEF SocketsInv, ZeroTaken, Numbers
  <2>9. OthersOwned'
    BY <1>1, <1>2, <2>3, <2>5 DEF SocketsInv, OthersOwned, Listener, Connecting, Accepted
  <2>10. ASSUME ~raced' PROVE Unraced'
    <3>1. Unraced
      BY <1>1, <2>10 DEF SocketsInv
    <3>2. StreamsUnraced'
      <4>1. fd[n] \notin Streams
        BY <2>2, SocketsKnown DEF Free, Streams
      <4> QED BY <2>5, <3>1, <4>1
    <3>3. OthersUnraced'
      BY <1>1, <1>2, <2>2, <2>3, <2>5, <3>1, SocketsKnown
         DEF Unraced, OthersUnraced, Free, Connecting
    <3> QED BY <3>2, <3>3 DEF Unraced
  <2> QED BY <1>3, <2>5, <2>7, <2>8, <2>9, <2>10 DEF SocketsInv
<1> QED BY <1>4, <1>5 DEF StartAcceptor

\* A client's connection arrives, or the call ends with nothing.
LEMMA AcceptReturnsKeeps ==
  ASSUME SocketsInv, AcceptReturns
  PROVE  SocketsInv'
<1>1. /\ server = "blocked" /\ UNCHANGED <<acc, woken, stopper, connector, streams>>
      /\ UNCHANGED <<made, sd, reading, closing, raced>>
  BY DEF AcceptReturns, streams
<1>2. CASE server' = "over" /\ UNCHANGED <<fd, taken>>
  <2>1. acc' \in [lsd : Fds \cup {-1}, listening : BOOLEAN, shut : BOOLEAN]
    BY <1>1 DEF SocketsInv, SocketParts
  <2>2. connector' \in [pc : {"idle", "connect", "select", "connected", "failed"}, sd : Numbers \cup {Free}]
    BY <1>1 DEF SocketsInv, SocketParts
  <2>3. stopper' \in {"idle", "wake", "replace", "done"}
    BY <1>1 DEF SocketsInv, SocketParts, SocketsTypeOK
  <2> QED BY <1>1, <1>2, <2>1, <2>2, <2>3, QuietSockets
<1>3. CASE /\ fd[acc.lsd] = Listener /\ ~woken /\ ~StreamsUsedUp
           /\ \E n \in Fds : Opens(Accepted, n) /\ taken' = n
           /\ server' = "accepted"
  <2>1. PICK n \in Fds : Opens(Accepted, n) /\ taken' = n
    BY <1>3
  <2>2. n \in Numbers /\ fd[n] = Free /\ fd' = [fd EXCEPT ![n] = Accepted]
    BY <2>1, LowestIsFree
  <2>3. Accepted \in Marks /\ UNCHANGED streams
    BY <1>1 DEF Marks
  <2>4. /\ fd' \in [Fds -> Marks \cup (1 .. made)] /\ StreamsOwned'
        /\ \A m \in Fds : fd'[m] = IF m = n THEN Accepted ELSE fd[m]
        /\ fd[n] \notin Streams /\ Unraced => StreamsUnraced'
    BY <2>1, <2>2, <2>3, MarkKeeps
  <2>5. n # Free /\ n \in Fds
    BY <2>2, SocketsKnown
  <2>6. SocketsTypeOK'
    BY <1>1, <1>3, <2>1, <2>4, <2>5 DEF SocketsInv, SocketParts, SocketsTypeOK, Marks
  <2>7. SocketParts'
    BY <1>1, <1>3, <2>1, <2>2, <2>6 DEF SocketsInv, SocketParts
  <2>8. ZeroTaken'
    BY <2>2, <2>4, SocketsKnown DEF SocketsInv, ZeroTaken, Numbers
  <2>9. EnoughStreams'
    <3>1. made + Ahead + 1 <= MaxStreams
      BY <1>3, AheadCounted
    <3>2. Ahead' = Ahead + 1 /\ Ahead \in Nat
      BY <1>1, <1>3 DEF Ahead
    <3> QED BY <1>1, <3>1, <3>2, SocketsKnown DEF EnoughStreams
  <2>10. OthersOwned'
    BY <1>1, <1>3, <2>1, <2>4, SocketsKnown DEF SocketsInv, OthersOwned, Listener, Connecting, Accepted
  <2>11. ASSUME ~raced' PROVE Unraced'
    <3>1. Unraced
      BY <1>1, <2>11 DEF SocketsInv
    <3>2. StreamsUnraced'
      <4>1. fd[n] \notin Streams
        BY <2>2, SocketsKnown DEF Free, Streams
      <4> QED BY <2>4, <3>1, <4>1
    <3>3. OthersUnraced'
      BY <1>1, <1>3, <2>1, <2>2, <2>4, <3>1, SocketsKnown
         DEF Unraced, OthersUnraced, Free, Connecting, Listener, Null, Stdin
    <3> QED BY <3>2, <3>3 DEF Unraced
  <2> QED BY <2>4, <2>7, <2>8, <2>9, <2>10, <2>11 DEF SocketsInv
<1> QED BY <1>2, <1>3 DEF AcceptReturns

\* connect() gets a socket.
LEMMA ConnectBeginsKeeps ==
  ASSUME SocketsInv, ConnectBegins
  PROVE  SocketsInv'
<1>1. /\ connector.pc = "idle" /\ ~StreamsUsedUp /\ UNCHANGED <<acc, server, taken, woken, stopper, streams>>
      /\ UNCHANGED <<made, sd, reading, closing, raced>>
  BY DEF ConnectBegins, streams, acceptor
<1>2. PICK n \in Fds : Opens(Connecting, n) /\ connector' = [pc |-> "connect", sd |-> n]
  BY DEF ConnectBegins
<1>3. n \in Numbers /\ fd[n] = Free /\ fd' = [fd EXCEPT ![n] = Connecting]
  BY <1>2, LowestIsFree
<1>4. Connecting \in Marks
  BY DEF Marks
<1>5. /\ fd' \in [Fds -> Marks \cup (1 .. made)] /\ StreamsOwned'
      /\ \A m \in Fds : fd'[m] = IF m = n THEN Connecting ELSE fd[m]
      /\ fd[n] \notin Streams /\ Unraced => StreamsUnraced'
  BY <1>1, <1>2, <1>3, <1>4, MarkKeeps
<1>6. n # Free /\ n \in Fds
  BY <1>3, SocketsKnown
<1>7. /\ connector' \in [pc : {"idle", "connect", "select", "connected", "failed"}, sd : Numbers \cup {Free}]
      /\ connector'.pc = "connect" /\ connector'.sd = n
  BY <1>2, <1>3
<1>8. SocketsTypeOK'
  BY <1>1, <1>5, <1>7 DEF SocketsInv, SocketParts, SocketsTypeOK, Marks
<1>9. SocketParts'
  BY <1>1, <1>6, <1>7, <1>8 DEF SocketsInv, SocketParts
<1>10. ZeroTaken'
  BY <1>3, <1>5, SocketsKnown DEF SocketsInv, ZeroTaken, Numbers
<1>11. EnoughStreams'
  <2>1. made + Ahead + 1 <= MaxStreams
    BY <1>1, AheadCounted
  <2>2. Ahead' = Ahead + 1 /\ Ahead \in Nat
    BY <1>1, <1>7 DEF Ahead
  <2> QED BY <1>1, <2>1, <2>2, SocketsKnown DEF EnoughStreams
<1>12. OthersOwned'
  BY <1>1, <1>5, <1>7, SocketsKnown DEF SocketsInv, OthersOwned, Listener, Connecting, Accepted
<1>13. ASSUME ~raced' PROVE Unraced'
  <2>1. Unraced
    BY <1>1, <1>13 DEF SocketsInv
  <2>2. StreamsUnraced'
    <3>1. fd[n] \notin Streams
      BY <1>3, SocketsKnown DEF Free, Streams
    <3> QED BY <1>5, <2>1, <3>1
  <2>3. OthersUnraced'
    BY <1>1, <1>3, <1>5, <1>7, <2>1, SocketsKnown
       DEF Unraced, OthersUnraced, Free, Accepted, Listener, Null, Stdin
  <2> QED BY <2>2, <2>3 DEF Unraced
<1> QED BY <1>5, <1>9, <1>10, <1>11, <1>12, <1>13 DEF SocketsInv

\* A step that makes a stream of an accepted or a connected socket.
LEMMA MadeKeeps ==
  ASSUME SocketsInv, NEW n \in Numbers, NEW what \in {Accepted, Connecting}, NewStream(n, what),
         Ahead = Ahead' + 1, SocketParts', OthersOwned', ~raced => fd[n] = what /\ OthersUnraced'
  PROVE  SocketsInv'
<1>1. made < MaxStreams
  <2>1. Ahead' \in Nat
    BY DEF Ahead
  <2> QED BY <2>1, SocketsKnown DEF SocketsInv, EnoughStreams
<1>2. what \in Marks
  BY DEF Marks
<1>3. /\ made' = made + 1 /\ StreamsOwned'
      /\ \A m \in Fds : fd'[m] = IF m = n /\ fd[m] = what THEN made' ELSE fd[m]
      /\ UNCHANGED <<reading, closing, raced>>
      /\ fd[n] = what /\ Unraced => StreamsUnraced'
  BY <1>1, <1>2, StreamMade
<1>4. ZeroTaken'
  BY <1>3, SocketsKnown DEF SocketsInv, ZeroTaken, Numbers
<1>5. EnoughStreams'
  <2>1. Ahead' \in Nat
    BY DEF Ahead
  <2> QED BY <1>3, <2>1, SocketsKnown DEF SocketsInv, EnoughStreams
<1>6. ASSUME ~raced' PROVE Unraced'
  <2>1. Unraced /\ fd[n] = what /\ OthersUnraced'
    BY <1>3, <1>6 DEF SocketsInv
  <2> QED BY <1>3, <2>1 DEF Unraced
<1> QED BY <1>3, <1>4, <1>5, <1>6 DEF SocketsInv

\* A step that closes a socket of which no stream was made.
LEMMA FreedKeeps ==
  ASSUME SocketsInv, NEW n \in Numbers, fd' = [fd EXCEPT ![n] = Free], UNCHANGED streams,
         (Ahead = Ahead' \/ Ahead = Ahead' + 1), SocketParts', OthersOwned',
         ~raced => fd[n] \notin Streams /\ OthersUnraced'
  PROVE  SocketsInv'
<1>1. n \in Fds /\ Free \in Marks /\ n # 0
  BY SocketsKnown DEF Marks, Numbers
<1>2. /\ StreamsOwned'
      /\ \A m \in Fds : fd'[m] = IF m = n THEN Free ELSE fd[m]
      /\ fd[n] \notin Streams /\ Unraced => StreamsUnraced'
  BY <1>1, MarkKeeps
<1>3. ZeroTaken'
  BY <1>1, <1>2, SocketsKnown DEF SocketsInv, ZeroTaken
<1>4. EnoughStreams'
  <2>1. Ahead \in Nat /\ Ahead' \in Nat /\ made' = made
    BY DEF Ahead, streams
  <2>2. made + Ahead <= MaxStreams
    BY DEF SocketsInv, EnoughStreams
  <2>3. Ahead' <= Ahead
    <3>1. PICK a, b : a = Ahead /\ b = Ahead'
      OBVIOUS
    <3>2. a \in Nat /\ b \in Nat
      BY <2>1, <3>1
    <3>3. a = b \/ a = b + 1
      BY <3>1
    <3>4. b <= a
      BY <3>2, <3>3
    <3> QED BY <3>1, <3>4
  <2>4. made + Ahead' <= MaxStreams
    BY <2>1, <2>2, <2>3, SocketsKnown
  <2> QED BY <2>1, <2>4, SocketsKnown DEF EnoughStreams
<1>5. ASSUME ~raced' PROVE Unraced'
  <2>1. Unraced /\ fd[n] \notin Streams /\ OthersUnraced'
    BY <1>5 DEF SocketsInv, streams
  <2> QED BY <1>2, <2>1 DEF Unraced
<1> QED BY <1>2, <1>3, <1>4, <1>5 DEF SocketsInv

\* Back from ::accept with a socket, the server thread makes a stream of it, or
\* closes it when the acceptor has been shut down.
LEMMA AcceptsKeeps ==
  ASSUME SocketsInv, Accepts
  PROVE  SocketsInv'
<1>1. server = "accepted" /\ taken' = Free /\ UNCHANGED <<acc, woken, stopper, connector>>
  BY DEF Accepts
<1>2. taken \in Numbers /\ taken # Free
  BY <1>1, SocketsKnown
<1>3. PICK n : n = taken
  OBVIOUS
<1>4. server' \in {"over", "loop"}
  BY DEF Accepts
<1>5. Ahead = Ahead' + 1 /\ Ahead' \in Nat
  BY <1>1, <1>4 DEF Ahead
<1>6. /\ acc' \in [lsd : Fds \cup {-1}, listening : BOOLEAN, shut : BOOLEAN]
      /\ connector' \in [pc : {"idle", "connect", "select", "connected", "failed"}, sd : Numbers \cup {Free}]
      /\ connector'.pc = "idle" <=> connector'.sd = Free
      /\ taken' \in Numbers \cup {Free}
  BY <1>1 DEF SocketsInv, SocketParts
<1>7. CASE server' = "over" /\ fd' = [fd EXCEPT ![taken] = Free] /\ UNCHANGED streams
  <2>1. UNCHANGED <<made, sd, reading, closing, raced>>
    BY <1>7 DEF streams
  <2>2. /\ fd' \in [Fds -> Marks \cup (1 .. made)]
        /\ \A m \in Fds : fd'[m] = IF m = n THEN Free ELSE fd[m]
    <3>1. Free \in Marks /\ n \in Fds /\ fd' = [fd EXCEPT ![n] = Free]
      BY <1>2, <1>3, <1>7, SocketsKnown DEF Marks
    <3> QED BY <1>7, <3>1, MarkKeeps
  <2>3. SocketsTypeOK'
    BY <1>1, <1>7, <2>1, <2>2 DEF SocketsInv, SocketParts, SocketsTypeOK, Marks
  <2>4. SocketParts'
    BY <1>4, <1>6, <2>1, <2>3 DEF SocketsInv, SocketParts
  <2>5. OthersOwned'
    BY <1>1, <1>3, <1>7, <2>2, SocketsKnown
       DEF SocketsInv, OthersOwned, Free, Listener, Connecting, Accepted
  <2>6. ASSUME ~raced PROVE fd[n] \notin Streams /\ OthersUnraced'
    <3>1. OthersUnraced /\ fd[n] = Accepted
      BY <1>1, <1>3, <2>6 DEF SocketsInv, Unraced, OthersUnraced
    <3>2. fd[n] \notin Streams
      BY <3>1, SocketsKnown DEF Streams, Accepted
    <3> QED BY <1>1, <1>7, <2>2, <3>1, <3>2, SocketsKnown
            DEF OthersUnraced, Accepted, Listener, Null, Stdin, Connecting
  <2>7. n \in Numbers /\ fd' = [fd EXCEPT ![n] = Free] /\ (Ahead = Ahead' \/ Ahead = Ahead' + 1)
    BY <1>2, <1>3, <1>5, <1>7
  <2> QED BY <1>7, <2>4, <2>5, <2>6, <2>7, FreedKeeps
<1>8. CASE server' = "loop" /\ NewStream(taken, Accepted)
  <2>1. NewStream(n, Accepted) /\ n \in Numbers /\ Accepted \in Marks
    BY <1>2, <1>3, <1>8 DEF Marks
  <2>2. made < MaxStreams
    BY <1>5, SocketsKnown DEF SocketsInv, EnoughStreams
  <2>3. /\ made' = made + 1 /\ made' \in 0 .. MaxStreams
        /\ sd' \in [Streams -> Numbers \cup {Free}]
        /\ fd' \in [Fds -> Marks \cup (1 .. made')]
        /\ \A m \in Fds : fd'[m] = IF m = n /\ fd[m] = Accepted THEN made' ELSE fd[m]
        /\ UNCHANGED <<reading, closing, raced>>
    BY <2>1, <2>2, StreamMade
  <2>4. SocketsTypeOK'
    BY <1>1, <1>8, <2>3, SocketsKnown DEF SocketsInv, SocketParts, SocketsTypeOK, Marks
  <2>5. SocketParts'
    BY <1>4, <1>6, <2>3, <2>4 DEF SocketsInv, SocketParts
  <2>6. made' > 0
    BY <2>3, SocketsKnown
  <2>7. OthersOwned'
    BY <1>1, <1>3, <1>8, <2>3, <2>6, SocketsKnown
       DEF SocketsInv, OthersOwned, Free, Listener, Connecting, Accepted
  <2>8. ASSUME ~raced PROVE fd[n] = Accepted /\ OthersUnraced'
    <3>1. OthersUnraced /\ fd[n] = Accepted
      BY <1>1, <1>3, <2>8 DEF SocketsInv, Unraced, OthersUnraced
    <3> QED BY <1>1, <1>8, <2>3, <3>1, SocketsKnown
            DEF OthersUnraced, Accepted, Listener, Null, Stdin, Connecting
  <2> QED BY <1>5, <2>1, <2>5, <2>7, <2>8, MadeKeeps
<1> QED BY <1>7, <1>8 DEF Accepts

\* connect() makes a stream of its socket or closes it.
LEMMA ConnectEndsKeeps ==
  ASSUME SocketsInv, ConnectEnds
  PROVE  SocketsInv'
<1>1. /\ connector.pc # "idle" /\ connector' = [pc |-> "idle", sd |-> Free]
      /\ UNCHANGED <<acc, server, taken, woken, stopper>>
  BY DEF ConnectEnds, acceptor
<1>2. connector.sd \in Numbers /\ connector.sd # Free
  BY <1>1, SocketsKnown
<1>3. PICK n : n = connector.sd
  OBVIOUS
<1>4. connector'.pc = "idle" /\ connector'.sd = Free
  BY <1>1
<1>5. Ahead = Ahead' + 1 /\ Ahead' \in Nat
  BY <1>1, <1>4 DEF Ahead
<1>6. /\ acc' \in [lsd : Fds \cup {-1}, listening : BOOLEAN, shut : BOOLEAN]
      /\ connector' \in [pc : {"idle", "connect", "select", "connected", "failed"}, sd : Numbers \cup {Free}]
      /\ connector'.pc = "idle" <=> connector'.sd = Free
      /\ taken' \in Numbers \cup {Free}
  BY <1>1, <1>4 DEF SocketsInv, SocketParts
<1>7. CASE fd' = [fd EXCEPT ![connector.sd] = Free] /\ UNCHANGED streams
  <2>1. UNCHANGED <<made, sd, reading, closing, raced>>
    BY <1>7 DEF streams
  <2>2. /\ fd' \in [Fds -> Marks \cup (1 .. made)]
        /\ \A m \in Fds : fd'[m] = IF m = n THEN Free ELSE fd[m]
    <3>1. Free \in Marks /\ n \in Fds /\ fd' = [fd EXCEPT ![n] = Free]
      BY <1>2, <1>3, <1>7, SocketsKnown DEF Marks
    <3> QED BY <1>7, <3>1, MarkKeeps
  <2>3. SocketsTypeOK'
    BY <1>1, <1>4, <2>1, <2>2 DEF SocketsInv, SocketParts, SocketsTypeOK, Marks
  <2>4. SocketParts'
    BY <1>1, <1>6, <2>1, <2>3 DEF SocketsInv, SocketParts
  <2>5. OthersOwned'
    BY <1>1, <1>3, <2>2, SocketsKnown
       DEF SocketsInv, OthersOwned, Free, Listener, Connecting, Accepted
  <2>6. ASSUME ~raced PROVE fd[n] \notin Streams /\ OthersUnraced'
    <3>1. OthersUnraced /\ fd[n] = Connecting
      BY <1>1, <1>3, <2>6 DEF SocketsInv, Unraced, OthersUnraced
    <3>2. fd[n] \notin Streams
      BY <3>1, SocketsKnown DEF Streams, Connecting
    <3> QED BY <1>1, <1>4, <2>2, <3>1, <3>2, SocketsKnown
            DEF OthersUnraced, Accepted, Listener, Null, Stdin, Connecting
  <2>7. n \in Numbers /\ fd' = [fd EXCEPT ![n] = Free] /\ (Ahead = Ahead' \/ Ahead = Ahead' + 1)
    BY <1>2, <1>3, <1>5, <1>7
  <2> QED BY <1>7, <2>4, <2>5, <2>6, <2>7, FreedKeeps
<1>8. CASE NewStream(connector.sd, Connecting)
  <2>1. NewStream(n, Connecting) /\ n \in Numbers /\ Connecting \in Marks
    BY <1>2, <1>3, <1>8 DEF Marks
  <2>2. made < MaxStreams
    BY <1>5, SocketsKnown DEF SocketsInv, EnoughStreams
  <2>3. /\ made' = made + 1 /\ made' \in 0 .. MaxStreams
        /\ sd' \in [Streams -> Numbers \cup {Free}]
        /\ fd' \in [Fds -> Marks \cup (1 .. made')]
        /\ \A m \in Fds : fd'[m] = IF m = n /\ fd[m] = Connecting THEN made' ELSE fd[m]
        /\ UNCHANGED <<reading, closing, raced>>
    BY <2>1, <2>2, StreamMade
  <2>4. SocketsTypeOK'
    BY <1>1, <1>4, <2>3, SocketsKnown DEF SocketsInv, SocketParts, SocketsTypeOK, Marks
  <2>5. SocketParts'
    BY <1>1, <1>6, <2>3, <2>4 DEF SocketsInv, SocketParts
  <2>6. made' > 0
    BY <2>3, SocketsKnown
  <2>7. OthersOwned'
    BY <1>1, <1>3, <2>3, <2>6, SocketsKnown
       DEF SocketsInv, OthersOwned, Free, Listener, Connecting, Accepted
  <2>8. ASSUME ~raced PROVE fd[n] = Connecting /\ OthersUnraced'
    <3>1. OthersUnraced /\ fd[n] = Connecting
      BY <1>1, <1>3, <2>8 DEF SocketsInv, Unraced, OthersUnraced
    <3> QED BY <1>1, <1>4, <2>3, <3>1, SocketsKnown
            DEF OthersUnraced, Accepted, Listener, Null, Stdin, Connecting
  <2> QED BY <1>5, <2>1, <2>5, <2>7, <2>8, MadeKeeps
<1> QED BY <1>7, <1>8 DEF ConnectEnds

\* The listening descriptor becomes one of /dev/null.
LEMMA ReplaceKeeps ==
  ASSUME SocketsInv, Replace
  PROVE  SocketsInv'
<1>1. /\ stopper' = "done" /\ UNCHANGED <<acc, server, taken, woken, connector, streams>>
      /\ UNCHANGED <<made, sd, reading, closing, raced>>
  BY DEF Replace, streams
<1>2. /\ acc' \in [lsd : Fds \cup {-1}, listening : BOOLEAN, shut : BOOLEAN]
      /\ connector' \in [pc : {"idle", "connect", "select", "connected", "failed"}, sd : Numbers \cup {Free}]
  BY <1>1 DEF SocketsInv, SocketParts
<1>3. CASE ~(acc.lsd >= 0)
  <2>1. UNCHANGED fd
    BY <1>3 DEF Replace
  <2>2. server \in {"start", "loop", "accept", "blocked", "accepted", "over", "destroyed"}
    BY DEF SocketsInv, SocketParts, SocketsTypeOK
  <2> QED BY <1>1, <1>2, <2>1, <2>2, QuietSockets
<1>4. CASE acc.lsd >= 0
  <2>1. PICK n : n = acc.lsd
    OBVIOUS
  <2>2. n \in Fds /\ fd' = [fd EXCEPT ![n] = Null] /\ Null \in Marks
    BY <1>4, <2>1, SocketsKnown DEF Replace, Marks
  <2>3. /\ fd' \in [Fds -> Marks \cup (1 .. made)] /\ StreamsOwned'
        /\ \A m \in Fds : fd'[m] = IF m = n THEN Null ELSE fd[m]
        /\ fd[n] \notin Streams /\ Unraced => StreamsUnraced'
    BY <1>1, <2>2, MarkKeeps
  <2>4. SocketsTypeOK'
    BY <1>1, <2>3 DEF SocketsInv, SocketParts, SocketsTypeOK, Marks
  <2>5. SocketParts'
    BY <1>1, <1>2, <2>4 DEF SocketsInv, SocketParts
  <2>6. ZeroTaken'
    BY <2>3, SocketsKnown DEF SocketsInv, ZeroTaken
  <2>7. EnoughStreams'
    BY <1>1 DEF SocketsInv, EnoughStreams, Ahead
  <2>8. OthersOwned'
    BY <1>1, <2>3 DEF SocketsInv, OthersOwned, Null, Listener, Connecting, Accepted
  <2>9. ASSUME ~raced' PROVE Unraced'
    <3>1. Unraced
      BY <1>1, <2>9 DEF SocketsInv
    <3>2. server # "destroyed" => fd[n] \in {Listener, Null, Stdin}
      BY <1>4, <2>1, <3>1 DEF Unraced, OthersUnraced
    <3>3. server # "destroyed"
      BY DEF Replace, SocketsInv, SocketParts
    <3>4. fd[n] \notin Streams
      BY <3>2, <3>3, SocketsKnown DEF Streams, Listener, Null, Stdin
    <3>5. OthersUnraced'
      BY <1>1, <2>1, <2>3, <3>1, <3>2, <3>3, SocketsKnown
         DEF Unraced, OthersUnraced, Accepted, Connecting, Listener, Null, Stdin
    <3> QED BY <2>3, <3>1, <3>4, <3>5 DEF Unraced
  <2> QED BY <2>3, <2>5, <2>6, <2>7, <2>8, <2>9 DEF SocketsInv
<1> QED BY <1>3, <1>4

\* The acceptor closes its descriptor once the server thread was joined.
LEMMA DestroyAcceptorKeeps ==
  ASSUME SocketsInv, DestroyAcceptor
  PROVE  SocketsInv'
<1>1. /\ stopper = "done" /\ server = "over" /\ server' = "destroyed"
      /\ UNCHANGED <<acc, taken, woken, stopper, connector, streams>>
      /\ UNCHANGED <<made, sd, reading, closing, raced>>
  BY DEF DestroyAcceptor, streams
<1>2. /\ acc' \in [lsd : Fds \cup {-1}, listening : BOOLEAN, shut : BOOLEAN]
      /\ connector' \in [pc : {"idle", "connect", "select", "connected", "failed"}, sd : Numbers \cup {Free}]
  BY <1>1 DEF SocketsInv, SocketParts
<1>3. Ahead' = Ahead
  BY <1>1 DEF Ahead
<1>4. CASE ~(acc.lsd > 0)
  <2>1. UNCHANGED fd
    BY <1>4 DEF DestroyAcceptor
  <2>2. SocketsTypeOK'
    BY <1>1, <2>1 DEF SocketsInv, SocketParts, SocketsTypeOK
  <2>3. SocketParts'
    BY <1>1, <1>2, <2>2 DEF SocketsInv, SocketParts
  <2>4. ZeroTaken' /\ EnoughStreams'
    BY <1>1, <1>3, <2>1 DEF SocketsInv, ZeroTaken, EnoughStreams
  <2>5. StreamsOwned'
    BY <1>1, <2>1 DEF SocketsInv, StreamsOwned
  <2>6. OthersOwned'
    <3>1. \A n \in Fds : fd[n] # Listener
      <4> SUFFICES ASSUME NEW n \in Fds, fd[n] = Listener PROVE FALSE
        OBVIOUS
      <4>1. acc.lsd = n
        BY DEF SocketsInv, OthersOwned
      <4>2. n = 0
        BY <1>4, <4>1, SocketsKnown DEF Fds
      <4> QED BY <4>2 DEF SocketsInv, ZeroTaken, Stdin, Null, Listener
    <3> QED BY <1>1, <2>1, <3>1 DEF SocketsInv, OthersOwned
  <2>7. ASSUME ~raced' PROVE Unraced'
    <3>1. StreamsUnraced /\ OthersUnraced
      BY <1>1, <2>7 DEF SocketsInv, Unraced
    <3>2. StreamsUnraced'
      BY <1>1, <2>1, <3>1 DEF StreamsUnraced, Closing
    <3>3. OthersUnraced'
      BY <1>1, <2>1, <3>1 DEF OthersUnraced
    <3> QED BY <3>2, <3>3 DEF Unraced
  <2> QED BY <2>3, <2>4, <2>5, <2>6, <2>7 DEF SocketsInv
<1>5. CASE acc.lsd > 0
  <2>1. PICK n : n = acc.lsd
    OBVIOUS
  <2>2. n \in Fds /\ n \in Numbers /\ fd' = [fd EXCEPT ![n] = Free] /\ Free \in Marks
    BY <1>5, <2>1, SocketsKnown DEF DestroyAcceptor, Marks, Numbers, Fds
  <2>3. /\ fd' \in [Fds -> Marks \cup (1 .. made)]
        /\ \A m \in Fds : fd'[m] = IF m = n THEN Free ELSE fd[m]
    BY <1>1, <2>2, MarkKeeps
  <2>4. SocketsTypeOK'
    BY <1>1, <2>3 DEF SocketsInv, SocketParts, SocketsTypeOK, Marks
  <2>5. SocketParts'
    BY <1>1, <1>2, <2>4 DEF SocketsInv, SocketParts
  <2>6. OthersOwned'
    BY <1>1, <2>1, <2>3 DEF SocketsInv, OthersOwned, Free, Listener, Connecting, Accepted
  <2>7. ASSUME ~raced PROVE fd[n] \notin Streams /\ OthersUnraced'
    <3>1. OthersUnraced
      BY <2>7 DEF SocketsInv, Unraced
    <3>2. fd[n] \in {Listener, Null, Stdin}
      BY <1>1, <1>5, <2>1, <3>1, SocketsKnown DEF OthersUnraced, Fds
    <3>3. fd[n] \notin Streams
      BY <3>2, SocketsKnown DEF Streams, Listener, Null, Stdin
    <3> QED BY <1>1, <2>3, <3>1, <3>2, <3>3, SocketsKnown
            DEF OthersUnraced, Accepted, Listener, Null, Stdin, Connecting
  <2> QED BY <1>1, <1>3, <2>2, <2>5, <2>6, <2>7, FreedKeeps
<1> QED BY <1>4, <1>5

(***************************************************************************)
(* The threads of a stream.                                                *)
(***************************************************************************)

\* Everything but the streams' own parts, for a step of a stream's thread.
StreamOnly == UNCHANGED <<acceptor, connector, made>>

\* A step of a stream that changes no descriptor.
LEMMA StreamKeeps ==
  ASSUME SocketsInv, StreamOnly, UNCHANGED fd,
         sd' \in [Streams -> Numbers \cup {Free}], reading' \in [Streams -> Fds \cup {Free}],
         closing' \in [Streams -> [Closers -> CloserStates]],
         StreamsOwned', ~raced' => ~raced /\ StreamsUnraced'
  PROVE  SocketsInv'
<1>1. UNCHANGED <<acc, server, taken, woken, stopper, connector, made>>
  BY DEF StreamOnly, acceptor
<1>2. SocketsTypeOK'
  <2>1. \A k \in Streams : {sd'[k], reading'[k]} \subseteq Fds \cup {Free}
    BY SocketsKnown
  <2> QED BY <1>1, <2>1 DEF SocketsInv, SocketParts, SocketsTypeOK
<1>3. SocketParts'
  BY <1>1, <1>2 DEF SocketsInv, SocketParts
<1>4. ZeroTaken' /\ EnoughStreams'
  BY <1>1 DEF SocketsInv, ZeroTaken, EnoughStreams, Ahead
<1>5. OthersOwned'
  BY <1>1 DEF SocketsInv, OthersOwned
<1>6. ASSUME ~raced' PROVE Unraced'
  <2>1. OthersUnraced /\ StreamsUnraced'
    BY <1>6 DEF SocketsInv, Unraced
  <2>2. OthersUnraced'
    BY <1>1, <2>1 DEF OthersUnraced
  <2> QED BY <2>1, <2>2 DEF Unraced
<1> QED BY <1>3, <1>4, <1>5, <1>6 DEF SocketsInv

\* A read begins, with the number it finds.
LEMMA ReceiveKeeps ==
  ASSUME SocketsInv, NEW k \in Streams, Receive(k)
  PROVE  SocketsInv'
<1>1. /\ sd[k] # Free /\ reading' = [reading EXCEPT ![k] = sd[k]]
      /\ raced' = (raced \/ Closing(k))
      /\ UNCHANGED <<fd, made, sd, closing>> /\ StreamOnly
  BY DEF Receive, StreamOnly
<1>2. /\ reading' \in [Streams -> Fds \cup {Free}]
      /\ reading'[k] = sd[k] /\ \A j \in Streams \ {k} : reading'[j] = reading[j]
  BY <1>1, SocketsKnown
<1>3. StreamsOwned'
  <2>1. ~(k > made)
    BY <1>1 DEF SocketsInv, StreamsOwned
  <2> QED BY <1>1, <1>2, <2>1 DEF SocketsInv, StreamsOwned
<1>4. ASSUME ~raced' PROVE ~raced /\ StreamsUnraced'
  <2>1. ~raced /\ ~Closing(k)
    BY <1>1, <1>4
  <2>2. StreamsUnraced
    BY <2>1 DEF SocketsInv, Unraced
  <2>3. StreamsUnraced'
    BY <1>1, <1>2, <2>1, <2>2 DEF StreamsUnraced, Closing
  <2> QED BY <2>1, <2>3
<1>5. sd' \in [Streams -> Numbers \cup {Free}] /\ closing' \in [Streams -> [Closers -> CloserStates]]
  BY <1>1, SocketsKnown
<1> QED BY <1>1, <1>2, <1>3, <1>4, <1>5, StreamKeeps

LEMMA ReceivedKeeps ==
  ASSUME SocketsInv, NEW k \in Streams, Received(k)
  PROVE  SocketsInv'
<1>1. /\ reading' = [reading EXCEPT ![k] = Free]
      /\ UNCHANGED <<fd, made, sd, closing, raced>> /\ StreamOnly
  BY DEF Received, StreamOnly
<1>2. /\ reading' \in [Streams -> Fds \cup {Free}]
      /\ reading'[k] = Free /\ \A j \in Streams \ {k} : reading'[j] = reading[j]
  BY <1>1, SocketsKnown
<1>3. StreamsOwned'
  BY <1>1, <1>2 DEF SocketsInv, StreamsOwned
<1>4. ASSUME ~raced' PROVE ~raced /\ StreamsUnraced'
  <2>1. ~raced
    BY <1>1, <1>4
  <2>2. StreamsUnraced
    BY <2>1 DEF SocketsInv, Unraced
  <2>3. StreamsUnraced'
    BY <1>1, <1>2, <2>2 DEF StreamsUnraced, Closing
  <2> QED BY <2>1, <2>3
<1>5. sd' \in [Streams -> Numbers \cup {Free}] /\ closing' \in [Streams -> [Closers -> CloserStates]]
  BY <1>1, SocketsKnown
<1> QED BY <1>1, <1>2, <1>3, <1>4, <1>5, StreamKeeps

\* What a step of one closer of one stream does to all of them.
LEMMA CloserMoves ==
  ASSUME SocketsInv, NEW k \in Streams, NEW c \in Closers,
         NEW to \in CloserStates, closing' = [closing EXCEPT ![k][c] = to]
  PROVE  /\ closing' \in [Streams -> [Closers -> CloserStates]]
         /\ closing'[k][c] = to
         /\ \A j \in Streams, d \in Closers : j # k \/ d # c => closing'[j][d] = closing[j][d]
BY SocketsKnown

\* A thread begins to close a stream: it remembers the number it finds.
LEMMA CloseBeginsKeeps ==
  ASSUME SocketsInv, NEW k \in Streams, NEW c \in Closers, CloseBegins(k, c)
  PROVE  SocketsInv'
<1>1. /\ sd[k] # Free /\ closing' = [closing EXCEPT ![k][c] = [at |-> "close", sd |-> sd[k]]]
      /\ raced' = (raced \/ Closing(k) \/ reading[k] # Free)
      /\ UNCHANGED <<fd, made, sd, reading>> /\ StreamOnly
  BY DEF CloseBegins, StreamOnly
<1>2. PICK to : to = [at |-> "close", sd |-> sd[k]]
  OBVIOUS
<1>3. to \in CloserStates /\ to.at = "close" /\ to.sd = sd[k]
  BY <1>2, SocketsKnown DEF CloserStates
<1>4. /\ closing' \in [Streams -> [Closers -> CloserStates]]
      /\ closing'[k][c] = to
      /\ \A j \in Streams, d \in Closers : j # k \/ d # c => closing'[j][d] = closing[j][d]
  <2>1. closing' = [closing EXCEPT ![k][c] = to] /\ to \in CloserStates
    BY <1>1, <1>2, <1>3
  <2> QED BY ZenonT(40), <2>1, CloserMoves
<1>5. StreamsOwned'
  <2>1. ~(k > made)
    BY <1>1 DEF SocketsInv, StreamsOwned
  <2> QED BY <1>1, <1>3, <1>4, <2>1 DEF SocketsInv, StreamsOwned
<1>6. ASSUME ~raced' PROVE ~raced /\ StreamsUnraced'
  <2>1. ~raced /\ ~Closing(k) /\ reading[k] = Free
    BY <1>1, <1>6
  <2>2. StreamsUnraced
    BY <2>1 DEF SocketsInv, Unraced
  <2>3. \A d \in Closers : closing[k][d].at = "idle"
    BY <2>1 DEF Closing
  <2>4. ASSUME NEW j \in Streams \ {k}
        PROVE /\ \A d, e \in Closers : closing'[j][d].at # "idle" /\ closing'[j][e].at # "idle" => d = e
              /\ reading'[j] # Free => ~Closing(j)' /\ reading'[j] = sd'[j]
              /\ \A d \in Closers : closing'[j][d].at = "close" => closing'[j][d].sd = sd'[j]
              /\ sd'[j] # Free /\ (\A d \in Closers : closing'[j][d].at # "forget") => fd'[sd'[j]] = j
    BY <1>1, <1>4, <2>2 DEF StreamsUnraced, Closing
  <2>5. /\ \A d, e \in Closers : closing'[k][d].at # "idle" /\ closing'[k][e].at # "idle" => d = e
        /\ reading'[k] # Free => ~Closing(k)' /\ reading'[k] = sd'[k]
        /\ \A d \in Closers : closing'[k][d].at = "close" => closing'[k][d].sd = sd'[k]
        /\ sd'[k] # Free /\ (\A d \in Closers : closing'[k][d].at # "forget") => fd'[sd'[k]] = k
    <3>1. \A d \in Closers : d = c \/ (closing'[k][d].at = "idle")
      BY <1>4, <2>3
    <3>2. fd[sd[k]] = k
      BY <1>1, <2>2, <2>3 DEF StreamsUnraced
    <3> QED BY <1>1, <1>3, <1>4, <2>1, <3>1, <3>2
  <2> QED BY <2>1, <2>4, <2>5 DEF StreamsUnraced, Closing
<1>7. sd' \in [Streams -> Numbers \cup {Free}] /\ reading' \in [Streams -> Fds \cup {Free}]
  BY <1>1, SocketsKnown
<1> QED BY <1>1, <1>4, <1>5, <1>6, <1>7, StreamKeeps

\* It forgets the number it closed.
LEMMA CloseEndsKeeps ==
  ASSUME SocketsInv, NEW k \in Streams, NEW c \in Closers, CloseEnds(k, c)
  PROVE  SocketsInv'
<1>1. /\ closing[k][c].at = "forget" /\ closing' = [closing EXCEPT ![k][c] = NotClosing]
      /\ sd' = [sd EXCEPT ![k] = Free]
      /\ UNCHANGED <<fd, made, reading, raced>> /\ StreamOnly
  BY DEF CloseEnds, StreamOnly
<1>2. PICK to : to = NotClosing
  OBVIOUS
<1>3. to \in CloserStates /\ to.at = "idle"
  BY <1>2 DEF CloserStates, NotClosing
<1>4. /\ closing' \in [Streams -> [Closers -> CloserStates]]
      /\ closing'[k][c] = to
      /\ \A j \in Streams, d \in Closers : j # k \/ d # c => closing'[j][d] = closing[j][d]
  <2>1. closing' = [closing EXCEPT ![k][c] = to] /\ to \in CloserStates
    BY <1>1, <1>2, <1>3
  <2> QED BY ZenonT(40), <2>1, CloserMoves
<1>5. /\ sd' \in [Streams -> Numbers \cup {Free}]
      /\ sd'[k] = Free /\ \A j \in Streams \ {k} : sd'[j] = sd[j]
  BY <1>1, SocketsKnown
<1>6. StreamsOwned'
  <2>1. \A n \in Fds : fd[n] # k
    BY <1>1 DEF SocketsInv, StreamsOwned
  <2>2. \A n \in Fds : fd'[n] \in Streams => sd'[fd'[n]] = n
    BY <1>1, <1>5, <2>1 DEF SocketsInv, StreamsOwned
  <2>3. \A j \in Streams : j > made' =>
         sd'[j] = Free /\ reading'[j] = Free /\ \A d \in Closers : closing'[j][d].at = "idle"
    BY <1>1, <1>3, <1>4, <1>5 DEF SocketsInv, StreamsOwned
  <2>4. \A j \in Streams, d \in Closers :
         /\ closing'[j][d].at = "close" => closing'[j][d].sd # Free /\ sd'[j] \in {closing'[j][d].sd, Free}
         /\ closing'[j][d].at = "forget" => \A n \in Fds : fd'[n] # j
    BY <1>1, <1>3, <1>4, <1>5 DEF SocketsInv, StreamsOwned
  <2> QED BY <2>2, <2>3, <2>4 DEF StreamsOwned
<1>7. ASSUME ~raced' PROVE ~raced /\ StreamsUnraced'
  <2>1. ~raced
    BY <1>1, <1>7
  <2>2. StreamsUnraced
    BY <2>1 DEF SocketsInv, Unraced
  <2>3. ASSUME NEW j \in Streams \ {k}
        PROVE /\ \A d, e \in Closers : closing'[j][d].at # "idle" /\ closing'[j][e].at # "idle" => d = e
              /\ reading'[j] # Free => ~Closing(j)' /\ reading'[j] = sd'[j]
              /\ \A d \in Closers : closing'[j][d].at = "close" => closing'[j][d].sd = sd'[j]
              /\ sd'[j] # Free /\ (\A d \in Closers : closing'[j][d].at # "forget") => fd'[sd'[j]] = j
    BY <1>1, <1>4, <1>5, <2>2 DEF StreamsUnraced, Closing
  <2>4. /\ \A d \in Closers : closing'[k][d].at = "idle"
        /\ reading'[k] = Free
    <3>1. \A d \in Closers : d # c => closing[k][d].at = "idle"
      BY <1>1, <2>2 DEF StreamsUnraced
    <3>2. reading[k] = Free
      BY <1>1, <2>2 DEF StreamsUnraced, Closing
    <3> QED BY <1>1, <1>3, <1>4, <3>1, <3>2
  <2>5. /\ \A d, e \in Closers : closing'[k][d].at # "idle" /\ closing'[k][e].at # "idle" => d = e
        /\ reading'[k] # Free => ~Closing(k)' /\ reading'[k] = sd'[k]
        /\ \A d \in Closers : closing'[k][d].at = "close" => closing'[k][d].sd = sd'[k]
        /\ sd'[k] # Free /\ (\A d \in Closers : closing'[k][d].at # "forget") => fd'[sd'[k]] = k
    BY <1>5, <2>4
  <2> QED BY <2>1, <2>3, <2>5 DEF StreamsUnraced, Closing
<1>8. reading' \in [Streams -> Fds \cup {Free}]
  BY <1>1, SocketsKnown
<1> QED BY <1>1, <1>4, <1>5, <1>6, <1>7, <1>8, StreamKeeps

\* It shuts down and closes the number, whatever that stands for by now.
LEMMA CloseFreesKeeps ==
  ASSUME SocketsInv, NEW k \in Streams, NEW c \in Closers, CloseFrees(k, c)
  PROVE  SocketsInv'
<1>1. PICK n : n = closing[k][c].sd
  OBVIOUS
<1>2. /\ closing[k][c].at = "close" /\ closing' = [closing EXCEPT ![k][c].at = "forget"]
      /\ fd' = [fd EXCEPT ![n] = Free]
      /\ UNCHANGED <<acc, server, taken, woken, stopper, connector, made, sd, reading, raced>>
  BY <1>1 DEF CloseFrees, acceptor
<1>3. n \in Numbers /\ n \in Fds /\ n # Free
  <2>1. closing[k][c] \in CloserStates
    BY SocketsKnown
  <2>2. n # Free
    BY <1>1, <1>2 DEF SocketsInv, StreamsOwned
  <2> QED BY <1>1, <2>1, <2>2, SocketsKnown DEF CloserStates
<1>4. PICK to : to = [closing[k][c] EXCEPT !.at = "forget"]
  OBVIOUS
<1>5. to \in CloserStates /\ to.at = "forget"
  <2>1. closing[k][c] \in CloserStates
    BY SocketsKnown
  <2> QED BY <1>4, <2>1 DEF CloserStates
<1>6. /\ closing' \in [Streams -> [Closers -> CloserStates]]
      /\ closing'[k][c] = to
      /\ \A j \in Streams, d \in Closers : j # k \/ d # c => closing'[j][d] = closing[j][d]
  <2>1. closing' = [closing EXCEPT ![k][c] = to]
    BY <1>2, <1>4, SocketsKnown
  <2> QED BY ZenonT(40), <1>5, <2>1, CloserMoves
<1>7. /\ fd' \in [Fds -> Marks \cup (1 .. made)]
      /\ \A m \in Fds : fd'[m] = IF m = n THEN Free ELSE fd[m]
  <2>1. fd \in [Fds -> Marks \cup (1 .. made)] /\ Free \in Marks
    BY SocketsKnown DEF Marks
  <2> QED BY <1>2, <1>3, <2>1
<1>8. Free \notin Streams
  BY SocketsKnown DEF Free, Streams
<1>9. SocketsTypeOK'
  BY <1>2, <1>7 DEF SocketsInv, SocketParts, SocketsTypeOK, Marks
<1>10. SocketParts'
  BY <1>2, <1>6, <1>9 DEF SocketsInv, SocketParts
<1>11. ZeroTaken'
  BY <1>3, <1>7, SocketsKnown DEF SocketsInv, ZeroTaken, Numbers
<1>12. EnoughStreams'
  BY <1>2 DEF SocketsInv, EnoughStreams, Ahead
<1>13. StreamsOwned'
  <2>1. \A m \in Fds : fd'[m] \in Streams => sd'[fd'[m]] = m
    BY <1>2, <1>7, <1>8 DEF SocketsInv, StreamsOwned
  <2>2. \A j \in Streams : j > made' =>
         sd'[j] = Free /\ reading'[j] = Free /\ \A d \in Closers : closing'[j][d].at = "idle"
    <3>1. ~(k > made)
      BY <1>2 DEF SocketsInv, StreamsOwned
    <3> QED BY <1>2, <1>6, <3>1 DEF SocketsInv, StreamsOwned
  <2>3. \A m \in Fds : fd'[m] # k
    <3> SUFFICES ASSUME NEW m \in Fds, fd[m] = k, m # n PROVE FALSE
      BY <1>7, <1>8
    <3>1. sd[k] = m
      BY DEF SocketsInv, StreamsOwned
    <3>2. sd[k] \in {n, Free}
      BY <1>1, <1>2 DEF SocketsInv, StreamsOwned
    <3> QED BY <3>1, <3>2, SocketsKnown
  <2>4. \A j \in Streams, d \in Closers :
         /\ closing'[j][d].at = "close" => closing'[j][d].sd # Free /\ sd'[j] \in {closing'[j][d].sd, Free}
         /\ closing'[j][d].at = "forget" => \A m \in Fds : fd'[m] # j
    BY <1>2, <1>5, <1>6, <1>7, <1>8, <2>3 DEF SocketsInv, StreamsOwned
  <2> QED BY <2>1, <2>2, <2>4 DEF StreamsOwned
<1>14. OthersOwned'
  BY <1>2, <1>7 DEF SocketsInv, OthersOwned, Free, Listener, Connecting, Accepted
<1>15. ASSUME ~raced' PROVE Unraced'
  <2>1. StreamsUnraced /\ OthersUnraced
    BY <1>2, <1>15 DEF SocketsInv, Unraced
  <2>2. \A d \in Closers : d # c => closing[k][d].at = "idle"
    BY <1>2, <2>1 DEF StreamsUnraced
  <2>3. n = sd[k] /\ fd[n] = k /\ reading[k] = Free
    <3>1. n = sd[k] /\ reading[k] = Free
      BY <1>1, <1>2, <2>1 DEF StreamsUnraced, Closing
    <3>2. \A d \in Closers : closing[k][d].at # "forget"
      BY <1>2, <2>2
    <3> QED BY <1>3, <2>1, <3>1, <3>2 DEF StreamsUnraced
  <2>4. OthersUnraced'
    <3>1. fd[n] \notin Marks
      BY <2>3, SocketsKnown DEF Streams, Marks, Free, Listener, Null, Stdin, Connecting, Accepted
    <3> QED BY <1>2, <1>7, <2>1, <3>1, SocketsKnown DEF OthersUnraced, Marks
  <2>5. ASSUME NEW j \in Streams \ {k}
        PROVE /\ \A d, e \in Closers : closing'[j][d].at # "idle" /\ closing'[j][e].at # "idle" => d = e
              /\ reading'[j] # Free => ~Closing(j)' /\ reading'[j] = sd'[j]
              /\ \A d \in Closers : closing'[j][d].at = "close" => closing'[j][d].sd = sd'[j]
              /\ sd'[j] # Free /\ (\A d \in Closers : closing'[j][d].at # "forget") => fd'[sd'[j]] = j
    <3>1. sd[j] # Free => sd[j] \in Fds
      BY SocketsKnown
    <3> QED BY <1>2, <1>6, <1>7, <2>1, <2>3, <3>1 DEF StreamsUnraced, Closing
  <2>6. /\ \A d, e \in Closers : closing'[k][d].at # "idle" /\ closing'[k][e].at # "idle" => d = e
        /\ reading'[k] # Free => ~Closing(k)' /\ reading'[k] = sd'[k]
        /\ \A d \in Closers : closing'[k][d].at = "close" => closing'[k][d].sd = sd'[k]
        /\ sd'[k] # Free /\ (\A d \in Closers : closing'[k][d].at # "forget") => fd'[sd'[k]] = k
    <3>1. \A d \in Closers : d # c => closing'[k][d].at = "idle"
      BY <1>6, <2>2
    <3> QED BY <1>2, <1>5, <1>6, <2>3, <3>1
  <2>7. StreamsUnraced'
    BY <2>5, <2>6 DEF StreamsUnraced, Closing
  <2> QED BY <2>4, <2>7 DEF Unraced
<1> QED BY <1>10, <1>11, <1>12, <1>13, <1>14, <1>15 DEF SocketsInv

\* The steps that only look, wait or ask the other thread to end.
LEMMA LookingKeeps ==
  ASSUME SocketsInv, Accept \/ AcceptCalled \/ WakeAccept \/ Shut \/ ConnectTries \/ Selects
  PROVE  SocketsInv'
<1>1. /\ acc \in [lsd : Fds \cup {-1}, listening : BOOLEAN, shut : BOOLEAN]
      /\ connector \in [pc : {"idle", "connect", "select", "connected", "failed"}, sd : Numbers \cup {Free}]
      /\ stopper \in {"idle", "wake", "replace", "done"} /\ (server = "destroyed" => stopper = "done")
      /\ server \in {"start", "loop", "accept", "blocked", "accepted", "over", "destroyed"}
  BY DEF SocketsInv, SocketParts, SocketsTypeOK
<1>2. CASE Accept \/ AcceptCalled
  <2>1. /\ server \in {"loop", "accept"} /\ server' \in {"accept", "blocked", "over"}
        /\ UNCHANGED <<fd, acc, taken, woken, stopper, connector, streams>>
    BY <1>2 DEF Accept, AcceptCalled
  <2> QED BY <1>1, <2>1, QuietSockets
<1>3. CASE WakeAccept
  <2>1. /\ stopper = "wake" /\ stopper' = "replace"
        /\ UNCHANGED <<fd, acc, server, taken, connector, streams>>
    BY <1>3 DEF WakeAccept
  <2> QED BY <1>1, <2>1, QuietSockets
<1>4. CASE Shut
  <2>1. /\ stopper = "idle" /\ stopper' = "wake" /\ acc' = [acc EXCEPT !.shut = TRUE]
        /\ UNCHANGED <<fd, server, taken, woken, connector, streams>>
    BY <1>4 DEF Shut
  <2>2. acc' \in [lsd : Fds \cup {-1}, listening : BOOLEAN, shut : BOOLEAN] /\ acc'.lsd = acc.lsd
    BY <1>1, <2>1
  <2> QED BY <1>1, <2>1, <2>2, QuietSockets
<1>5. CASE ConnectTries \/ Selects
  <2>1. PICK at \in {"select", "connected", "failed"} :
          /\ connector' = [connector EXCEPT !.pc = at] /\ connector.pc # "idle"
          /\ UNCHANGED <<fd, acceptor, streams>>
    BY <1>5 DEF ConnectTries, Selects
  <2>2. /\ connector' \in [pc : {"idle", "connect", "select", "connected", "failed"}, sd : Numbers \cup {Free}]
        /\ connector'.sd = connector.sd /\ connector'.pc # "idle"
    BY <1>1, <2>1
  <2>3. UNCHANGED <<acc, server, taken, woken, stopper>>
    BY <2>1 DEF acceptor
  <2> QED BY <1>1, <2>1, <2>2, <2>3, QuietSockets
<1> QED BY <1>2, <1>3, <1>4, <1>5

LEMMA SocketsStep ==
  ASSUME SocketsInv, [SocketsNext]_socketVars
  PROVE  SocketsInv'
<1>1. CASE ServerThread
  BY <1>1, StartAcceptorKeeps, LookingKeeps, AcceptReturnsKeeps, AcceptsKeeps DEF ServerThread
<1>2. CASE Shut \/ ShuttingDown \/ DestroyAcceptor
  BY <1>2, LookingKeeps, ReplaceKeeps, DestroyAcceptorKeeps DEF ShuttingDown
<1>3. CASE Connector
  BY <1>3, ConnectBeginsKeeps, LookingKeeps, ConnectEndsKeeps DEF Connector
<1>4. CASE \E k \in Streams : StreamStep(k)
  <2>1. PICK k \in Streams : StreamStep(k)
    BY <1>4
  <2> QED BY <2>1, ReceiveKeeps, ReceivedKeeps, CloseBeginsKeeps, CloseFreesKeeps, CloseEndsKeeps DEF StreamStep
<1>5. CASE UNCHANGED socketVars
  <2>1. UNCHANGED <<fd, acc, server, taken, woken, stopper, connector, streams>>
    BY <1>5 DEF socketVars, acceptor
  <2>2. /\ acc \in [lsd : Fds \cup {-1}, listening : BOOLEAN, shut : BOOLEAN]
        /\ connector \in [pc : {"idle", "connect", "select", "connected", "failed"}, sd : Numbers \cup {Free}]
        /\ stopper \in {"idle", "wake", "replace", "done"} /\ (server = "destroyed" => stopper = "done")
        /\ server \in {"start", "loop", "accept", "blocked", "accepted", "over", "destroyed"}
    BY DEF SocketsInv, SocketParts, SocketsTypeOK
  <2> QED BY <2>1, <2>2, QuietSockets
<1> QED BY <1>1, <1>2, <1>3, <1>4, <1>5 DEF SocketsNext

LEMMA SocketsStart ==
  ASSUME SocketsInit
  PROVE  SocketsInv
<1>1. /\ fd = [n \in Fds |-> IF n = 0 THEN Stdin ELSE Free]
      /\ acc = [lsd |-> 0, listening |-> FALSE, shut |-> FALSE]
      /\ server = "start" /\ taken = Free /\ stopper = "idle"
      /\ connector = [pc |-> "idle", sd |-> Free] /\ made = 0 /\ sd = [k \in Streams |-> Free]
      /\ reading = [k \in Streams |-> Free]
      /\ closing = [k \in Streams |-> [c \in Closers |-> NotClosing]]
  BY DEF SocketsInit
<1>2. 0 \in Fds /\ MaxStreams \in Nat
  BY SocketsAssumption DEF Fds
<1>3. NotClosing \in CloserStates /\ NotClosing.at = "idle"
  BY DEF NotClosing, CloserStates
<1>4. \A k \in Streams, c \in Closers : closing[k][c] = NotClosing
  BY <1>1
<1>5. fd[0] = Stdin /\ \A n \in Fds : fd[n] \in {Stdin, Free}
  BY <1>1, <1>2
<1>6. SocketsTypeOK
  <2>1. fd \in [Fds -> {Free, Listener, Null, Stdin, Connecting, Accepted} \cup (1 .. made)]
    BY <1>1
  <2>2. \A k \in Streams : {sd[k], reading[k]} \subseteq Fds \cup {Free}
    BY <1>1
  <2> QED BY <1>1, <1>2, <2>1, <2>2 DEF SocketsTypeOK
<1>7. SocketParts
  <2>1. acc \in [lsd : Fds \cup {-1}, listening : BOOLEAN, shut : BOOLEAN]
    BY <1>1, <1>2
  <2>2. closing \in [Streams -> [Closers -> CloserStates]]
    BY <1>1, <1>3
  <2> QED BY <1>1, <1>6, <2>1, <2>2 DEF SocketParts
<1>8. ZeroTaken /\ EnoughStreams
  BY <1>1, <1>2, <1>5 DEF ZeroTaken, EnoughStreams, Ahead
<1>9. StreamsOwned
  <2>1. \A n \in Fds : fd[n] \notin Streams
    BY <1>2, <1>5 DEF Stdin, Free, Streams
  <2> QED BY <1>1, <1>3, <1>4, <2>1 DEF StreamsOwned
<1>10. OthersOwned
  BY <1>5 DEF OthersOwned, Stdin, Free, Listener, Connecting, Accepted
<1>11. Unraced
  <2>1. StreamsUnraced
    BY <1>1, <1>3, <1>4 DEF StreamsUnraced
  <2>2. acc.lsd = 0 /\ connector.pc = "idle"
    BY <1>1
  <2> QED BY <1>1, <1>5, <2>1, <2>2 DEF Unraced, OthersUnraced
<1> QED BY <1>7, <1>8, <1>9, <1>10, <1>11 DEF SocketsInv

LEMMA SocketsInvSound ==
  ASSUME SocketsInv
  PROVE  DescriptorsSound
<1>1. NothingLeaks
  BY DEF SocketsInv, StreamsOwned, OthersOwned, NothingLeaks
<1>2. OwnSocket
  <2> SUFFICES ASSUME ~raced, NEW k \in Streams
               PROVE  /\ sd[k] # Free /\ ~Closing(k) => fd[sd[k]] = k
                      /\ reading[k] # Free => fd[reading[k]] = k
    BY DEF OwnSocket
  <2>1. StreamsUnraced
    BY DEF SocketsInv, Unraced
  <2>2. sd[k] # Free /\ ~Closing(k) => fd[sd[k]] = k
    BY <2>1 DEF StreamsUnraced, Closing
  <2> QED BY <2>1, <2>2 DEF StreamsUnraced
<1> QED BY <1>1, <1>2 DEF SocketsInv, SocketParts, DescriptorsSound

\* Descriptors: every open one has somebody who will close it, on every path and even
\* when threads race to close a stream, and until they do, a stream's number stands for
\* its own socket.
THEOREM SocketsSafe == SocketsSpec => []DescriptorsSound
<1>1. SocketsInit => SocketsInv
  BY SocketsStart
<1>2. SocketsInv /\ [SocketsNext]_socketVars => SocketsInv'
  BY SocketsStep
<1>3. SocketsInv => DescriptorsSound
  BY SocketsInvSound
<1> QED BY <1>1, <1>2, <1>3, PTL DEF SocketsSpec

(***************************************************************************)
(* Listeners are told in order, and none is forgotten, for any number of   *)
(* listeners, threads and changes.                                         *)
(*                                                                         *)
(* A state is sound (NotifierInv) when                                     *)
(*   - every notice in a thread's queue is for listeners that were added   *)
(*     and is no newer than the table, notices of one name stand in the    *)
(*     order of their changes, and the one being told is older than all    *)
(*     of them (ThreadOK);                                                 *)
(*   - a listener belongs to one thread (OneHome), and was told nothing    *)
(*     newer than what that thread still has for it (ToldOlder): so what   *)
(*     it is told next is no older than what it was told;                  *)
(*   - each listener that asked for everything knows what the table has,   *)
(*     or a notice of just that change is still to reach it (AllDue): so   *)
(*     when the queues are empty it knows;                                 *)
(*   - the program knows when a listener asked for local changes           *)
(*     (LocalKnown), so that the shortcut for them drops nothing.          *)
(* The lemmas on records say what one step makes of one thread; the others *)
(* say that each action keeps NotifierInv.                                 *)
(***************************************************************************)

Names == Keys \cup {Link}
NamesOf(k) == IF k = "entry" THEN Keys ELSE {Link}
AllFlags == {"new", "update", "delete", "flags", "local", "immediate"}

Notice == [name : Names, what : SUBSET AllFlags, only : Nat, version : Nat]

ThreadPlaces == {"none", "start", "top", "sleep", "wait", "take", "calling", "gone"}

ThreadRec == [active : BOOLEAN, pc : ThreadPlaces, woken : BOOLEAN,
              queue : [Kinds -> Seq(Notice)], slots : [Kinds -> Seq(Nat)], free : [Kinds -> Seq(Nat)],
              kind : Kinds, at : Nat, calls : Nat, item : Notice \cup {<<>>}]

\* A notice for listeners up to rs that is no newer than the table tb.
Good(k, x, rs, tb) == x.name \in NamesOf(k) /\ x.only <= rs /\ x.version <= tb[x.name]

FreeExact(m) ==
  \A k \in Kinds :
    /\ IsInjective(m.free[k])
    /\ ToSet(m.free[k]) = {i \in DOMAIN m.slots[k] : m.slots[k][i] = Nobody}

SleepsIdle(m) == m.pc = "sleep" => Idle(m)
WaitsWoken(m) == m.pc = "wait" /\ ~Idle(m) => m.woken

QueueGood(m, rs, tb) ==
  \A k \in Kinds : \A i \in 1 .. Len(m.queue[k]) : Good(k, m.queue[k][i], rs, tb)

\* Notices of one name are queued in the order of their versions.
QueueSorted(m) ==
  \A k \in Kinds : \A i, j \in 1 .. Len(m.queue[k]) :
    i < j /\ m.queue[k][i].name = m.queue[k][j].name =>
      m.queue[k][i].version <= m.queue[k][j].version

\* The one that is told is older.
ItemGood(m, rs, tb) ==
  m.pc = "calling" =>
    /\ m.item \in Notice /\ Good(m.kind, m.item, rs, tb)
    /\ m.calls \in 1 .. rs /\ (m.item.only # Nobody => m.calls = m.item.only)
    /\ \A i \in 1 .. Len(m.queue[m.kind]) :
         m.queue[m.kind][i].name = m.item.name => m.item.version <= m.queue[m.kind][i].version

ThreadOK(m, rs, tb) ==
  /\ m \in ThreadRec /\ \A k \in Kinds : m.slots[k] \in Seq(0 .. rs)
  /\ FreeExact(m) /\ SleepsIdle(m) /\ WaitsWoken(m)
  /\ QueueGood(m, rs, tb) /\ QueueSorted(m) /\ ItemGood(m, rs, tb)

\* The thread will call listener r or may.
Reaches(m, r) ==
  \/ \E k \in Kinds : \E i \in DOMAIN m.slots[k] : m.slots[k][i] = r
  \/ m.pc = "calling" /\ m.calls = r
  \/ \E k \in Kinds : \E i \in 1 .. Len(m.queue[k]) : m.queue[k][i].only = r

\* A listener that was told h was told nothing newer than what the thread has.
Behind(m, h) ==
  /\ \A k \in Kinds : \A i \in 1 .. Len(m.queue[k]) : h[m.queue[k][i].name] <= m.queue[k][i].version
  /\ m.pc = "calling" => h[m.item.name] <= m.item.version

UpTo(h, tb) == \A n \in Names : h[n] <= tb[n]

\* A listener in place j that was told h knows n or will be told of it.
Due(m, h, tb, j, r, n) ==
  \/ h[n] = tb[n]
  \/ \E i \in 1 .. Len(m.queue["entry"]) :
       /\ m.queue["entry"][i].name = n /\ m.queue["entry"][i].version = tb[n]
       /\ m.queue["entry"][i].only \in {Nobody, r}
  \/ /\ m.pc = "calling" /\ m.item.name = n /\ m.item.version = tb[n]
     /\ m.calls = r \/ (m.item.only = Nobody /\ j > m.at)

\* The listener whose immediate notifications are still to be queued.
Immediate == IF adding.pc = "immediate" THEN regs ELSE Nobody

Knows(t, r) == Reaches(thread[t], r) \/ (r = Immediate /\ t = owner)

AddingOK ==
  \/ adding = NotAdding
  \/ \E k \in Kinds, s \in Specs \cup {<<>>} : 
       adding = [pc |-> "place", kind |-> k, spec |-> s] /\ owner # Nobody /\ regs < MaxRegs
  \/ /\ adding.pc = "immediate" /\ adding.kind = "entry" /\ adding.spec = specOf[regs] /\ regs > 0
     /\ adding = [pc |-> "immediate", kind |-> "entry", spec |-> adding.spec]

NotifierTypes ==
  /\ started \in 0 .. MaxThreads /\ owner \in 0 .. started /\ stopping \in 0 .. started
  /\ regs \in 0 .. MaxRegs /\ changes \in 0 .. MaxChanges /\ deleted \subseteq Keys
  /\ table \in [Names -> 0 .. changes] /\ heard \in [Regs -> [Names -> Nat]]
  /\ specOf = [r \in Regs |-> specOf[r]]
  /\ thread = [t \in Threads |-> thread[t]]
  /\ AddingOK

ThreadsOK == \A t \in Threads : ThreadOK(thread[t], regs, table)
NotBegun  == \A t \in Threads : t > started => thread[t] = NoThread
\* Every change made one entry.
TableExact == \A n, o \in Names : table[n] = table[o] /\ table[n] # 0 => n = o
OneHome   == \A r \in Regs : \A t, u \in Threads : Knows(t, r) /\ Knows(u, r) => t = u
ToldOlder == \A r \in Regs : \A t \in Threads : Knows(t, r) => Behind(thread[t], heard[r])
HeardOK   == \A r \in Regs : \A n \in Names : heard[r][n] <= table[n] /\ (r > regs => heard[r][n] = 0)

\* The program knows of the thread's listeners that asked for local changes.
LocalFor(m, sp, loc) ==
  \A j \in DOMAIN m.slots["entry"] :
    m.slots["entry"][j] # Nobody /\ "local" \in sp[m.slots["entry"][j]].flags => loc

LocalKnown == owner # Nobody => LocalFor(thread[owner], specOf, local)

\* The thread's listeners who asked for everything know it or will be told.
Owed(m, sp, hd, tb, del, imm) ==
  \A j \in DOMAIN m.slots["entry"] : \A n \in Keys :
    /\ m.slots["entry"][j] \notin {Nobody, imm} /\ AsksForAll(sp[m.slots["entry"][j]])
    /\ IsPrefix(sp[m.slots["entry"][j]].prefix, n) /\ tb[n] # 0 /\ n \notin del
    => Due(m, hd[m.slots["entry"][j]], tb, j, m.slots["entry"][j], n)

AllDue == owner # Nobody => Owed(thread[owner], specOf, heard, table, deleted, Immediate)

NotifierInv ==
  /\ NotifierTypes /\ ThreadsOK /\ NotBegun /\ TableExact /\ OneHome /\ ToldOlder /\ HeardOK
  /\ LocalKnown /\ AllDue

(***************************************************************************)
(* What the record of a thread is.                                         *)
(***************************************************************************)

\* The fields of a thread's record have their types.
LEMMA ThreadFields ==
  ASSUME NEW m \in ThreadRec
  PROVE  /\ m.pc \in ThreadPlaces /\ m.kind \in Kinds /\ m.at \in Nat /\ m.calls \in Nat
         /\ m.queue \in [Kinds -> Seq(Notice)] /\ m.slots \in [Kinds -> Seq(Nat)]
         /\ m.free \in [Kinds -> Seq(Nat)] /\ m.item \in Notice \cup {<<>>}
         /\ \A k \in Kinds : /\ m.queue[k] \in Seq(Notice) /\ m.slots[k] \in Seq(Nat) /\ m.free[k] \in Seq(Nat)
                             /\ Len(m.queue[k]) \in Nat /\ Len(m.slots[k]) \in Nat
                             /\ DOMAIN m.slots[k] = 1 .. Len(m.slots[k])
                             /\ DOMAIN m.free[k] = 1 .. Len(m.free[k])
                             /\ \A i \in 1 .. Len(m.queue[k]) : m.queue[k][i] \in Notice
<1>1. /\ m.pc \in ThreadPlaces /\ m.kind \in Kinds /\ m.at \in Nat /\ m.calls \in Nat
      /\ m.queue \in [Kinds -> Seq(Notice)] /\ m.slots \in [Kinds -> Seq(Nat)]
      /\ m.free \in [Kinds -> Seq(Nat)] /\ m.item \in Notice \cup {<<>>}
  BY DEF ThreadRec
<1>2. \A k \in Kinds : m.queue[k] \in Seq(Notice) /\ m.slots[k] \in Seq(Nat) /\ m.free[k] \in Seq(Nat)
  BY <1>1
<1>3. ASSUME NEW q \in Seq(Notice) PROVE Len(q) \in Nat /\ \A i \in 1 .. Len(q) : q[i] \in Notice
  OBVIOUS
<1>4. ASSUME NEW q \in Seq(Nat) PROVE Len(q) \in Nat /\ DOMAIN q = 1 .. Len(q)
  OBVIOUS
<1> QED BY <1>1, <1>2, <1>3, <1>4

\* So have those of a notice.
LEMMA NoticeFields ==
  ASSUME NEW x \in Notice
  PROVE  x.name \in Names /\ x.what \subseteq AllFlags /\ x.only \in Nat /\ x.version \in Nat
BY DEF Notice

\* Steps that change neither queues nor listeners.
LEMMA RecordMoves ==
  ASSUME NEW rs, NEW tb, NEW m, ThreadOK(m, rs, tb),
         NEW m2 \in ThreadRec, m2.pc # "calling",
         m2.queue = m.queue, m2.slots = m.slots, m2.free = m.free,
         SleepsIdle(m2), WaitsWoken(m2)
  PROVE  /\ ThreadOK(m2, rs, tb)
         /\ \A r \in Regs : Reaches(m2, r) => Reaches(m, r)
         /\ \A h : Behind(m, h) => Behind(m2, h)
         /\ m.pc # "calling" => \A h, j, r, n : Due(m, h, tb, j, r, n) => Due(m2, h, tb, j, r, n)
<1>1. m2.pc # "calling"
  OBVIOUS
<1>2. ThreadOK(m2, rs, tb)
  <2>1. FreeExact(m2) /\ QueueGood(m2, rs, tb) /\ QueueSorted(m2)
    BY DEF ThreadOK, FreeExact, QueueGood, QueueSorted
  <2>2. ItemGood(m2, rs, tb)
    BY <1>1 DEF ItemGood
  <2> QED BY <2>1, <2>2 DEF ThreadOK
<1>3. \A r \in Regs : Reaches(m2, r) => Reaches(m, r)
  BY <1>1 DEF Reaches
<1>4. \A h : Behind(m, h) => Behind(m2, h)
  BY <1>1 DEF Behind
<1>5. m.pc # "calling" => \A h, j, r, n : Due(m, h, tb, j, r, n) => Due(m2, h, tb, j, r, n)
  BY <1>1 DEF Due
<1> QED BY <1>2, <1>3, <1>4, <1>5

\* Later, when more listeners were added and more was changed.
LEMMA RecordGrows ==
  ASSUME NEW rs \in Nat, NEW rs2 \in Nat, rs <= rs2, NEW tb \in [Names -> Nat], NEW tb2 \in [Names -> Nat],
         \A n \in Names : tb[n] <= tb2[n], NEW m, ThreadOK(m, rs, tb)
  PROVE  ThreadOK(m, rs2, tb2)
<1>1. m \in ThreadRec
  BY DEF ThreadOK
<1>2. ASSUME NEW k \in Kinds, NEW x \in Notice, Good(k, x, rs, tb) PROVE Good(k, x, rs2, tb2)
  BY <1>2, NoticeFields DEF Good
<1>3. QueueGood(m, rs2, tb2)
  BY <1>1, <1>2, ThreadFields DEF ThreadOK, QueueGood
<1>4. ItemGood(m, rs2, tb2)
  <2>1. m.pc = "calling" => Good(m.kind, m.item, rs2, tb2)
    BY <1>1, <1>2, ThreadFields DEF ThreadOK, ItemGood
  <2>2. 1 .. rs \subseteq 1 .. rs2
    OBVIOUS
  <2> QED BY <2>1, <2>2 DEF ThreadOK, ItemGood
<1>5. \A k \in Kinds : m.slots[k] \in Seq(0 .. rs2)
  <2>1. 0 .. rs \subseteq 0 .. rs2
    OBVIOUS
  <2> QED BY <2>1, SeqMonotonic DEF ThreadOK
<1> QED BY <1>3, <1>4, <1>5 DEF ThreadOK

\* Some of the notices are for listener r only; who may hear of all of them.
SentTo(items, r) == \E i \in 1 .. Len(items) : items[i].only = r
OnTheirWay(m, items, tb) ==
  \A h, j, r : \A i \in 1 .. Len(items) :
    items[i].only \in {Nobody, r} => Due(m, h, tb, j, r, items[i].name)

\* Notices of the latest versions are queued, and the thread is woken.
LEMMA RecordNotified ==
  ASSUME NEW rs \in Nat, NEW tb \in [Names -> Nat], NEW m, ThreadOK(m, rs, tb), Unlocked(m),
         NEW k \in Kinds, NEW items \in Seq(Notice),
         \A i \in 1 .. Len(items) : Good(k, items[i], rs, tb) /\ items[i].version = tb[items[i].name],
         NEW m2, m2 = Notified(m, k, items)
  PROVE  /\ ThreadOK(m2, rs, tb) /\ m2.slots = m.slots
         /\ \A r \in Regs : Reaches(m2, r) => Reaches(m, r) \/ SentTo(items, r)
         /\ \A h : Behind(m, h) /\ UpTo(h, tb) => Behind(m2, h)
         /\ \A h, j, r, n : Due(m, h, tb, j, r, n) => Due(m2, h, tb, j, r, n)
         /\ k = "entry" => OnTheirWay(m2, items, tb)
<1>1. m \in ThreadRec
  BY DEF ThreadOK
<1>2. PICK q : q = m.queue[k] \o items
  OBVIOUS
<1>3. PICK b \in BOOLEAN : b <=> (m.woken \/ (m.pc = "wait" /\ items # <<>>))
  OBVIOUS
<1>4. m2 = [m EXCEPT !.queue[k] = q, !.woken = b]
  BY <1>1, <1>2, <1>3 DEF Notified, ThreadRec
<1>6. /\ m2.pc = m.pc /\ m2.kind = m.kind /\ m2.at = m.at /\ m2.calls = m.calls /\ m2.item = m.item
      /\ m2.slots = m.slots /\ m2.free = m.free /\ m2.active = m.active /\ m2.woken = b
      /\ m2.queue = [m.queue EXCEPT ![k] = q]
  BY <1>1, <1>4 DEF ThreadRec
<1>7. m.queue \in [Kinds -> Seq(Notice)] /\ m.queue[k] \in Seq(Notice)
  BY <1>1, ThreadFields
<1>8. PICK o \in Seq(Notice) : o = m.queue[k]
  BY <1>7
<1>9. /\ q \in Seq(Notice) /\ Len(q) = Len(o) + Len(items) /\ Len(o) \in Nat /\ Len(items) \in Nat
      /\ \A i \in 1 .. Len(o) + Len(items) : q[i] = IF i <= Len(o) THEN o[i] ELSE items[i - Len(o)]
  BY <1>2, <1>8, ConcatProperties, LenProperties
<1>10. \A i \in 1 .. Len(o) : i \in 1 .. Len(q) /\ q[i] = o[i]
  BY <1>9
<1>11. \A i \in 1 .. Len(items) : Len(o) + i \in 1 .. Len(q) /\ q[Len(o) + i] = items[i]
  <2> SUFFICES ASSUME NEW i \in 1 .. Len(items)
               PROVE  Len(o) + i \in 1 .. Len(q) /\ q[Len(o) + i] = items[i]
    OBVIOUS
  <2>1. /\ Len(o) + i \in 1 .. Len(o) + Len(items) /\ ~(Len(o) + i <= Len(o))
        /\ (Len(o) + i) - Len(o) = i
    BY <1>9
  <2> QED BY <1>9, <2>1
<1>12. \A i \in 1 .. Len(q) : (i \in 1 .. Len(o) /\ q[i] = o[i])
                              \/ \E l \in 1 .. Len(items) : i = Len(o) + l /\ q[i] = items[l]
  <2> SUFFICES ASSUME NEW i \in 1 .. Len(q), ~(i <= Len(o))
               PROVE  \E l \in 1 .. Len(items) : i = Len(o) + l /\ q[i] = items[l]
    BY <1>9
  <2>1. i - Len(o) \in 1 .. Len(items) /\ i = Len(o) + (i - Len(o)) /\ q[i] = items[i - Len(o)]
    BY <1>9
  <2> QED BY <2>1
<1>13. /\ m2.queue \in [Kinds -> Seq(Notice)] /\ m2.queue[k] = q
       /\ \A c \in Kinds : c # k => m2.queue[c] = m.queue[c]
  BY <1>6, <1>7, <1>9
<1>14. m2 \in ThreadRec
  <2>1. m2 = [m EXCEPT !.queue = m2.queue, !.woken = b]
    BY <1>1, <1>4, <1>6 DEF ThreadRec
  <2> QED BY <1>1, <1>13, <2>1 DEF ThreadRec
<1>15. \A i \in 1 .. Len(o) : Good(k, o[i], rs, tb)
  BY <1>8 DEF ThreadOK, QueueGood
<1>16. \A i \in 1 .. Len(q) : Good(k, q[i], rs, tb)
  BY <1>12, <1>15
<1>17. QueueGood(m2, rs, tb)
  <2> SUFFICES ASSUME NEW c \in Kinds PROVE \A i \in 1 .. Len(m2.queue[c]) : Good(c, m2.queue[c][i], rs, tb)
    BY DEF QueueGood
  <2>1. CASE c = k
    BY <1>13, <1>16, <2>1
  <2>2. CASE c # k
    BY <1>13, <2>2 DEF ThreadOK, QueueGood
  <2> QED BY <2>1, <2>2
<1>18. \A i, j \in 1 .. Len(q) : i < j /\ q[i].name = q[j].name => q[i].version <= q[j].version
  <2> SUFFICES ASSUME NEW i \in 1 .. Len(q), NEW j \in 1 .. Len(q), i < j, q[i].name = q[j].name
               PROVE  q[i].version <= q[j].version
    OBVIOUS
  <2>1. CASE j \in 1 .. Len(o) /\ q[j] = o[j]
    <3>1. i \in 1 .. Len(o) /\ q[i] = o[i]
      BY <1>9, <1>10, <2>1
    <3> QED BY <1>8, <2>1, <3>1 DEF ThreadOK, QueueSorted
  <2>2. CASE \E l \in 1 .. Len(items) : q[j] = items[l]
    <3>1. q[j].version = tb[q[j].name]
      BY <2>2
    <3>2. q[i].version <= tb[q[i].name]
      BY <1>16 DEF Good
    <3> QED BY <3>1, <3>2
  <2> QED BY <1>12, <2>1, <2>2
<1>19. QueueSorted(m2)
  <2> SUFFICES ASSUME NEW c \in Kinds
               PROVE  \A i, j \in 1 .. Len(m2.queue[c]) :
                        i < j /\ m2.queue[c][i].name = m2.queue[c][j].name =>
                          m2.queue[c][i].version <= m2.queue[c][j].version
    BY DEF QueueSorted
  <2>1. CASE c = k
    <3>1. m2.queue[c] = q
      BY <1>13, <2>1
    <3> QED BY <1>18, <3>1
  <2>2. CASE c # k
    <3>1. PICK w : w = m.queue[c]
      OBVIOUS
    <3>2. m2.queue[c] = w
      BY <1>13, <2>2, <3>1
    <3>3. QueueSorted(m)
      BY DEF ThreadOK
    <3>4. \A i, j \in 1 .. Len(w) : i < j /\ w[i].name = w[j].name => w[i].version <= w[j].version
      BY <3>1, <3>3 DEF QueueSorted
    <3> QED BY <3>2, <3>4
  <2> QED BY <2>1, <2>2
<1>20. ItemGood(m2, rs, tb)
  <2> SUFFICES ASSUME m.pc = "calling" PROVE ItemGood(m2, rs, tb)
    BY <1>6 DEF ItemGood
  <2>1. /\ m.item \in Notice /\ Good(m.kind, m.item, rs, tb)
        /\ m.calls \in 1 .. rs /\ (m.item.only # Nobody => m.calls = m.item.only)
        /\ \A i \in 1 .. Len(m.queue[m.kind]) :
             m.queue[m.kind][i].name = m.item.name => m.item.version <= m.queue[m.kind][i].version
    BY DEF ThreadOK, ItemGood
  <2>2. ASSUME NEW i \in 1 .. Len(m2.queue[m.kind]), m2.queue[m.kind][i].name = m.item.name
        PROVE  m.item.version <= m2.queue[m.kind][i].version
    <3>1. CASE m.kind # k
      BY <1>1, <1>13, <2>1, <2>2, <3>1, ThreadFields
    <3>2. CASE m.kind = k
      <4>1. CASE q[i] = o[i] /\ i \in 1 .. Len(o)
        BY <1>8, <1>13, <2>1, <2>2, <3>2, <4>1
      <4>2. CASE \E l \in 1 .. Len(items) : q[i] = items[l]
        <5>1. q[i].version = tb[q[i].name]
          BY <4>2
        <5> QED BY <1>13, <2>1, <2>2, <3>2, <5>1 DEF Good
      <4> QED BY <1>12, <1>13, <2>2, <3>2, <4>1, <4>2
    <3> QED BY <3>1, <3>2
  <2> QED BY <1>6, <2>1, <2>2 DEF ItemGood
<1>21. SleepsIdle(m2)
  BY <1>6 DEF SleepsIdle, Unlocked
<1>22. WaitsWoken(m2)
  <2> SUFFICES ASSUME m.pc = "wait", ~Idle(m2) PROVE b
    BY <1>6 DEF WaitsWoken
  <2>1. CASE items # <<>>
    BY <1>3, <2>1
  <2>2. CASE items = <<>>
    <3>1. q = o
      BY <1>2, <1>8, <2>2, ConcatEmptySeq
    <3>2. m2.queue = m.queue
      BY <1>6, <1>7, <1>8, <3>1
    <3>3. ~Idle(m)
      BY <3>2 DEF Idle
    <3> QED BY <1>3, <3>3 DEF ThreadOK, WaitsWoken
  <2> QED BY <2>1, <2>2
<1>23. ThreadOK(m2, rs, tb)
  <2>1. FreeExact(m2) /\ \A c \in Kinds : m2.slots[c] \in Seq(0 .. rs)
    BY <1>6 DEF ThreadOK, FreeExact
  <2> QED BY <1>14, <1>17, <1>19, <1>20, <1>21, <1>22, <2>1 DEF ThreadOK
<1>24. ASSUME NEW r, Reaches(m2, r)
       PROVE  Reaches(m, r) \/ SentTo(items, r)
  <2>1. CASE \E c \in Kinds : \E i \in 1 .. Len(m2.queue[c]) : m2.queue[c][i].only = r
    <3>1. PICK c \in Kinds : \E i \in 1 .. Len(m2.queue[c]) : m2.queue[c][i].only = r
      BY <2>1
    <3>0. PICK i \in 1 .. Len(m2.queue[c]) : m2.queue[c][i].only = r
      BY <3>1
    <3>2. CASE c # k
      BY <1>13, <3>1, <3>2 DEF Reaches
    <3>3. CASE c = k
      <4>1. CASE \E l \in 1 .. Len(items) : q[i] = items[l]
        BY <1>13, <3>0, <3>3, <4>1 DEF SentTo
      <4>2. CASE i \in 1 .. Len(o) /\ q[i] = o[i]
        BY <1>8, <1>13, <3>0, <3>3, <4>2 DEF Reaches
      <4> QED BY <1>12, <1>13, <3>3, <4>1, <4>2
    <3> QED BY <3>2, <3>3
  <2>2. CASE \E c \in Kinds : \E i \in DOMAIN m2.slots[c] : m2.slots[c][i] = r
    BY <1>6, <2>2 DEF Reaches
  <2>3. CASE m2.pc = "calling" /\ m2.calls = r
    BY <1>6, <2>3 DEF Reaches
  <2> QED BY <1>24, <2>1, <2>2, <2>3 DEF Reaches
<1>25. ASSUME NEW h, Behind(m, h), UpTo(h, tb) PROVE Behind(m2, h)
  <2>1. \A i \in 1 .. Len(o) : h[o[i].name] <= o[i].version
    BY <1>8, <1>25 DEF Behind
  <2>2. \A i \in 1 .. Len(items) : h[items[i].name] <= items[i].version
    BY <1>25, NoticeFields, ElementOfSeq DEF UpTo
  <2>3. \A i \in 1 .. Len(q) : h[q[i].name] <= q[i].version
    BY <1>12, <2>1, <2>2
  <2>4. \A c \in Kinds : \A i \in 1 .. Len(m2.queue[c]) : h[m2.queue[c][i].name] <= m2.queue[c][i].version
    BY <1>13, <1>25, <2>3 DEF Behind
  <2>5. m2.pc = "calling" => h[m2.item.name] <= m2.item.version
    BY <1>6, <1>25 DEF Behind
  <2> QED BY <2>4, <2>5 DEF Behind
<1>26. "entry" \in Kinds
  BY DEF Kinds
<1>27. ASSUME NEW h, NEW j, NEW r, NEW n, Due(m, h, tb, j, r, n) PROVE Due(m2, h, tb, j, r, n)
  <2>1. ASSUME NEW i \in 1 .. Len(m.queue["entry"])
        PROVE  i \in 1 .. Len(m2.queue["entry"]) /\ m2.queue["entry"][i] = m.queue["entry"][i]
    <3>1. CASE k = "entry"
      BY <1>8, <1>10, <1>13, <2>1, <3>1
    <3>2. CASE k # "entry"
      BY <1>13, <1>26, <2>1, <3>2
    <3> QED BY <3>1, <3>2
  <2>2. CASE \E i \in 1 .. Len(m.queue["entry"]) :
               /\ m.queue["entry"][i].name = n /\ m.queue["entry"][i].version = tb[n]
               /\ m.queue["entry"][i].only \in {Nobody, r}
    <3>1. PICK i \in 1 .. Len(m.queue["entry"]) :
               /\ m.queue["entry"][i].name = n /\ m.queue["entry"][i].version = tb[n]
               /\ m.queue["entry"][i].only \in {Nobody, r}
      BY <2>2
    <3>2. i \in 1 .. Len(m2.queue["entry"]) /\ m2.queue["entry"][i] = m.queue["entry"][i]
      BY <2>1
    <3> QED BY <3>1, <3>2 DEF Due
  <2>3. CASE h[n] = tb[n]
    BY <2>3 DEF Due
  <2>4. CASE /\ m.pc = "calling" /\ m.item.name = n /\ m.item.version = tb[n]
             /\ m.calls = r \/ (m.item.only = Nobody /\ j > m.at)
    BY <1>6, <2>4 DEF Due
  <2> QED BY <1>27, <2>2, <2>3, <2>4 DEF Due
<1>28. ASSUME k = "entry", NEW h, NEW j, NEW r, NEW i \in 1 .. Len(items), items[i].only \in {Nobody, r}
       PROVE  Due(m2, h, tb, j, r, items[i].name)
  <2>1. Len(o) + i \in 1 .. Len(m2.queue["entry"]) /\ m2.queue["entry"][Len(o) + i] = items[i]
    BY <1>11, <1>13, <1>28
  <2>2. items[i].version = tb[items[i].name]
    OBVIOUS
  <2> QED BY <1>28, <2>1, <2>2 DEF Due
<1>29. k = "entry" => OnTheirWay(m2, items, tb)
  BY <1>28 DEF OnTheirWay
<1> QED BY <1>6, <1>23, <1>24, <1>25, <1>27, <1>29

\* What is true of the item a thread is about to tell listeners of.
ItemHeld(m, rs, tb) ==
  /\ m.item \in Notice /\ Good(m.kind, m.item, rs, tb)
  /\ \A i \in 1 .. Len(m.queue[m.kind]) :
       m.queue[m.kind][i].name = m.item.name => m.item.version <= m.queue[m.kind][i].version

\* A thread takes the first notice out of a queue.
Popped(m) == [m EXCEPT !.queue[m.kind] = Tail(@), !.item = Head(m.queue[m.kind])]

\* What the thread then holds, and what the listeners have of it.
Pops(m, m2, rs, tb) ==
  /\ ThreadOK(m2, rs, tb) /\ ItemHeld(m2, rs, tb)
  /\ m2.pc = "take" /\ m2.slots = m.slots /\ m2.kind = m.kind
  /\ m2.item = Head(m.queue[m.kind])
  /\ \E i \in 1 .. Len(m.queue[m.kind]) : m2.item = m.queue[m.kind][i]
  /\ \A r \in Regs : Reaches(m2, r) => Reaches(m, r)
  /\ \A h : Behind(m, h) => Behind(m2, h) /\ h[m2.item.name] <= m2.item.version
  /\ \A h, j, r, n : Due(m, h, tb, j, r, n) =>
       \/ Due(m2, h, tb, j, r, n)
       \/ /\ m2.kind = "entry" /\ m2.item.name = n /\ m2.item.version = tb[n]
          /\ m2.item.only \in {Nobody, r}

\* The oldest notice is taken out of its queue; nobody misses it who is not told.
LEMMA RecordPops ==
  ASSUME NEW rs, NEW tb, NEW m, ThreadOK(m, rs, tb), m.pc = "take", m.queue[m.kind] # <<>>
  PROVE  \E m2 : m2 = Popped(m) /\ Pops(m, m2, rs, tb)
<1>1. m \in ThreadRec
  BY DEF ThreadOK
<1>2. PICK k \in Kinds : k = m.kind
  BY <1>1, ThreadFields
<1>3. PICK o \in Seq(Notice) : o = m.queue[k]
  BY <1>1, <1>2, ThreadFields
<1>4. /\ Len(o) \in Nat /\ Len(o) > 0 /\ 1 \in 1 .. Len(o) /\ Head(o) = o[1] /\ o[1] \in Notice
      /\ Tail(o) \in Seq(Notice) /\ Len(Tail(o)) = Len(o) - 1
      /\ \A i \in 1 .. Len(Tail(o)) : Tail(o)[i] = o[i + 1]
  BY <1>2, <1>3, HeadTailProperties, EmptySeq, LenProperties
<1>5. PICK q : q = Tail(o)
  OBVIOUS
<1>6. \A i \in 1 .. Len(q) : i + 1 \in 1 .. Len(o) /\ q[i] = o[i + 1]
  BY <1>4, <1>5
<1>7. PICK x : x = o[1]
  OBVIOUS
<1>8. PICK m2 : m2 = [m EXCEPT !.queue[k] = q, !.item = x]
  OBVIOUS
<1>24. m2 = Popped(m)
  BY <1>2, <1>3, <1>4, <1>5, <1>7, <1>8 DEF Popped
<1>9. /\ m2.pc = m.pc /\ m2.kind = m.kind /\ m2.slots = m.slots /\ m2.free = m.free /\ m2.item = x
      /\ m2.queue = [m.queue EXCEPT ![k] = q]
  BY <1>1, <1>8 DEF ThreadRec
<1>10. /\ m2.queue \in [Kinds -> Seq(Notice)] /\ m2.queue[k] = q /\ q \in Seq(Notice)
       /\ \A c \in Kinds : c # k => m2.queue[c] = m.queue[c]
  <2>1. m.queue \in [Kinds -> Seq(Notice)] /\ q \in Seq(Notice)
    BY <1>1, <1>4, <1>5, ThreadFields
  <2> QED BY <1>9, <2>1
<1>11. m2 \in ThreadRec
  <2>1. m2 = [m EXCEPT !.queue = m2.queue, !.item = x]
    BY <1>1, <1>8, <1>9 DEF ThreadRec
  <2> QED BY <1>1, <1>4, <1>7, <1>10, <2>1 DEF ThreadRec
<1>12. \A i \in 1 .. Len(o) : Good(k, o[i], rs, tb)
  BY <1>3 DEF ThreadOK, QueueGood
<1>13. \A i, j \in 1 .. Len(o) : i < j /\ o[i].name = o[j].name => o[i].version <= o[j].version
  BY <1>3 DEF ThreadOK, QueueSorted
<1>14. QueueGood(m2, rs, tb)
  <2> SUFFICES ASSUME NEW c \in Kinds PROVE \A i \in 1 .. Len(m2.queue[c]) : Good(c, m2.queue[c][i], rs, tb)
    BY DEF QueueGood
  <2>1. CASE c = k
    <3>1. \A i \in 1 .. Len(q) : Good(k, q[i], rs, tb)
      BY <1>6, <1>12
    <3> QED BY <1>10, <2>1, <3>1
  <2>2. CASE c # k
    BY <1>10, <2>2 DEF ThreadOK, QueueGood
  <2> QED BY <2>1, <2>2
<1>15. QueueSorted(m2)
  <2> SUFFICES ASSUME NEW c \in Kinds
               PROVE  \A i, j \in 1 .. Len(m2.queue[c]) :
                        i < j /\ m2.queue[c][i].name = m2.queue[c][j].name =>
                          m2.queue[c][i].version <= m2.queue[c][j].version
    BY DEF QueueSorted
  <2>1. CASE c = k
    <3>1. \A i, j \in 1 .. Len(q) : i < j /\ q[i].name = q[j].name => q[i].version <= q[j].version
      <4> SUFFICES ASSUME NEW i \in 1 .. Len(q), NEW j \in 1 .. Len(q), i < j, q[i].name = q[j].name
                   PROVE  q[i].version <= q[j].version
        OBVIOUS
      <4>1. i + 1 \in 1 .. Len(o) /\ j + 1 \in 1 .. Len(o) /\ i + 1 < j + 1
        BY <1>6
      <4>2. q[i] = o[i + 1] /\ q[j] = o[j + 1]
        BY <1>6
      <4>3. o[i + 1].version <= o[j + 1].version
        BY <1>13, <4>1, <4>2
      <4> QED BY <4>2, <4>3
    <3> QED BY <1>10, <2>1, <3>1
  <2>2. CASE c # k
    <3>1. m2.queue[c] = m.queue[c]
      BY <1>10, <2>2
    <3> QED BY <3>1 DEF ThreadOK, QueueSorted
  <2> QED BY <2>1, <2>2
<1>16. ThreadOK(m2, rs, tb)
  <2>1. FreeExact(m2) /\ \A c \in Kinds : m2.slots[c] \in Seq(0 .. rs)
    BY <1>9 DEF ThreadOK, FreeExact
  <2>2. SleepsIdle(m2) /\ WaitsWoken(m2) /\ ItemGood(m2, rs, tb)
    BY <1>9 DEF SleepsIdle, WaitsWoken, ItemGood
  <2> QED BY <1>11, <1>14, <1>15, <2>1, <2>2 DEF ThreadOK
<1>17. ItemHeld(m2, rs, tb)
  <2>1. Good(k, x, rs, tb)
    BY <1>4, <1>7, <1>12
  <2>2. ASSUME NEW i \in 1 .. Len(q), q[i].name = x.name PROVE x.version <= q[i].version
    <3>1. i + 1 \in 1 .. Len(o) /\ 1 < i + 1 /\ q[i] = o[i + 1]
      BY <1>6, <2>2
    <3> QED BY <1>4, <1>7, <1>13, <2>2, <3>1
  <2> QED BY <1>2, <1>4, <1>7, <1>9, <1>10, <2>1, <2>2 DEF ItemHeld
<1>18. ASSUME NEW r, Reaches(m2, r) PROVE Reaches(m, r)
  <2>1. CASE \E c \in Kinds : \E i \in 1 .. Len(m2.queue[c]) : m2.queue[c][i].only = r
    <3>1. PICK c \in Kinds : \E i \in 1 .. Len(m2.queue[c]) : m2.queue[c][i].only = r
      BY <2>1
    <3>2. PICK i \in 1 .. Len(m2.queue[c]) : m2.queue[c][i].only = r
      BY <3>1
    <3>3. CASE c # k
      BY <1>10, <3>2, <3>3 DEF Reaches
    <3>4. CASE c = k
      BY <1>3, <1>6, <1>10, <3>2, <3>4 DEF Reaches
    <3> QED BY <3>3, <3>4
  <2>2. CASE \E c \in Kinds : \E i \in DOMAIN m2.slots[c] : m2.slots[c][i] = r
    BY <1>9, <2>2 DEF Reaches
  <2> QED BY <1>9, <1>18, <2>1, <2>2 DEF Reaches
<1>19. ASSUME NEW h, Behind(m, h) PROVE Behind(m2, h) /\ h[m2.item.name] <= m2.item.version
  <2>1. \A i \in 1 .. Len(o) : h[o[i].name] <= o[i].version
    BY <1>3, <1>19 DEF Behind
  <2>2. \A i \in 1 .. Len(q) : h[q[i].name] <= q[i].version
    BY <1>6, <2>1
  <2>3. \A c \in Kinds : \A i \in 1 .. Len(m2.queue[c]) : h[m2.queue[c][i].name] <= m2.queue[c][i].version
    BY <1>10, <1>19, <2>2 DEF Behind
  <2> QED BY <1>4, <1>7, <1>9, <2>1, <2>3 DEF Behind
<1>20. "entry" \in Kinds
  BY DEF Kinds
<1>21. ASSUME NEW h, NEW j, NEW r, NEW n, Due(m, h, tb, j, r, n)
       PROVE  \/ Due(m2, h, tb, j, r, n)
              \/ /\ m2.kind = "entry" /\ m2.item.name = n /\ m2.item.version = tb[n]
                 /\ m2.item.only \in {Nobody, r}
  <2>1. CASE \E i \in 1 .. Len(m.queue["entry"]) :
               /\ m.queue["entry"][i].name = n /\ m.queue["entry"][i].version = tb[n]
               /\ m.queue["entry"][i].only \in {Nobody, r}
    <3>1. PICK i \in 1 .. Len(m.queue["entry"]) :
               /\ m.queue["entry"][i].name = n /\ m.queue["entry"][i].version = tb[n]
               /\ m.queue["entry"][i].only \in {Nobody, r}
      BY <2>1
    <3>2. CASE k # "entry"
      BY <1>10, <1>20, <3>1, <3>2 DEF Due
    <3>3. CASE k = "entry" /\ i = 1
      BY <1>2, <1>3, <1>7, <1>9, <3>1, <3>3
    <3>4. CASE k = "entry" /\ i # 1
      <4>1. i - 1 \in 1 .. Len(q) /\ (i - 1) + 1 = i
        BY <1>3, <1>4, <1>5, <3>4
      <4>2. q[i - 1] = o[i]
        BY <1>6, <4>1
      <4>3. i - 1 \in 1 .. Len(m2.queue["entry"]) /\ m2.queue["entry"][i - 1] = m.queue["entry"][i]
        BY <1>3, <1>10, <3>4, <4>1, <4>2
      <4> QED BY <3>1, <4>3 DEF Due
    <3> QED BY <3>2, <3>3, <3>4
  <2>2. CASE h[n] = tb[n]
    BY <2>2 DEF Due
  <2> QED BY <1>21, <2>1, <2>2 DEF Due
<1>22. \E i \in 1 .. Len(m.queue[m.kind]) : m2.item = m.queue[m.kind][i]
  BY <1>2, <1>3, <1>4, <1>7, <1>9
<1>23. m2.item = Head(m.queue[m.kind])
  BY <1>2, <1>3, <1>4, <1>7, <1>9
<1>25. m2.pc = "take" /\ m2.slots = m.slots /\ m2.kind = m.kind
  BY <1>9
<1>26. \A r \in Regs : Reaches(m2, r) => Reaches(m, r)
  BY <1>18
<1>27. \A h : Behind(m, h) => Behind(m2, h) /\ h[m2.item.name] <= m2.item.version
  BY <1>19
<1>28. \A h, j, r, n : Due(m, h, tb, j, r, n) =>
         \/ Due(m2, h, tb, j, r, n)
         \/ /\ m2.kind = "entry" /\ m2.item.name = n /\ m2.item.version = tb[n]
            /\ m2.item.only \in {Nobody, r}
  BY <1>21
<1> QED BY <1>16, <1>17, <1>22, <1>23, <1>24, <1>25, <1>26, <1>27, <1>28 DEF Pops

\* A set of places has a first one, and CHOOSE picks it.
LEMMA FirstOf ==
  ASSUME NEW T \in SUBSET Nat, T # {}
  PROVE  \E j : /\ j = (CHOOSE i \in T : \A l \in T : i <= l)
                /\ j \in T /\ \A l \in T : j <= l
<1>1. PICK m \in T : \A y \in T : ~ (<<y, m>> \in OpToRel(<, Nat))
  BY NatLessThanWellFounded, WFMin
<1>2. \A l \in T : m <= l
  <2> SUFFICES ASSUME NEW l \in T PROVE m <= l
    OBVIOUS
  <2>1. l \in Nat /\ m \in Nat
    OBVIOUS
  <2>2. ~ (l < m)
    BY <1>1, <2>1 DEF OpToRel
  <2> QED BY <2>1, <2>2
<1> QED BY <1>2

\* Listeners after place i that are to hear of the item will.
MatchersDue(m, m2, tb, i) ==
  \A h : \A j \in DOMAIN m.slots["entry"] :
    /\ j > i /\ m.kind = "entry" /\ m.item.version = tb[m.item.name]
    /\ m.slots["entry"][j] # Nobody
    /\ Matches("entry", specOf[m.slots["entry"][j]], m.item)
    => Due(m2, h, tb, j, m.slots["entry"][j], m.item.name)

\* What is due is still, except for the item that was under way.
OthersDue(m, m2, tb) ==
  \A h, j, r, n : Due(m, h, tb, j, r, n) =>
    \/ Due(m2, h, tb, j, r, n)
    \/ m.pc = "calling" /\ m.item.name = n /\ m.item.version = tb[n] /\ (m.calls = r \/ j > m.at)

\* The thread goes on to the next listener that is to hear of its item.
LEMMA RecordScans ==
  ASSUME NEW rs \in Nat, NEW tb, NEW m, ThreadOK(m, rs, tb), ItemHeld(m, rs, tb), m.item.only = Nobody,
         m.pc \in {"take", "calling"}, NEW i \in Nat,
         NEW m2, m2 = Scan(m, i)
  PROVE  /\ ThreadOK(m2, rs, tb)
         /\ m2.slots = m.slots /\ m2.queue = m.queue /\ m2.pc \in {"take", "calling"}
         /\ \A r \in Regs : Reaches(m2, r) => Reaches(m, r)
         /\ \A h : Behind(m, h) /\ h[m.item.name] <= m.item.version => Behind(m2, h)
         /\ MatchersDue(m, m2, tb, i)
         /\ OthersDue(m, m2, tb)
<1>1. m \in ThreadRec
  BY DEF ThreadOK
<1>2. PICK k \in Kinds : k = m.kind
  BY <1>1, ThreadFields
<1>3. PICK s \in Seq(Nat) : s = m.slots[k]
  BY <1>1, <1>2, ThreadFields
<1>4. /\ s \in Seq(0 .. rs) /\ DOMAIN s = 1 .. Len(s) /\ Len(s) \in Nat
      /\ \A j \in 1 .. Len(s) : s[j] \in 0 .. rs
  BY <1>3, LenProperties, ElementOfSeq DEF ThreadOK
<1>5. PICK x : x = m.item
  OBVIOUS
<1>6. PICK T : T = NextListener(m, m.item, i)
  OBVIOUS
<1>7. T = {j \in 1 .. Len(s) : j > i /\ s[j] # Nobody /\ Matches(k, specOf[s[j]], x)}
  BY <1>2, <1>3, <1>4, <1>5, <1>6 DEF NextListener
<1>8. T \in SUBSET Nat
  BY <1>7
<1>9. PICK b \in BOOLEAN : b <=> T = {}
  OBVIOUS
<1>10. PICK j : /\ j = (CHOOSE c \in T : \A l \in T : c <= l)
                /\ ~b => j \in T /\ \A l \in T : j <= l
  BY <1>8, <1>9, FirstOf
<1>11. m2 = IF b THEN [m EXCEPT !.pc = "take", !.calls = Nobody, !.item = <<>>]
             ELSE [m EXCEPT !.pc = "calling", !.at = j, !.calls = s[j]]
  BY <1>2, <1>3, <1>6, <1>9, <1>10 DEF Scan
<1>13. ~b => j \in 1 .. Len(s) /\ j \in Nat /\ s[j] \in 1 .. rs /\ s[j] \in Nat /\ j > i
  BY SMTT(30), <1>4, <1>7, <1>10 DEF Nobody
<1>14. /\ m2.slots = m.slots /\ m2.queue = m.queue /\ m2.free = m.free /\ m2.kind = m.kind
       /\ m2.pc = IF b THEN "take" ELSE "calling"
       /\ ~b => m2.item = x /\ m2.calls = s[j] /\ m2.at = j
  BY <1>1, <1>5, <1>11 DEF ThreadRec
<1>15. m2 \in ThreadRec
  <2>1. CASE b
    <3>1. m2 = [m EXCEPT !.pc = "take", !.calls = Nobody, !.item = <<>>]
      BY <1>11, <2>1
    <3>2. "take" \in ThreadPlaces /\ Nobody \in Nat
      BY DEF ThreadPlaces, Nobody
    <3> QED BY <1>1, <3>1, <3>2 DEF ThreadRec
  <2>2. CASE ~b
    <3>1. m2 = [m EXCEPT !.pc = "calling", !.at = j, !.calls = s[j]]
      BY <1>11, <2>2
    <3>2. "calling" \in ThreadPlaces /\ j \in Nat /\ s[j] \in Nat
      BY <1>13, <2>2 DEF ThreadPlaces
    <3> QED BY <1>1, <3>1, <3>2 DEF ThreadRec
  <2> QED BY <2>1, <2>2
<1>16. ThreadOK(m2, rs, tb)
  <2>1. FreeExact(m2) /\ QueueGood(m2, rs, tb) /\ QueueSorted(m2)
    BY <1>14 DEF ThreadOK, FreeExact, QueueGood, QueueSorted
  <2>2. \A c \in Kinds : m2.slots[c] \in Seq(0 .. rs)
    BY <1>14 DEF ThreadOK
  <2>3. SleepsIdle(m2) /\ WaitsWoken(m2)
    BY <1>14 DEF SleepsIdle, WaitsWoken
  <2>4. ItemGood(m2, rs, tb)
    <3>1. CASE b
      BY <1>14, <3>1 DEF ItemGood
    <3>2. CASE ~b
      <4>1. m2.calls \in 1 .. rs /\ m2.item = m.item /\ m2.item.only = Nobody
        BY <1>5, <1>13, <1>14, <3>2
      <4> QED BY <1>14, <4>1 DEF ItemGood, ItemHeld
    <3> QED BY <3>1, <3>2
  <2> QED BY <1>15, <2>1, <2>2, <2>3, <2>4 DEF ThreadOK
<1>17. ASSUME NEW r \in Regs, Reaches(m2, r) PROVE Reaches(m, r)
  <2>1. CASE m2.pc = "calling" /\ m2.calls = r
    <3>1. j \in DOMAIN m.slots[k] /\ m.slots[k][j] = r
      BY <1>3, <1>4, <1>13, <1>14, <2>1
    <3> QED BY <3>1 DEF Reaches
  <2>2. CASE ~(m2.pc = "calling" /\ m2.calls = r)
    BY <1>14, <1>17, <2>2 DEF Reaches
  <2> QED BY <2>1, <2>2
<1>18. ASSUME NEW h, Behind(m, h), h[m.item.name] <= m.item.version PROVE Behind(m2, h)
  BY <1>5, <1>14, <1>18 DEF Behind
<1>19. ASSUME NEW h, NEW l \in DOMAIN m.slots["entry"],
              l > i, m.kind = "entry", m.item.version = tb[m.item.name], m.slots["entry"][l] # Nobody,
              Matches("entry", specOf[m.slots["entry"][l]], m.item)
       PROVE  Due(m2, h, tb, l, m.slots["entry"][l], m.item.name)
  <2>1. l \in T
    BY <1>2, <1>3, <1>4, <1>5, <1>7, <1>19
  <2>2. ~b /\ j <= l /\ j \in Nat /\ l \in Nat
    BY <1>8, <1>9, <1>10, <2>1
  <2>3. m2.pc = "calling" /\ m2.item = m.item /\ m2.at = j /\ m2.calls = s[j] /\ m2.item.only = Nobody
    BY <1>5, <1>14, <2>2
  <2>4. m2.calls = m.slots["entry"][l] \/ l > m2.at
    <3>1. CASE l = j
      BY <1>2, <1>3, <1>19, <2>3, <3>1
    <3>2. CASE l # j
      BY <2>2, <2>3, <3>2
    <3> QED BY <3>1, <3>2
  <2> QED BY <1>19, <2>3, <2>4 DEF Due
<1>20. ASSUME NEW h, NEW l, NEW r, NEW n, Due(m, h, tb, l, r, n)
       PROVE  \/ Due(m2, h, tb, l, r, n)
              \/ m.pc = "calling" /\ m.item.name = n /\ m.item.version = tb[n] /\ (m.calls = r \/ l > m.at)
  BY <1>14, <1>20 DEF Due
<1>21. \A r \in Regs : Reaches(m2, r) => Reaches(m, r)
  BY <1>17
<1>22. \A h : Behind(m, h) /\ h[m.item.name] <= m.item.version => Behind(m2, h)
  BY <1>18
<1>23. MatchersDue(m, m2, tb, i)
  BY <1>19 DEF MatchersDue
<1>24. OthersDue(m, m2, tb)
  BY <1>20 DEF OthersDue
<1>25. m2.slots = m.slots /\ m2.queue = m.queue /\ m2.pc \in {"take", "calling"}
  BY <1>14
<1> QED BY <1>16, <1>21, <1>22, <1>23, <1>24, <1>25

\* The list of listeners of one kind and its free places are changed.
Relisted(m, k, s, f) == [m EXCEPT !.slots[k] = s, !.free[k] = f]
Vacant(s) == {i \in DOMAIN s : s[i] = Nobody}
Listed(s, r) == \E i \in DOMAIN s : s[i] = r
OnlyList(m, m2, k, s) == m2.slots[k] = s /\ \A c \in Kinds : c # k => m2.slots[c] = m.slots[c]

\* A list of listeners is replaced by one that has no others.
LEMMA RecordRelisted ==
  ASSUME NEW rs \in Nat, NEW rs2 \in Nat, rs <= rs2, NEW tb \in [Names -> Nat],
         NEW m, ThreadOK(m, rs, tb), NEW k \in Kinds, NEW s \in Seq(0 .. rs2), NEW f \in Seq(Nat),
         IsInjective(f), ToSet(f) = Vacant(s),
         NEW m2, m2 = Relisted(m, k, s, f)
  PROVE  /\ ThreadOK(m2, rs2, tb)
         /\ OnlyList(m, m2, k, s)
         /\ \A r \in Regs : Reaches(m2, r) => Reaches(m, r) \/ Listed(s, r)
         /\ \A h : Behind(m, h) => Behind(m2, h)
         /\ \A h, j, r, n : Due(m, h, tb, j, r, n) => Due(m2, h, tb, j, r, n)
<1>1. ThreadOK(m, rs2, tb)
  <2>1. \A n \in Names : tb[n] <= tb[n]
    OBVIOUS
  <2> QED BY <2>1, RecordGrows
<1>2. m \in ThreadRec
  BY DEF ThreadOK
<1>4. /\ m2.pc = m.pc /\ m2.kind = m.kind /\ m2.at = m.at /\ m2.calls = m.calls /\ m2.item = m.item
      /\ m2.queue = m.queue /\ m2.active = m.active /\ m2.woken = m.woken
      /\ m2.slots = [m.slots EXCEPT ![k] = s] /\ m2.free = [m.free EXCEPT ![k] = f]
  BY <1>2 DEF ThreadRec, Relisted
<1>5. /\ m2.slots[k] = s /\ \A c \in Kinds : c # k => m2.slots[c] = m.slots[c]
      /\ m2.free[k] = f /\ \A c \in Kinds : c # k => m2.free[c] = m.free[c]
  BY <1>2, <1>4, ThreadFields
<1>6. s \in Seq(Nat)
  <2>1. 0 .. rs2 \subseteq Nat
    OBVIOUS
  <2> QED BY <2>1, SeqMonotonic
<1>7. m2.slots \in [Kinds -> Seq(Nat)] /\ m2.free \in [Kinds -> Seq(Nat)]
  BY <1>2, <1>4, <1>6, ThreadFields
<1>8. m2 \in ThreadRec
  <2>1. m2 = [m EXCEPT !.slots = m2.slots, !.free = m2.free]
    BY <1>2, <1>4 DEF ThreadRec, Relisted
  <2> QED BY <1>2, <1>7, <2>1 DEF ThreadRec
<1>9. ThreadOK(m2, rs2, tb)
  <2>1. FreeExact(m2)
    <3> SUFFICES ASSUME NEW c \in Kinds
                 PROVE  /\ IsInjective(m2.free[c])
                        /\ ToSet(m2.free[c]) = {i \in DOMAIN m2.slots[c] : m2.slots[c][i] = Nobody}
      BY DEF FreeExact
    <3>1. CASE c = k
      BY <1>5, <3>1 DEF Vacant
    <3>2. CASE c # k
      <4>1. m2.free[c] = m.free[c] /\ m2.slots[c] = m.slots[c]
        BY <1>5, <3>2
      <4>2. FreeExact(m)
        BY DEF ThreadOK
      <4> QED BY <4>1, <4>2 DEF FreeExact
    <3> QED BY <3>1, <3>2
  <2>2. QueueGood(m2, rs2, tb) /\ QueueSorted(m2) /\ ItemGood(m2, rs2, tb)
    BY <1>1, <1>4 DEF ThreadOK, QueueGood, QueueSorted, ItemGood
  <2>3. SleepsIdle(m2) /\ WaitsWoken(m2)
    BY <1>1, <1>4 DEF ThreadOK, SleepsIdle, WaitsWoken, Idle
  <2>4. \A c \in Kinds : m2.slots[c] \in Seq(0 .. rs2)
    BY <1>1, <1>5 DEF ThreadOK
  <2> QED BY <1>8, <2>1, <2>2, <2>3, <2>4 DEF ThreadOK
<1>10. ASSUME NEW r \in Regs, Reaches(m2, r) PROVE Reaches(m, r) \/ Listed(s, r)
  <2>1. CASE \E c \in Kinds : \E i \in DOMAIN m2.slots[c] : m2.slots[c][i] = r
    <3>1. PICK c \in Kinds : \E i \in DOMAIN m2.slots[c] : m2.slots[c][i] = r
      BY <2>1
    <3>2. CASE c = k
      BY <1>5, <3>1, <3>2 DEF Listed
    <3>3. CASE c # k
      <4>1. m2.slots[c] = m.slots[c]
        BY <1>5, <3>3
      <4> QED BY <3>1, <4>1 DEF Reaches
    <3> QED BY <3>2, <3>3
  <2>2. CASE ~ \E c \in Kinds : \E i \in DOMAIN m2.slots[c] : m2.slots[c][i] = r
    BY <1>4, <1>10, <2>2 DEF Reaches
  <2> QED BY <2>1, <2>2
<1>11. \A h : Behind(m, h) => Behind(m2, h)
  BY <1>4 DEF Behind
<1>12. \A h, j, r, n : Due(m, h, tb, j, r, n) => Due(m2, h, tb, j, r, n)
  BY <1>4 DEF Due
<1>13. OnlyList(m, m2, k, s)
  BY <1>5 DEF OnlyList
<1> QED BY <1>9, <1>10, <1>11, <1>12, <1>13

\* A listener is added to a thread: nobody else has its number.
LEMMA RecordPlaces ==
  ASSUME NEW rs \in Nat, NEW tb \in [Names -> Nat], NEW m, ThreadOK(m, rs, tb), NEW k \in Kinds
  PROVE  \E m2 :
         /\ m2 = EmplaceBack(m, k, rs + 1) /\ ThreadOK(m2, rs + 1, tb)
         /\ \A c \in Kinds : c # k => m2.slots[c] = m.slots[c]
         /\ \A i \in DOMAIN m2.slots[k] :
              m2.slots[k][i] = rs + 1 \/ (i \in DOMAIN m.slots[k] /\ m2.slots[k][i] = m.slots[k][i])
         /\ \A r \in Regs : Reaches(m2, r) => Reaches(m, r) \/ r = rs + 1
         /\ \A h : Behind(m, h) => Behind(m2, h)
         /\ \A h, j, r, n : Due(m, h, tb, j, r, n) => Due(m2, h, tb, j, r, n)
<1>1. m \in ThreadRec
  BY DEF ThreadOK
<1>2. PICK s \in Seq(0 .. rs) : s = m.slots[k]
  BY DEF ThreadOK
<1>3. PICK f \in Seq(Nat) : f = m.free[k]
  BY <1>1, ThreadFields
<1>4. IsInjective(f) /\ ToSet(f) = Vacant(s)
  BY <1>2, <1>3 DEF ThreadOK, FreeExact, Vacant
<1>5. PICK a \in Nat : a = rs + 1
  OBVIOUS
<1>6. 0 .. rs \subseteq 0 .. a /\ a \in 0 .. a /\ a # Nobody /\ rs <= a
  BY <1>5 DEF Nobody
<1>7. s \in Seq(0 .. a)
  BY <1>6, SeqMonotonic
<1>8. Len(s) \in Nat /\ DOMAIN s = 1 .. Len(s) /\ Len(f) \in Nat /\ DOMAIN f = 1 .. Len(f)
  BY LenProperties
<1>9. \E s2 \in Seq(0 .. a), f2 \in Seq(Nat) :
        /\ EmplaceBack(m, k, a) = Relisted(m, k, s2, f2)
        /\ IsInjective(f2) /\ ToSet(f2) = Vacant(s2)
        /\ \A i \in DOMAIN s2 : s2[i] = a \/ (i \in DOMAIN s /\ s2[i] = s[i])
  <2>1. CASE f = <<>>
    <3>1. PICK s2 : s2 = Append(s, a)
      OBVIOUS
    <3>2. /\ s2 \in Seq(0 .. a) /\ Len(s2) = Len(s) + 1 /\ DOMAIN s2 = 1 .. Len(s) + 1
          /\ s2[Len(s) + 1] = a /\ \A i \in 1 .. Len(s) : s2[i] = s[i]
      BY <1>6, <1>7, <1>8, <3>1
    <3>3. EmplaceBack(m, k, a) = Relisted(m, k, s2, f)
      BY <1>1, <1>2, <1>3, <2>1, <3>1 DEF EmplaceBack, Relisted, ThreadRec
    <3>4. ToSet(f) = {}
      BY <1>8, <2>1, EmptySeq DEF ToSet
    <3>5. \A i \in DOMAIN s2 : s2[i] = a \/ (i \in DOMAIN s /\ s2[i] = s[i])
      BY <1>8, <3>2
    <3>6. Vacant(s2) = {}
      BY <1>4, <1>6, <3>4, <3>5 DEF Vacant
    <3> QED BY <1>4, <3>2, <3>3, <3>4, <3>5, <3>6
  <2>2. CASE f # <<>>
    <3>1. PICK p : p = f[Len(f)]
      OBVIOUS
    <3>2. Len(f) > 0 /\ Len(f) \in 1 .. Len(f) /\ Len(f) - 1 \in Nat
      BY <1>8, <2>2, EmptySeq
    <3>3. p \in ToSet(f)
      BY <1>8, <3>1, <3>2 DEF ToSet
    <3>4. p \in 1 .. Len(s) /\ s[p] = Nobody
      BY <1>4, <1>8, <3>3 DEF Vacant
    <3>5. PICK s2 : s2 = [s EXCEPT ![p] = a]
      OBVIOUS
    <3>6. s2 \in Seq(0 .. a) /\ DOMAIN s2 = DOMAIN s /\ \A i \in DOMAIN s : s2[i] = IF i = p THEN a ELSE s[i]
      BY <1>6, <1>7, <1>8, <3>4, <3>5, ExceptSeq, LenProperties
    <3>7. PICK f2 : f2 = SubSeq(f, 1, Len(f) - 1)
      OBVIOUS
    <3>8. /\ f2 \in Seq(Nat) /\ DOMAIN f2 = 1 .. Len(f) - 1
          /\ \A i \in 1 .. Len(f) - 1 : f2[i] = f[i]
      <4>1. \A i \in 1 .. Len(f) - 1 : f[i] \in Nat
        BY <1>8, ElementOfSeq
      <4> QED BY <1>8, <3>2, <3>7, <4>1, SubSeqProperties, LenProperties
    <3>9. EmplaceBack(m, k, a) = Relisted(m, k, s2, f2)
      BY <1>1, <1>2, <1>3, <2>2, <3>1, <3>5, <3>7 DEF EmplaceBack, Relisted, ThreadRec, Last, Front
    <3>10. IsInjective(f2)
      <4> SUFFICES ASSUME NEW i \in DOMAIN f2, NEW j \in DOMAIN f2, f2[i] = f2[j] PROVE i = j
        BY DEF IsInjective
      <4>0. i \in 1 .. Len(f) - 1 /\ j \in 1 .. Len(f) - 1
        BY <3>8
      <4>1. i \in DOMAIN f /\ j \in DOMAIN f /\ f[i] = f[j]
        <5>1. i \in 1 .. Len(f) /\ j \in 1 .. Len(f)
          BY <1>8, <4>0
        <5>2. f2[i] = f[i] /\ f2[j] = f[j]
          BY <3>8, <4>0
        <5> QED BY <1>8, <5>1, <5>2
      <4> QED BY <1>4, <4>1 DEF IsInjective
    <3>11. ToSet(f2) = ToSet(f) \ {p}
      <4>1. ASSUME NEW y \in ToSet(f2) PROVE y \in ToSet(f) \ {p}
        <5>1. PICK i \in DOMAIN f2 : y = f2[i]
          BY <4>1 DEF ToSet
        <5>0. i \in 1 .. Len(f) - 1
          BY <3>8
        <5>2. i \in DOMAIN f /\ y = f[i] /\ i # Len(f) /\ Len(f) \in DOMAIN f
          <6>1. i \in 1 .. Len(f) /\ i # Len(f)
            BY <1>8, <5>0
          <6>2. f2[i] = f[i]
            BY <3>8, <5>0
          <6> QED BY <1>8, <3>2, <5>1, <6>1, <6>2
        <5> QED BY <1>4, <3>1, <5>2 DEF IsInjective, ToSet
      <4>2. ASSUME NEW y \in ToSet(f) \ {p} PROVE y \in ToSet(f2)
        <5>1. PICK i \in DOMAIN f : y = f[i]
          BY <4>2 DEF ToSet
        <5>2. i # Len(f)
          BY <3>1, <4>2, <5>1
        <5>3. i \in DOMAIN f2 /\ y = f2[i]
          BY <1>8, <3>2, <3>8, <5>1, <5>2
        <5> QED BY <5>3 DEF ToSet
      <4> QED BY <4>1, <4>2
    <3>12. ToSet(f2) = Vacant(s2)
      BY <1>4, <1>6, <3>6, <3>11 DEF Vacant
    <3> QED BY <3>6, <3>8, <3>9, <3>10, <3>12
  <2> QED BY <2>1, <2>2
<1>10. PICK s2 \in Seq(0 .. a), f2 \in Seq(Nat) :
        /\ EmplaceBack(m, k, a) = Relisted(m, k, s2, f2)
        /\ IsInjective(f2) /\ ToSet(f2) = Vacant(s2)
        /\ \A i \in DOMAIN s2 : s2[i] = a \/ (i \in DOMAIN s /\ s2[i] = s[i])
  BY <1>9
<1>13. PICK m2 : m2 = Relisted(m, k, s2, f2)
  OBVIOUS
<1>11.
         /\ ThreadOK(m2, a, tb)
         /\ OnlyList(m, m2, k, s2)
         /\ \A r \in Regs : Reaches(m2, r) => Reaches(m, r) \/ Listed(s2, r)
         /\ \A h : Behind(m, h) => Behind(m2, h)
         /\ \A h, j, r, n : Due(m, h, tb, j, r, n) => Due(m2, h, tb, j, r, n)
  <2>1. rs <= a /\ a \in Nat /\ rs \in Nat /\ s2 \in Seq(0 .. a) /\ f2 \in Seq(Nat)
    BY <1>6
  <2>2. IsInjective(f2) /\ ToSet(f2) = Vacant(s2)
    BY <1>10
  <2>3. ThreadOK(m, rs, tb) /\ k \in Kinds /\ tb \in [Names -> Nat] /\ m2 = Relisted(m, k, s2, f2)
    BY <1>13
  <2>4. ThreadOK(m2, a, tb)
    BY <2>1, <2>2, <2>3, RecordRelisted
  <2>5. OnlyList(m, m2, k, s2)
    BY <2>1, <2>2, <2>3, RecordRelisted
  <2>6. \A r \in Regs : Reaches(m2, r) => Reaches(m, r) \/ Listed(s2, r)
    BY <2>1, <2>2, <2>3, RecordRelisted
  <2>7. \A h : Behind(m, h) => Behind(m2, h)
    BY <2>1, <2>2, <2>3, RecordRelisted
  <2>8. \A h, j, r, n : Due(m, h, tb, j, r, n) => Due(m2, h, tb, j, r, n)
    BY <2>1, <2>2, <2>3, RecordRelisted
  <2> QED BY <2>4, <2>5, <2>6, <2>7, <2>8
<1>12. ASSUME NEW r \in Regs, Reaches(m2, r) PROVE Reaches(m, r) \/ r = rs + 1
  <2>1. CASE Listed(s2, r)
    BY <1>2, <1>5, <1>10, <2>1 DEF Reaches, Listed
  <2> QED BY <1>11, <1>12, <2>1
<1> QED BY <1>2, <1>5, <1>10, <1>11, <1>12, <1>13 DEF OnlyList

\* A listener is removed, or nothing is.
LEMMA RecordErases ==
  ASSUME NEW rs \in Nat, NEW tb \in [Names -> Nat], NEW m, ThreadOK(m, rs, tb), NEW k \in Kinds,
         NEW uid \in Regs
  PROVE  \E m2 :
         /\ m2 = EraseUid(m, k, uid) /\ ThreadOK(m2, rs, tb)
         /\ \A c \in Kinds : \A i \in DOMAIN m2.slots[c] :
              m2.slots[c][i] # Nobody => i \in DOMAIN m.slots[c] /\ m2.slots[c][i] = m.slots[c][i]
         /\ \A r \in Regs : Reaches(m2, r) => Reaches(m, r)
         /\ \A h : Behind(m, h) => Behind(m2, h)
         /\ \A h, j, r, n : Due(m, h, tb, j, r, n) => Due(m2, h, tb, j, r, n)
<1>1. m \in ThreadRec
  BY DEF ThreadOK
<1>2. PICK s \in Seq(0 .. rs) : s = m.slots[k]
  BY DEF ThreadOK
<1>3. PICK f \in Seq(Nat) : f = m.free[k]
  BY <1>1, ThreadFields
<1>4. IsInjective(f) /\ ToSet(f) = Vacant(s)
  BY <1>2, <1>3 DEF ThreadOK, FreeExact, Vacant
<1>5. Len(s) \in Nat /\ DOMAIN s = 1 .. Len(s) /\ Len(f) \in Nat /\ DOMAIN f = 1 .. Len(f)
  BY LenProperties
<1>6. uid \in Nat \ {0}
  BY NotifierAssumption DEF Regs
<1>7. CASE uid > Len(s) \/ s[uid] = Nobody
  <2>1. m = EraseUid(m, k, uid)
    BY <1>2, <1>7 DEF EraseUid
  <2> QED BY <2>1
<1>8. CASE ~(uid > Len(s) \/ s[uid] = Nobody)
  <2>1. uid \in 1 .. Len(s) /\ s[uid] # Nobody
    BY <1>5, <1>6, <1>8
  <2>2. PICK s2 : s2 = [s EXCEPT ![uid] = Nobody]
    OBVIOUS
  <2>3. Nobody \in 0 .. rs
    BY DEF Nobody
  <2>4. s2 \in Seq(0 .. rs) /\ DOMAIN s2 = DOMAIN s /\ \A i \in DOMAIN s : s2[i] = IF i = uid THEN Nobody ELSE s[i]
    BY <1>5, <2>1, <2>2, <2>3, ExceptSeq, LenProperties
  <2>5. PICK f2 : f2 = Append(f, uid)
    OBVIOUS
  <2>6. /\ f2 \in Seq(Nat) /\ DOMAIN f2 = 1 .. Len(f) + 1
        /\ f2[Len(f) + 1] = uid /\ \A i \in 1 .. Len(f) : f2[i] = f[i]
    BY <1>5, <1>6, <2>5
  <2>7. EraseUid(m, k, uid) = Relisted(m, k, s2, f2)
    BY <1>1, <1>2, <1>3, <1>8, <2>2, <2>5 DEF EraseUid, Relisted, ThreadRec
  <2>8. uid \notin ToSet(f)
    BY <1>4, <2>1 DEF Vacant
  <2>9. IsInjective(f2)
    <3> SUFFICES ASSUME NEW i \in DOMAIN f2, NEW j \in DOMAIN f2, f2[i] = f2[j] PROVE i = j
      BY DEF IsInjective
    <3>1. CASE i \in DOMAIN f /\ j \in DOMAIN f
      BY <1>4, <1>5, <2>6, <3>1 DEF IsInjective
    <3>2. CASE i \notin DOMAIN f /\ j \notin DOMAIN f
      BY <1>5, <2>6, <3>2
    <3>3. CASE i \in DOMAIN f /\ j \notin DOMAIN f
      BY <1>5, <2>6, <2>8, <3>3 DEF ToSet
    <3>4. CASE i \notin DOMAIN f /\ j \in DOMAIN f
      BY <1>5, <2>6, <2>8, <3>4 DEF ToSet
    <3> QED BY <3>1, <3>2, <3>3, <3>4
  <2>10. ToSet(f2) = ToSet(f) \cup {uid}
    <3>1. ASSUME NEW y \in ToSet(f2) PROVE y \in ToSet(f) \cup {uid}
      <4>1. PICK i \in DOMAIN f2 : y = f2[i]
        BY <3>1 DEF ToSet
      <4>2. i \in DOMAIN f \/ i = Len(f) + 1
        BY <1>5, <2>6
      <4> QED BY <1>5, <2>6, <4>1, <4>2 DEF ToSet
    <3>2. ASSUME NEW y \in ToSet(f) PROVE y \in ToSet(f2)
      BY <1>5, <2>6 DEF ToSet
    <3>3. uid \in ToSet(f2)
      <4>1. Len(f) + 1 \in DOMAIN f2
        BY <1>5, <2>6
      <4> QED BY <2>6, <4>1 DEF ToSet
    <3> QED BY <3>1, <3>2, <3>3
  <2>11. ToSet(f2) = Vacant(s2)
    BY <1>4, <1>5, <2>1, <2>4, <2>10 DEF Vacant
  <2>15. PICK m2 : m2 = Relisted(m, k, s2, f2)
    OBVIOUS
  <2>12.
         /\ ThreadOK(m2, rs, tb)
         /\ OnlyList(m, m2, k, s2)
         /\ \A r \in Regs : Reaches(m2, r) => Reaches(m, r) \/ Listed(s2, r)
         /\ \A h : Behind(m, h) => Behind(m2, h)
         /\ \A h, j, r, n : Due(m, h, tb, j, r, n) => Due(m2, h, tb, j, r, n)
    <3>1. rs <= rs
      OBVIOUS
    <3>2. ThreadOK(m2, rs, tb)
      BY <2>4, <2>6, <2>9, <2>11, <2>15, <3>1, RecordRelisted
    <3>3. OnlyList(m, m2, k, s2)
      BY <2>4, <2>6, <2>9, <2>11, <2>15, <3>1, RecordRelisted
    <3>4. \A r \in Regs : Reaches(m2, r) => Reaches(m, r) \/ Listed(s2, r)
      BY <2>4, <2>6, <2>9, <2>11, <2>15, <3>1, RecordRelisted
    <3>5. \A h : Behind(m, h) => Behind(m2, h)
      BY <2>4, <2>6, <2>9, <2>11, <2>15, <3>1, RecordRelisted
    <3>6. \A h, j, r, n : Due(m, h, tb, j, r, n) => Due(m2, h, tb, j, r, n)
      BY <2>4, <2>6, <2>9, <2>11, <2>15, <3>1, RecordRelisted
    <3> QED BY <3>2, <3>3, <3>4, <3>5, <3>6
  <2>13. \A c \in Kinds : \A i \in DOMAIN m2.slots[c] :
              m2.slots[c][i] # Nobody => i \in DOMAIN m.slots[c] /\ m2.slots[c][i] = m.slots[c][i]
    <3> SUFFICES ASSUME NEW c \in Kinds, NEW i \in DOMAIN m2.slots[c], m2.slots[c][i] # Nobody
                 PROVE  i \in DOMAIN m.slots[c] /\ m2.slots[c][i] = m.slots[c][i]
      OBVIOUS
    <3>1. CASE c = k
      BY <1>2, <2>4, <2>12, <3>1 DEF OnlyList
    <3>2. CASE c # k
      BY <2>12, <3>2 DEF OnlyList
    <3> QED BY <3>1, <3>2
  <2>14. ASSUME NEW r \in Regs, Reaches(m2, r) PROVE Reaches(m, r)
    <3>1. r # Nobody
      BY NotifierAssumption DEF Regs, Nobody
    <3>2. CASE Listed(s2, r)
      BY <1>2, <2>4, <3>1, <3>2 DEF Reaches, Listed
    <3> QED BY <2>12, <2>14, <3>2
  <2> QED BY <2>7, <2>12, <2>13, <2>14, <2>15
<1> QED BY <1>7, <1>8

(***************************************************************************)
(* The sequence that is made of a set has every element of it.             *)
(***************************************************************************)

\* A finite set, put in some order, has just its elements.
LEMMA SeqOfSet ==
  ASSUME NEW S, IsFiniteSet(S)
  PROVE  /\ SetToSeq(S) \in Seq(S)
         /\ \A i \in 1 .. Len(SetToSeq(S)) : SetToSeq(S)[i] \in S
         /\ \A x \in S : \E i \in 1 .. Len(SetToSeq(S)) : SetToSeq(S)[i] = x
<1>1. PICK c \in Nat : c = Cardinality(S)
  BY FS_CardinalityType
<1>2. ExistsBijection(1 .. c, S)
  BY <1>1, FS_CardinalityType
<1>3. \E f \in [1 .. c -> S] : IsInjective(f)
  BY <1>2 DEF ExistsBijection, Bijection, Injection, IsInjective
<1>4. PICK f \in [1 .. c -> S] : IsInjective(f) /\ f = SetToSeq(S)
  BY <1>1, <1>3 DEF SetToSeq
<1>5. f \in Injection(1 .. c, S)
  BY <1>4 DEF Injection, IsInjective
<1>6. Cardinality(1 .. c) = c
  <2>1. 1 \in Int /\ c \in Int /\ (IF 1 > c THEN 0 ELSE c - 1 + 1) = c
    OBVIOUS
  <2> QED BY <2>1, FS_Interval
<1>7. f \in Surjection(1 .. c, S)
  BY <1>1, <1>5, <1>6, FS_Injection
<1>8. f \in Seq(S) /\ Len(f) = c
  BY <1>4
<1> QED BY <1>4, <1>7, <1>8 DEF Surjection

(***************************************************************************)
(* Steps.                                                                  *)
(***************************************************************************)

\* What most of the proofs below need to know of a sound state.
LEMMA NotifierKnown ==
  ASSUME NotifierInv
  PROVE  /\ MaxChanges \in Nat /\ MaxRegs \in Nat /\ MaxThreads \in Nat
         /\ started \in Nat /\ started <= MaxThreads /\ owner \in 0 .. started /\ stopping \in 0 .. started
         /\ regs \in Nat /\ regs <= MaxRegs /\ changes \in Nat /\ changes <= MaxChanges
         /\ Nobody \notin Regs /\ Nobody \notin Threads /\ (owner # Nobody => owner \in Threads)
         /\ table \in [Names -> Nat] /\ table \in [Names -> 0 .. changes]
         /\ heard \in [Regs -> [Names -> Nat]] /\ Keys \subseteq Names /\ Link \in Names
         /\ \A t \in Threads : ThreadOK(thread[t], regs, table) /\ thread[t] \in ThreadRec
<1>1. MaxChanges \in Nat /\ MaxRegs \in Nat /\ MaxThreads \in Nat
  BY NotifierAssumption
<1>2. /\ started \in Nat /\ started <= MaxThreads /\ owner \in 0 .. started /\ stopping \in 0 .. started
      /\ regs \in Nat /\ regs <= MaxRegs /\ changes \in Nat /\ changes <= MaxChanges
      /\ table \in [Names -> 0 .. changes] /\ heard \in [Regs -> [Names -> Nat]]
  BY <1>1 DEF NotifierInv, NotifierTypes
<1>3. Nobody \notin Regs /\ Nobody \notin Threads /\ (owner # Nobody => owner \in Threads)
  BY <1>1, <1>2 DEF Nobody, Regs, Threads
<1>4. table \in [Names -> Nat]
  BY <1>2
<1>5. Keys \subseteq Names /\ Link \in Names
  BY DEF Names
<1>6. \A t \in Threads : ThreadOK(thread[t], regs, table) /\ thread[t] \in ThreadRec
  BY DEF NotifierInv, ThreadsOK, ThreadOK
<1> QED BY <1>1, <1>2, <1>3, <1>4, <1>5, <1>6

\* A listener that is due to hear of something still is.
StillDue(m, m2) ==
  \A j \in DOMAIN m2.slots["entry"] : \A n \in Keys :
    /\ m2.slots["entry"][j] # Nobody /\ AsksForAll(specOf[m2.slots["entry"][j]])
    /\ IsPrefix(specOf[m2.slots["entry"][j]].prefix, n)
    /\ Due(m, heard[m2.slots["entry"][j]], table, j, m2.slots["entry"][j], n)
    => Due(m2, heard[m2.slots["entry"][j]], table, j, m2.slots["entry"][j], n)

NoNewListener(m, m2) ==
  \A j \in DOMAIN m2.slots["entry"] :
    m2.slots["entry"][j] # Nobody =>
      j \in DOMAIN m.slots["entry"] /\ m2.slots["entry"][j] = m.slots["entry"][j]

\* One thread moves, or is given up by its owner.
LEMMA OneMoves ==
  ASSUME NotifierInv, NEW t \in Threads, NEW m2, thread' = [thread EXCEPT ![t] = m2],
         ThreadOK(m2, regs, table), t <= started, stopping' \in 0 .. started,
         owner' \in {owner, Nobody}, owner' = owner \/ adding.pc # "place",
         UNCHANGED <<started, program, table, changes, deleted, heard>>,
         \A r \in Regs : Reaches(m2, r) => Reaches(thread[t], r),
         \A h : Behind(thread[t], h) => Behind(m2, h),
         NoNewListener(thread[t], m2), StillDue(thread[t], m2)
  PROVE  NotifierInv'
<1>1. /\ UNCHANGED <<started, specOf, regs, adding, local, table, changes, deleted, heard>>
      /\ Immediate' = Immediate
  BY DEF program, Immediate
<1>2. /\ thread = [u \in Threads |-> thread[u]]
      /\ thread'[t] = m2 /\ \A u \in Threads : u # t => thread'[u] = thread[u]
      /\ thread' = [u \in Threads |-> thread'[u]]
  BY DEF NotifierInv, NotifierTypes
<1>3. NotifierTypes'
  <2>1. AddingOK'
    BY <1>1 DEF NotifierInv, NotifierTypes, AddingOK
  <2>2. owner' \in 0 .. started
    BY NotifierKnown DEF Nobody
  <2> QED BY <1>1, <1>2, <2>1, <2>2 DEF NotifierInv, NotifierTypes
<1>4. ThreadsOK'
  BY <1>1, <1>2 DEF NotifierInv, ThreadsOK
<1>5. NotBegun'
  BY <1>1, <1>2, NotifierKnown DEF NotifierInv, NotBegun, Threads
<1>6. TableExact'
  BY <1>1 DEF NotifierInv, TableExact
<1>7. \A u \in Threads : \A r \in Regs : Knows(u, r)' => Knows(u, r)
  <2> SUFFICES ASSUME NEW u \in Threads, NEW r \in Regs, Knows(u, r)' PROVE Knows(u, r)
    OBVIOUS
  <2>1. Reaches(thread'[u], r) \/ (r = Immediate /\ u = owner')
    BY <1>1 DEF Knows
  <2>2. CASE Reaches(thread'[u], r)
    BY <1>2, <2>2 DEF Knows
  <2>3. CASE r = Immediate /\ u = owner'
    BY <2>3, NotifierKnown DEF Knows
  <2> QED BY <2>1, <2>2, <2>3
<1>8. OneHome'
  BY <1>7 DEF NotifierInv, OneHome
<1>9. ToldOlder'
  <2> SUFFICES ASSUME NEW r \in Regs, NEW u \in Threads, Knows(u, r)' PROVE Behind(thread'[u], heard[r])
    BY <1>1 DEF ToldOlder
  <2>1. Behind(thread[u], heard[r])
    BY <1>7 DEF NotifierInv, ToldOlder
  <2> QED BY <1>2, <2>1
<1>10. HeardOK'
  BY <1>1 DEF NotifierInv, HeardOK
<1>11. ASSUME owner' # Nobody
       PROVE  /\ LocalFor(thread'[owner'], specOf', local')
              /\ Owed(thread'[owner'], specOf', heard', table', deleted', Immediate')
  <2>1. owner' = owner /\ owner # Nobody /\ owner \in Threads
    BY <1>11, NotifierKnown
  <2>2. /\ LocalFor(thread[owner], specOf, local)
        /\ Owed(thread[owner], specOf, heard, table, deleted, Immediate)
    BY <2>1 DEF NotifierInv, LocalKnown, AllDue
  <2>3. CASE owner # t
    BY <1>1, <1>2, <2>1, <2>2, <2>3
  <2>4. CASE owner = t
    <3>1. LocalFor(m2, specOf, local)
      BY <2>2, <2>4 DEF LocalFor, NoNewListener
    <3>2. Owed(m2, specOf, heard, table, deleted, Immediate)
      <4> SUFFICES ASSUME NEW j \in DOMAIN m2.slots["entry"], NEW n \in Keys,
                          m2.slots["entry"][j] \notin {Nobody, Immediate},
                          AsksForAll(specOf[m2.slots["entry"][j]]),
                          IsPrefix(specOf[m2.slots["entry"][j]].prefix, n), table[n] # 0, n \notin deleted
                   PROVE  Due(m2, heard[m2.slots["entry"][j]], table, j, m2.slots["entry"][j], n)
        BY DEF Owed
      <4>1. j \in DOMAIN thread[t].slots["entry"] /\ m2.slots["entry"][j] = thread[t].slots["entry"][j]
        BY DEF NoNewListener
      <4>2. Due(thread[t], heard[m2.slots["entry"][j]], table, j, m2.slots["entry"][j], n)
        BY <2>2, <2>4, <4>1 DEF Owed
      <4> QED BY <4>2 DEF StillDue
    <3> QED BY <1>1, <1>2, <2>1, <2>4, <3>1, <3>2
  <2> QED BY <2>3, <2>4
<1>12. LocalKnown' /\ AllDue'
  BY <1>11 DEF LocalKnown, AllDue
<1> QED BY <1>3, <1>4, <1>5, <1>6, <1>8, <1>9, <1>10, <1>12 DEF NotifierInv

\* Whoever waits for immediate notifications, and everybody who asked for
\* everything, is sent what is new to it.
Sends(items, tb2, del2, imm2) ==
  /\ \A n \in Keys : tb2[n] # 0 /\ n \notin del2 =>
       \/ tb2[n] = table[n] /\ n \notin deleted
       \/ \E i \in 1 .. Len(items) : items[i].name = n /\ items[i].only = Nobody
  /\ Immediate # imm2 => \A n \in Keys : tb2[n] # 0 /\ n \notin del2 /\ IsPrefix(specOf[Immediate].prefix, n) =>
       \E i \in 1 .. Len(items) : items[i].name = n /\ items[i].only = Immediate

\* Notices are queued for the thread that has an owner, if there is one and
\* somebody wants them.
LEMMA Queued ==
  ASSUME NotifierInv, NEW k \in Kinds, NEW items \in Seq(Notice),
         NEW tb2 \in [Names -> 0 .. changes'], table' = tb2, changes' \in 0 .. MaxChanges,
         NEW del2 \in SUBSET Keys, deleted' = del2, \A n \in Names : table[n] <= tb2[n], TableExact',
         \A i \in 1 .. Len(items) :
           /\ Good(k, items[i], regs, tb2) /\ items[i].version = tb2[items[i].name]
           /\ items[i].only \in {Nobody, Immediate},
         UNCHANGED <<owner, started, specOf, regs, local, heard, stopping>>,
         adding' = adding \/ (adding.pc = "immediate" /\ adding' = NotAdding),
         \/ /\ owner # Nobody /\ Unlocked(thread[owner])
            /\ thread' = [thread EXCEPT ![owner] = Notified(thread[owner], k, items)]
            /\ Sends(items, tb2, del2, Immediate') /\ (k = "entry" \/ Immediate' = Immediate)
            /\ k # "entry" => \A n \in Keys : tb2[n] = table[n] /\ del2 = deleted
         \/ thread' = thread /\ (owner = Nobody \/ (~local /\ Immediate' = Immediate))
  PROVE  NotifierInv'
<1>1. Immediate' = Immediate \/ Immediate' = Nobody
  BY DEF Immediate, NotAdding
<1>2. tb2 \in [Names -> Nat] /\ regs \in Nat /\ table \in [Names -> Nat]
  BY NotifierKnown
<1>3. \A u \in Threads : ThreadOK(thread[u], regs, tb2)
  <2> SUFFICES ASSUME NEW u \in Threads PROVE ThreadOK(thread[u], regs, tb2)
    OBVIOUS
  <2>1. regs <= regs /\ ThreadOK(thread[u], regs, table)
    BY <1>2, NotifierKnown
  <2> QED BY <1>2, <2>1, RecordGrows
<1>4. \A u \in Threads : thread[u] \in ThreadRec
  BY NotifierKnown
<1>5. AddingOK'
  <2>1. CASE adding' = adding
    BY <2>1 DEF NotifierInv, NotifierTypes, AddingOK
  <2>2. CASE adding' = NotAdding
    BY <2>2 DEF AddingOK
  <2> QED BY <2>1, <2>2
<1>6. \A r \in Regs : \A n \in Names : heard[r][n] <= tb2[n] /\ (r > regs => heard[r][n] = 0)
  <2> SUFFICES ASSUME NEW r \in Regs, NEW n \in Names
               PROVE  heard[r][n] <= tb2[n] /\ (r > regs => heard[r][n] = 0)
    OBVIOUS
  <2>1. heard[r][n] \in Nat /\ table[n] \in Nat /\ tb2[n] \in Nat
    BY <1>2, NotifierKnown
  <2>2. heard[r][n] <= table[n] /\ (r > regs => heard[r][n] = 0)
    BY DEF NotifierInv, HeardOK
  <2> QED BY <2>1, <2>2
<1>7. HeardOK'
  BY <1>6 DEF HeardOK
<1>8. TableExact'
  OBVIOUS
<1>9. thread = [u \in Threads |-> thread[u]]
  BY DEF NotifierInv, NotifierTypes
<1>10. ASSUME thread' = [u \in Threads |-> thread'[u]] PROVE NotifierTypes'
  <2>1. specOf = [r \in Regs |-> specOf[r]]
    BY DEF NotifierInv, NotifierTypes
  <2> QED BY <1>5, <1>10, <2>1 DEF NotifierInv, NotifierTypes
<1>11. CASE thread' = thread /\ (owner = Nobody \/ (~local /\ Immediate' = Immediate))
  <2>1. ThreadsOK' /\ NotBegun'
    BY <1>3, <1>11 DEF NotifierInv, ThreadsOK, NotBegun
  <2>2. \A u \in Threads : \A r \in Regs : Knows(u, r)' => Knows(u, r)
    BY <1>1, <1>11, NotifierKnown DEF Knows
  <2>3. OneHome'
    BY <2>2 DEF NotifierInv, OneHome
  <2>4. ToldOlder'
    BY <1>11, <2>2 DEF NotifierInv, ToldOlder
  <2>5. ASSUME owner # Nobody
        PROVE  LocalFor(thread[owner], specOf, local) /\ Owed(thread[owner], specOf, heard, tb2, del2, Immediate)
    <3>1. LocalFor(thread[owner], specOf, local) /\ ~local
      BY <1>11, <2>5 DEF NotifierInv, LocalKnown
    <3>2. \A j \in DOMAIN thread[owner].slots["entry"] :
            thread[owner].slots["entry"][j] # Nobody => ~AsksForAll(specOf[thread[owner].slots["entry"][j]])
      BY <3>1 DEF LocalFor, AsksForAll
    <3> QED BY <3>1, <3>2 DEF Owed
  <2>6. LocalKnown' /\ AllDue'
    BY <1>11, <2>5 DEF LocalKnown, AllDue
  <2> QED BY <1>7, <1>8, <1>9, <1>10, <1>11, <2>1, <2>3, <2>4, <2>6 DEF NotifierInv
<1>12. CASE /\ owner # Nobody /\ Unlocked(thread[owner])
            /\ thread' = [thread EXCEPT ![owner] = Notified(thread[owner], k, items)]
            /\ Sends(items, tb2, del2, Immediate') /\ (k = "entry" \/ Immediate' = Immediate)
            /\ k # "entry" => \A n \in Keys : tb2[n] = table[n] /\ del2 = deleted
  <2>1. owner \in Threads /\ owner <= started
    BY <1>12, NotifierKnown
  <2>2. PICK m : m = thread[owner]
    OBVIOUS
  <2>3. ThreadOK(m, regs, tb2) /\ Unlocked(m)
    BY <1>3, <1>12, <2>1, <2>2
  <2>15. PICK m2 : m2 = Notified(m, k, items)
    OBVIOUS
  <2>16. \A i \in 1 .. Len(items) : Good(k, items[i], regs, tb2) /\ items[i].version = tb2[items[i].name]
    OBVIOUS
  <2>4.
         /\ ThreadOK(m2, regs, tb2) /\ m2.slots = m.slots
         /\ \A r \in Regs : Reaches(m2, r) => Reaches(m, r) \/ SentTo(items, r)
         /\ \A h : Behind(m, h) /\ UpTo(h, tb2) => Behind(m2, h)
         /\ \A h, j, r, n : Due(m, h, tb2, j, r, n) => Due(m2, h, tb2, j, r, n)
         /\ k = "entry" => OnTheirWay(m2, items, tb2)
    <3>1. ThreadOK(m2, regs, tb2) /\ m2.slots = m.slots
      BY <1>2, <2>3, <2>15, <2>16, RecordNotified
    <3>2. \A r \in Regs : Reaches(m2, r) => Reaches(m, r) \/ SentTo(items, r)
      BY SMTT(30), <1>2, <2>3, <2>15, <2>16, RecordNotified
    <3>3. \A h : Behind(m, h) /\ UpTo(h, tb2) => Behind(m2, h)
      BY <1>2, <2>3, <2>15, <2>16, RecordNotified
    <3>4. \A h, j, r, n : Due(m, h, tb2, j, r, n) => Due(m2, h, tb2, j, r, n)
      BY <1>2, <2>3, <2>15, <2>16, RecordNotified
    <3>5. k = "entry" => OnTheirWay(m2, items, tb2)
      BY <1>2, <2>3, <2>15, <2>16, RecordNotified
    <3> QED BY <3>1, <3>2, <3>3, <3>4, <3>5
  <2>5. /\ thread'[owner] = m2 /\ \A u \in Threads : u # owner => thread'[u] = thread[u]
        /\ thread' = [u \in Threads |-> thread'[u]]
    BY <1>9, <1>12, <2>1, <2>2, <2>15
  <2>6. ThreadsOK'
    BY <1>3, <2>4, <2>5 DEF ThreadsOK
  <2>7. NotBegun'
    BY <2>1, <2>5, NotifierKnown DEF NotifierInv, NotBegun, Threads
  <2>8. \A u \in Threads : \A r \in Regs : Knows(u, r)' => Knows(u, r)
    <3> SUFFICES ASSUME NEW u \in Threads, NEW r \in Regs, Knows(u, r)' PROVE Knows(u, r)
      OBVIOUS
    <3>1. Reaches(thread'[u], r) \/ (r = Immediate /\ u = owner)
      BY <1>1, NotifierKnown DEF Knows
    <3>2. CASE Reaches(thread'[u], r) /\ u # owner
      BY <2>5, <3>2 DEF Knows
    <3>3. CASE Reaches(thread'[u], r) /\ u = owner
      <4>1. Reaches(m, r) \/ r \in {Nobody, Immediate}
        BY <2>4, <2>5, <3>3 DEF SentTo
      <4> QED BY <2>2, <3>3, <4>1, NotifierKnown DEF Knows
    <3>4. CASE r = Immediate /\ u = owner
      BY <3>4 DEF Knows
    <3> QED BY <3>1, <3>2, <3>3, <3>4
  <2>9. OneHome'
    BY <2>8 DEF NotifierInv, OneHome
  <2>10. ToldOlder'
    <3> SUFFICES ASSUME NEW r \in Regs, NEW u \in Threads, Knows(u, r)' PROVE Behind(thread'[u], heard[r])
      BY DEF ToldOlder
    <3>1. Behind(thread[u], heard[r])
      BY <2>8 DEF NotifierInv, ToldOlder
    <3>2. UpTo(heard[r], tb2)
      BY <1>6 DEF UpTo
    <3> QED BY <2>2, <2>4, <2>5, <3>1, <3>2
  <2>11. LocalFor(m, specOf, local) /\ Owed(m, specOf, heard, table, deleted, Immediate)
    BY <1>12, <2>2 DEF NotifierInv, LocalKnown, AllDue
  <2>12. LocalFor(m2, specOf, local)
    BY <2>4, <2>11 DEF LocalFor
  <2>13. Owed(m2, specOf, heard, tb2, del2, Immediate')
    <3> SUFFICES ASSUME NEW j \in DOMAIN m2.slots["entry"], NEW n \in Keys,
                        m2.slots["entry"][j] \notin {Nobody, Immediate'},
                        AsksForAll(specOf[m2.slots["entry"][j]]),
                        IsPrefix(specOf[m2.slots["entry"][j]].prefix, n), tb2[n] # 0, n \notin del2
                 PROVE  Due(m2, heard[m2.slots["entry"][j]], tb2, j, m2.slots["entry"][j], n)
      BY DEF Owed
    <3>1. PICK r : r = m2.slots["entry"][j] /\ r = m.slots["entry"][j]
      BY <2>4
    <3>2. j \in DOMAIN m.slots["entry"]
      BY <2>4
    <3>3. CASE r # Immediate
      <4>1. CASE tb2[n] = table[n] /\ n \notin deleted
        <5>1. Due(m, heard[r], table, j, r, n)
          BY <2>11, <3>1, <3>2, <3>3, <4>1 DEF Owed
        <5>2. Due(m, heard[r], tb2, j, r, n)
          BY <4>1, <5>1 DEF Due
        <5> QED BY <2>4, <3>1, <5>2
      <4>2. CASE ~(tb2[n] = table[n] /\ n \notin deleted)
        <5>1. k = "entry"
          BY <1>12, <4>2
        <5>2. \E i \in 1 .. Len(items) : items[i].name = n /\ items[i].only = Nobody
          BY <1>12, <4>2 DEF Sends
        <5>3. PICK i \in 1 .. Len(items) : items[i].name = n /\ items[i].only = Nobody
          BY <5>2
        <5> QED BY <2>4, <3>1, <5>1, <5>3 DEF OnTheirWay
      <4> QED BY <4>1, <4>2
    <3>4. CASE r = Immediate
      <4>1. Immediate # Immediate' /\ k = "entry"
        BY <1>12, <3>1, <3>4
      <4>2. \E i \in 1 .. Len(items) : items[i].name = n /\ items[i].only = r
        BY <1>12, <3>1, <3>4, <4>1 DEF Sends
      <4>3. PICK i \in 1 .. Len(items) : items[i].name = n /\ items[i].only = r
        BY <4>2
      <4> QED BY <2>4, <3>1, <4>1, <4>3 DEF OnTheirWay
    <3> QED BY <3>3, <3>4
  <2>14. LocalKnown' /\ AllDue'
    BY <2>5, <2>12, <2>13 DEF LocalKnown, AllDue
  <2> QED BY <1>7, <1>8, <1>10, <2>5, <2>6, <2>7, <2>9, <2>10, <2>14 DEF NotifierInv
<1> QED BY <1>11, <1>12

\* A thread that has not begun, or just begins, is sound and knows nobody.
LEMMA FreshThread ==
  ASSUME NEW rs \in Nat, NEW tb, NEW b \in BOOLEAN, NEW p \in {"none", "start"},
         NEW m, m = [NoThread EXCEPT !.active = b, !.pc = p]
  PROVE  /\ ThreadOK(m, rs, tb) /\ m.pc = p /\ \A r \in Regs : ~Reaches(m, r)
         /\ \A c \in Kinds : m.slots[c] = <<>>
<1>1. /\ m.pc = p /\ m.queue = [k \in Kinds |-> <<>>] /\ m.slots = [k \in Kinds |-> <<>>]
      /\ m.free = [k \in Kinds |-> <<>>] /\ m.kind = "entry" /\ m.at = 0 /\ m.calls = Nobody /\ m.item = <<>>
  BY DEF NoThread
<1>2. \A c \in Kinds : m.queue[c] = <<>> /\ m.slots[c] = <<>> /\ m.free[c] = <<>>
  BY <1>1
<1>3. \A S : <<>> \in Seq(S) /\ Len(<<>>) = 0
  BY EmptySeq
<1>4. DOMAIN <<>> = {}
  OBVIOUS
<1>5. m \in ThreadRec
  <2>1. m = [active |-> b, pc |-> p, woken |-> FALSE, queue |-> m.queue, slots |-> m.slots, free |-> m.free,
             kind |-> "entry", at |-> 0, calls |-> Nobody, item |-> <<>>]
    BY <1>1 DEF NoThread
  <2>2. m.queue \in [Kinds -> Seq(Notice)] /\ m.slots \in [Kinds -> Seq(Nat)] /\ m.free \in [Kinds -> Seq(Nat)]
    <3>1. <<>> \in Seq(Notice) /\ <<>> \in Seq(Nat)
      BY EmptySeq
    <3>2. [c \in Kinds |-> <<>>] \in [Kinds -> Seq(Notice)] /\ [c \in Kinds |-> <<>>] \in [Kinds -> Seq(Nat)]
      BY <3>1, Zenon
    <3> QED BY <1>1, <3>2
  <2>3. p \in ThreadPlaces /\ "entry" \in Kinds /\ Nobody \in Nat
    BY DEF ThreadPlaces, Kinds, Nobody
  <2>4. PICK q \in [Kinds -> Seq(Notice)] : q = m.queue
    BY <2>2
  <2>5. PICK sl \in [Kinds -> Seq(Nat)], fr \in [Kinds -> Seq(Nat)] : sl = m.slots /\ fr = m.free
    BY <2>2
  <2>6. PICK it \in Notice \cup {<<>>} : it = <<>>
    OBVIOUS
  <2>7. m = [active |-> b, pc |-> p, woken |-> FALSE, queue |-> q, slots |-> sl, free |-> fr,
             kind |-> "entry", at |-> 0, calls |-> Nobody, item |-> it]
    BY <2>1, <2>4, <2>5, <2>6
  <2>9. PICK w \in BOOLEAN : w = FALSE
    OBVIOUS
  <2>10. PICK z \in Nat, k0 \in Kinds, p0 \in ThreadPlaces, c0 \in Nat :
           z = 0 /\ k0 = "entry" /\ p0 = p /\ c0 = Nobody
    BY <2>3
  <2>11. m = [active |-> b, pc |-> p0, woken |-> w, queue |-> q, slots |-> sl, free |-> fr,
              kind |-> k0, at |-> z, calls |-> c0, item |-> it]
    BY <2>7, <2>9, <2>10
  <2> QED BY <2>11 DEF ThreadRec
<1>6. FreeExact(m)
  <2>1. ToSet(<<>>) = {} /\ IsInjective(<<>>)
    BY <1>4 DEF ToSet, IsInjective
  <2>2. \A c \in Kinds : {i \in DOMAIN m.slots[c] : m.slots[c][i] = Nobody} = {}
    BY <1>2, <1>4
  <2> QED BY <1>2, <2>1, <2>2 DEF FreeExact
<1>7. \A c \in Kinds : 1 .. Len(m.queue[c]) = {}
  BY <1>2, <1>3
<1>8. /\ SleepsIdle(m) /\ WaitsWoken(m) /\ QueueGood(m, rs, tb) /\ QueueSorted(m) /\ ItemGood(m, rs, tb)
      /\ \A c \in Kinds : m.slots[c] \in Seq(0 .. rs)
  BY <1>1, <1>2, <1>3, <1>7 DEF SleepsIdle, WaitsWoken, QueueGood, QueueSorted, ItemGood
<1>9. \A r \in Regs : ~Reaches(m, r)
  BY <1>1, <1>2, <1>4, <1>7 DEF Reaches
<1> QED BY <1>1, <1>2, <1>5, <1>6, <1>8, <1>9 DEF ThreadOK

\* AddEntryListener starts a thread if there is none.
LEMMA AddBeginsKeeps ==
  ASSUME NotifierInv, NEW k \in Kinds, NEW s \in Specs \cup {<<>>}, AddBegins(k, s)
  PROVE  NotifierInv'
<1>1. /\ adding = NotAdding /\ regs < MaxRegs /\ StartThread
      /\ adding' = [pc |-> "place", kind |-> k, spec |-> s]
      /\ UNCHANGED <<specOf, regs, local, table, changes, deleted, stopping, heard>>
  BY DEF AddBegins
<1>2. Immediate = Nobody /\ Immediate' = Nobody
  BY <1>1 DEF Immediate, NotAdding
<1>3. TableExact' /\ HeardOK'
  BY <1>1 DEF NotifierInv, TableExact, HeardOK
<1>4. thread = [u \in Threads |-> thread[u]]
  BY DEF NotifierInv, NotifierTypes
<1>5. Nobody \notin Regs
  BY NotifierKnown
<1>6. CASE owner # Nobody
  <2>1. UNCHANGED <<owner, thread, started>>
    BY <1>1, <1>6 DEF StartThread
  <2>2. AddingOK'
    BY <1>1, <1>6, <2>1 DEF AddingOK
  <2>3. NotifierTypes' /\ ThreadsOK' /\ NotBegun'
    BY <1>1, <2>1, <2>2 DEF NotifierInv, NotifierTypes, ThreadsOK, NotBegun
  <2>4. \A u \in Threads : \A r \in Regs : Knows(u, r)' <=> Knows(u, r)
    BY <1>2, <1>5, <2>1 DEF Knows
  <2>5. OneHome' /\ ToldOlder'
    BY <1>1, <2>1, <2>4 DEF NotifierInv, OneHome, ToldOlder
  <2>6. LocalKnown' /\ AllDue'
    BY <1>1, <1>2, <2>1 DEF NotifierInv, LocalKnown, AllDue
  <2> QED BY <1>3, <2>3, <2>5, <2>6 DEF NotifierInv
<1>7. CASE owner = Nobody
  <2>1. /\ started < MaxThreads /\ started' = started + 1 /\ owner' = started + 1
        /\ thread' = [thread EXCEPT ![started + 1] = [NoThread EXCEPT !.active = TRUE, !.pc = "start"]]
    BY <1>1, <1>7 DEF StartThread
  <2>2. PICK t : t = started + 1
    OBVIOUS
  <2>3. t \in Threads /\ t \in Nat /\ t # Nobody /\ t > started /\ t <= MaxThreads
    BY <2>1, <2>2, NotifierKnown DEF Threads, Nobody
  <2>4. PICK m : m = [NoThread EXCEPT !.active = TRUE, !.pc = "start"]
    OBVIOUS
  <2>5. /\ ThreadOK(m, regs, table) /\ \A r \in Regs : ~Reaches(m, r)
        /\ \A c \in Kinds : m.slots[c] = <<>>
    <3>1. PICK b \in BOOLEAN, p \in {"none", "start"} : b = TRUE /\ p = "start"
      OBVIOUS
    <3>2. m = [NoThread EXCEPT !.active = b, !.pc = p]
      BY <2>4, <3>1
    <3>3. regs \in Nat
      BY NotifierKnown
    <3> QED BY <3>2, <3>3, FreshThread
  <2>6. /\ thread'[t] = m /\ \A u \in Threads : u # t => thread'[u] = thread[u]
        /\ thread' = [u \in Threads |-> thread'[u]]
    BY <1>4, <2>1, <2>2, <2>3, <2>4
  <2>7. AddingOK'
    BY <1>1, <2>1, <2>2, <2>3 DEF AddingOK
  <2>8. NotifierTypes'
    <3>1. started' \in 0 .. MaxThreads /\ owner' \in 0 .. started' /\ stopping' \in 0 .. started'
      BY <1>1, <2>1, <2>2, <2>3, NotifierKnown
    <3> QED BY <1>1, <2>6, <2>7, <3>1 DEF NotifierInv, NotifierTypes
  <2>9. ThreadsOK'
    BY <1>1, <2>5, <2>6 DEF NotifierInv, ThreadsOK
  <2>10. NotBegun'
    <3> SUFFICES ASSUME NEW u \in Threads, u > started' PROVE thread'[u] = NoThread
      BY DEF NotBegun
    <3>1. u # t /\ u > started
      BY <2>1, <2>2, <2>3, NotifierKnown DEF Threads
    <3> QED BY <2>6, <3>1 DEF NotifierInv, NotBegun
  <2>11. \A u \in Threads : \A r \in Regs : Knows(u, r)' => Knows(u, r) /\ u # t
    BY <1>2, <1>5, <2>5, <2>6 DEF Knows
  <2>12. OneHome'
    BY <2>11 DEF NotifierInv, OneHome
  <2>13. ToldOlder'
    <3> SUFFICES ASSUME NEW r \in Regs, NEW u \in Threads, Knows(u, r)' PROVE Behind(thread'[u], heard[r])
      BY <1>1 DEF ToldOlder
    <3>1. Behind(thread[u], heard[r]) /\ u # t
      BY <2>11 DEF NotifierInv, ToldOlder
    <3> QED BY <2>6, <3>1
  <2>14. DOMAIN m.slots["entry"] = {}
    BY <2>5 DEF Kinds
  <2>15. LocalFor(m, specOf', local') /\ Owed(m, specOf', heard', table', deleted', Immediate')
    BY <2>14 DEF LocalFor, Owed
  <2>16. LocalKnown' /\ AllDue'
    BY <2>1, <2>2, <2>6, <2>15 DEF LocalKnown, AllDue
  <2> QED BY <1>3, <2>8, <2>9, <2>10, <2>12, <2>13, <2>16 DEF NotifierInv
<1> QED BY <1>6, <1>7

\* It puts the listener in its list; nobody was told of anything for it before.
LEMMA AddPlacesKeeps ==
  ASSUME NotifierInv, AddPlaces
  PROVE  NotifierInv'
<1>1. /\ adding.pc = "place" /\ Unlocked(thread[owner]) /\ regs' = regs + 1
      /\ specOf' = [specOf EXCEPT ![regs + 1] = adding.spec]
      /\ thread' = [thread EXCEPT ![owner] = EmplaceBack(thread[owner], adding.kind, regs + 1)]
      /\ local' = (local \/ (adding.kind = "entry" /\ "local" \in adding.spec.flags))
      /\ adding' = IF adding.kind = "entry" /\ "immediate" \in adding.spec.flags
                   THEN [adding EXCEPT !.pc = "immediate"] ELSE NotAdding
      /\ UNCHANGED <<owner, started, table, changes, deleted, stopping, heard>>
  BY DEF AddPlaces
<1>2. PICK k \in Kinds, sp \in Specs \cup {<<>>} :
        adding = [pc |-> "place", kind |-> k, spec |-> sp] /\ owner # Nobody /\ regs < MaxRegs
  BY <1>1 DEF NotifierInv, NotifierTypes, AddingOK, NotAdding
<1>3. adding.kind = k /\ adding.spec = sp /\ Immediate = Nobody
  BY <1>1, <1>2 DEF Immediate
<1>4. PICK a \in Nat : a = regs + 1
  BY NotifierKnown
<1>5. a \in Regs /\ a # Nobody /\ a > regs /\ a <= MaxRegs /\ regs \in Nat /\ owner \in Threads /\ owner <= started
  BY <1>2, <1>4, NotifierKnown DEF Regs, Nobody
<1>6. PICK imm \in BOOLEAN : imm <=> (k = "entry" /\ "immediate" \in sp.flags)
  OBVIOUS
<1>7. adding' = IF imm THEN [pc |-> "immediate", kind |-> k, spec |-> sp] ELSE NotAdding
  BY <1>1, <1>2, <1>3, <1>6
<1>8. Immediate' = IF imm THEN a ELSE Nobody
  BY <1>1, <1>4, <1>7 DEF Immediate, NotAdding
<1>9. specOf = [r \in Regs |-> specOf[r]] /\ thread = [u \in Threads |-> thread[u]]
  BY DEF NotifierInv, NotifierTypes
<1>10. /\ specOf' = [r \in Regs |-> specOf'[r]] /\ specOf'[a] = sp
       /\ \A r \in Regs : r # a => specOf'[r] = specOf[r]
  BY <1>1, <1>3, <1>4, <1>5, <1>9
<1>11. PICK m : m = thread[owner]
  OBVIOUS
<1>12. ThreadOK(m, regs, table) /\ table \in [Names -> Nat] /\ m \in ThreadRec
  BY <1>5, <1>11, NotifierKnown
<1>13. PICK m2 :
         /\ m2 = EmplaceBack(m, k, regs + 1) /\ ThreadOK(m2, regs + 1, table)
         /\ \A c \in Kinds : c # k => m2.slots[c] = m.slots[c]
         /\ \A i \in DOMAIN m2.slots[k] :
              m2.slots[k][i] = regs + 1 \/ (i \in DOMAIN m.slots[k] /\ m2.slots[k][i] = m.slots[k][i])
         /\ \A r \in Regs : Reaches(m2, r) => Reaches(m, r) \/ r = regs + 1
         /\ \A h : Behind(m, h) => Behind(m2, h)
         /\ \A h, j, r, n : Due(m, h, table, j, r, n) => Due(m2, h, table, j, r, n)
  BY <1>5, <1>12, RecordPlaces
<1>14. /\ thread'[owner] = m2 /\ \A u \in Threads : u # owner => thread'[u] = thread[u]
       /\ thread' = [u \in Threads |-> thread'[u]]
  BY <1>1, <1>3, <1>5, <1>9, <1>11, <1>13
<1>15. AddingOK'
  <2>1. CASE ~imm
    BY <1>7, <2>1 DEF AddingOK
  <2>2. CASE imm
    <3>1. adding' = [pc |-> "immediate", kind |-> "entry", spec |-> sp]
      BY <1>6, <1>7, <2>2
    <3>2. specOf'[regs'] = sp /\ regs' > 0
      BY <1>1, <1>4, <1>5, <1>10
    <3> QED BY <3>1, <3>2 DEF AddingOK
  <2> QED BY <2>1, <2>2
<1>16. NotifierTypes'
  <2>1. regs' \in 0 .. MaxRegs
    BY <1>1, <1>4, <1>5, NotifierKnown
  <2> QED BY <1>1, <1>10, <1>14, <1>15, <2>1 DEF NotifierInv, NotifierTypes
<1>17. ThreadsOK'
  <2> SUFFICES ASSUME NEW u \in Threads PROVE ThreadOK(thread'[u], a, table)
    BY <1>1, <1>4 DEF ThreadsOK
  <2>1. CASE u = owner
    BY <1>4, <1>13, <1>14, <2>1
  <2>2. CASE u # owner
    <3>1. ThreadOK(thread[u], regs, table) /\ regs <= a /\ \A n \in Names : table[n] <= table[n]
      BY <1>4, <1>5, <1>12, NotifierKnown
    <3>2. ThreadOK(thread[u], a, table)
      BY <1>5, <1>12, <3>1, RecordGrows
    <3> QED BY <1>14, <2>2, <3>2
  <2> QED BY <2>1, <2>2
<1>18. NotBegun'
  BY <1>1, <1>5, <1>14, NotifierKnown DEF NotifierInv, NotBegun, Threads
<1>19. TableExact'
  BY <1>1 DEF NotifierInv, TableExact
<1>20. \A u \in Threads : ~Reaches(thread[u], a)
  <2> SUFFICES ASSUME NEW u \in Threads, Reaches(thread[u], a) PROVE FALSE
    OBVIOUS
  <2>1. ThreadOK(thread[u], regs, table) /\ thread[u] \in ThreadRec
    BY NotifierKnown
  <2>2. ASSUME NEW c \in Kinds, NEW i \in DOMAIN thread[u].slots[c] PROVE thread[u].slots[c][i] # a
    <3>1. thread[u].slots[c] \in Seq(0 .. regs)
      BY <2>1 DEF ThreadOK
    <3>2. thread[u].slots[c][i] \in 0 .. regs
      BY <3>1, LenProperties, ElementOfSeq
    <3> QED BY <1>5, <3>2
  <2>3. thread[u].pc = "calling" => thread[u].calls # a
    BY <1>5, <2>1 DEF ThreadOK, ItemGood
  <2>4. ASSUME NEW c \in Kinds, NEW i \in 1 .. Len(thread[u].queue[c]) PROVE thread[u].queue[c][i].only # a
    <3>1. thread[u].queue[c][i].only \in Nat
      BY <2>1, ThreadFields, NoticeFields
    <3>2. thread[u].queue[c][i].only <= regs
      BY <2>1 DEF ThreadOK, QueueGood, Good
    <3> QED BY <1>5, <3>1, <3>2
  <2> QED BY <2>2, <2>3, <2>4 DEF Reaches
<1>21. \A u \in Threads : \A r \in Regs : Knows(u, r)' => (r = a /\ u = owner) \/ (r # a /\ Knows(u, r))
  <2> SUFFICES ASSUME NEW u \in Threads, NEW r \in Regs, Knows(u, r)'
               PROVE  (r = a /\ u = owner) \/ (r # a /\ Knows(u, r))
    OBVIOUS
  <2>1. Reaches(thread'[u], r) \/ (r = Immediate' /\ u = owner)
    BY <1>1 DEF Knows
  <2>2. CASE Reaches(thread'[u], r) /\ u # owner
    BY <1>14, <1>20, <2>2 DEF Knows
  <2>3. CASE Reaches(thread'[u], r) /\ u = owner
    BY <1>4, <1>11, <1>13, <1>14, <2>3 DEF Knows
  <2>4. CASE r = Immediate' /\ u = owner
    <3>1. r = a
      BY <1>8, <2>4, NotifierKnown
    <3> QED BY <2>4, <3>1
  <2> QED BY <2>1, <2>2, <2>3, <2>4
<1>22. OneHome'
  BY <1>21 DEF NotifierInv, OneHome
<1>23. HeardOK'
  <2> SUFFICES ASSUME NEW r \in Regs, NEW n \in Names
               PROVE  heard[r][n] <= table[n] /\ (r > a => heard[r][n] = 0)
    BY <1>1, <1>4 DEF HeardOK
  <2>1. r > a => r > regs
    BY <1>4, <1>5 DEF Regs
  <2> QED BY <2>1 DEF NotifierInv, HeardOK
<1>24. ToldOlder'
  <2> SUFFICES ASSUME NEW r \in Regs, NEW u \in Threads, Knows(u, r)' PROVE Behind(thread'[u], heard[r])
    BY <1>1 DEF ToldOlder
  <2>1. CASE r # a
    <3>1. Behind(thread[u], heard[r])
      BY <1>21, <2>1 DEF NotifierInv, ToldOlder
    <3> QED BY <1>11, <1>13, <1>14, <3>1
  <2>2. CASE r = a
    <3>1. \A n \in Names : heard[a][n] = 0
      BY <1>5 DEF NotifierInv, HeardOK
    <3>2. \A c \in Kinds : \A i \in 1 .. Len(m.queue[c]) :
            m.queue[c][i].name \in Names /\ m.queue[c][i].version \in Nat
      BY <1>12, ThreadFields, NoticeFields
    <3>3. m.pc = "calling" => m.item.name \in Names /\ m.item.version \in Nat
      BY <1>12, NoticeFields DEF ThreadOK, ItemGood
    <3>4. Behind(m, heard[a])
      BY <3>1, <3>2, <3>3 DEF Behind
    <3> QED BY <1>13, <1>14, <1>21, <2>2, <3>4
  <2> QED BY <2>1, <2>2
<1>25. LocalFor(m, specOf, local) /\ Owed(m, specOf, heard, table, deleted, Nobody)
  BY <1>2, <1>3, <1>11 DEF NotifierInv, LocalKnown, AllDue
<1>26. "entry" \in Kinds
  BY DEF Kinds
<1>27. ASSUME NEW j \in DOMAIN m2.slots["entry"]
       PROVE  \/ k = "entry" /\ m2.slots["entry"][j] = a
              \/ /\ j \in DOMAIN m.slots["entry"] /\ m2.slots["entry"][j] = m.slots["entry"][j]
                 /\ m.slots["entry"][j] \in 0 .. regs
  <2>1. ASSUME NEW i \in DOMAIN m.slots["entry"] PROVE m.slots["entry"][i] \in 0 .. regs
    <3>1. m.slots["entry"] \in Seq(0 .. regs)
      BY <1>12, <1>26 DEF ThreadOK
    <3> QED BY <3>1, LenProperties, ElementOfSeq
  <2> QED BY <1>4, <1>13, <1>26, <2>1
<1>28. LocalFor(m2, specOf', local')
  <2> SUFFICES ASSUME NEW j \in DOMAIN m2.slots["entry"], m2.slots["entry"][j] # Nobody,
                      "local" \in specOf'[m2.slots["entry"][j]].flags
               PROVE  local'
    BY DEF LocalFor
  <2>1. CASE k = "entry" /\ m2.slots["entry"][j] = a
    BY <1>1, <1>3, <1>10, <2>1
  <2>2. CASE /\ j \in DOMAIN m.slots["entry"] /\ m2.slots["entry"][j] = m.slots["entry"][j]
             /\ m.slots["entry"][j] \in 0 .. regs
    <3>1. m.slots["entry"][j] \in Regs /\ m.slots["entry"][j] # a
      BY <1>5, <2>2, NotifierKnown DEF Regs, Nobody
    <3>2. "local" \in specOf[m.slots["entry"][j]].flags
      BY <1>10, <2>2, <3>1
    <3>3. local
      BY <1>25, <2>2, <3>2 DEF LocalFor
    <3> QED BY <1>1, <3>3
  <2> QED BY <1>27, <2>1, <2>2
<1>29. Owed(m2, specOf', heard, table, deleted, Immediate')
  <2> SUFFICES ASSUME NEW j \in DOMAIN m2.slots["entry"], NEW n \in Keys,
                      m2.slots["entry"][j] \notin {Nobody, Immediate'},
                      AsksForAll(specOf'[m2.slots["entry"][j]]),
                      IsPrefix(specOf'[m2.slots["entry"][j]].prefix, n), table[n] # 0, n \notin deleted
               PROVE  Due(m2, heard[m2.slots["entry"][j]], table, j, m2.slots["entry"][j], n)
    BY DEF Owed
  <2>1. CASE k = "entry" /\ m2.slots["entry"][j] = a
    <3>1. "immediate" \in sp.flags
      BY <1>10, <2>1 DEF AsksForAll
    <3> QED BY <1>6, <1>8, <2>1, <3>1
  <2>2. CASE /\ j \in DOMAIN m.slots["entry"] /\ m2.slots["entry"][j] = m.slots["entry"][j]
             /\ m.slots["entry"][j] \in 0 .. regs
    <3>1. m.slots["entry"][j] \in Regs /\ m.slots["entry"][j] # a
      BY SMTT(30), <1>5, <2>2, NotifierKnown DEF Regs, Nobody
    <3>2. specOf'[m2.slots["entry"][j]] = specOf[m.slots["entry"][j]]
      BY <1>10, <2>2, <3>1
    <3>3. Due(m, heard[m.slots["entry"][j]], table, j, m.slots["entry"][j], n)
      BY <1>25, <2>2, <3>2 DEF Owed
    <3> QED BY <1>13, <2>2, <3>3
  <2> QED BY <1>27, <2>1, <2>2
<1>30. LocalKnown' /\ AllDue'
  BY <1>1, <1>14, <1>28, <1>29 DEF LocalKnown, AllDue
<1> QED BY <1>16, <1>17, <1>18, <1>19, <1>22, <1>23, <1>24, <1>30 DEF NotifierInv

\* Who asks for everything is told of every notice of a name it asked for.
LEMMA AskersMatch ==
  ASSUME NEW s, AsksForAll(s), NEW x \in Notice, IsPrefix(s.prefix, x.name)
  PROVE  Matches("entry", s, x)
<1>1. x.what \subseteq AllFlags /\ AllFlags \subseteq s.flags
  BY NoticeFields DEF AsksForAll, AllFlags
<1>2. AssignBoth \subseteq AllFlags /\ AssignBoth # {}
  BY DEF AssignBoth, AllFlags
<1>3. Wanted(s, x.what)
  BY <1>1, <1>2 DEF Wanted
<1> QED BY <1>3 DEF Matches

\* What becomes of a thread's record when a listener returns.
Returned(m) ==
  IF m.item.only # Nobody THEN [m EXCEPT !.pc = "take", !.calls = Nobody, !.item = <<>>]
  ELSE Scan(m, m.at)

\* Nor does whoever asked for everything miss anything.
AskersDue(m, m2, tb) ==
  \A h : \A j \in DOMAIN m.slots["entry"] : \A n \in Keys :
    /\ m.slots["entry"][j] # Nobody /\ AsksForAll(specOf[m.slots["entry"][j]])
    /\ IsPrefix(specOf[m.slots["entry"][j]].prefix, n)
    /\ Due(m, h, tb, j, m.slots["entry"][j], n)
    => \/ Due(m2, h, tb, j, m.slots["entry"][j], n)
       \/ m.slots["entry"][j] = m.calls /\ m.item.name = n /\ m.item.version = tb[n]

\* A listener returns: its thread goes on with the next one or the next notice.
LEMMA RecordCalled ==
  ASSUME NEW rs \in Nat, NEW tb, NEW m, ThreadOK(m, rs, tb), m.pc = "calling",
         NEW m2, m2 = Returned(m)
  PROVE  /\ ThreadOK(m2, rs, tb) /\ m2.slots = m.slots
         /\ \A r \in Regs : Reaches(m2, r) => Reaches(m, r)
         /\ \A h : Behind(m, h) => Behind(m2, h)
         /\ AskersDue(m, m2, tb)
<1>1. m \in ThreadRec /\ ItemHeld(m, rs, tb) /\ m.item \in Notice
  BY DEF ThreadOK, ItemGood, ItemHeld
<1>2. CASE m.item.only # Nobody
  <2>1. m2 = [m EXCEPT !.pc = "take", !.calls = Nobody, !.item = <<>>]
    BY <1>2 DEF Returned
  <2>2. m2 \in ThreadRec
    <3>1. "take" \in ThreadPlaces /\ Nobody \in Nat
      BY DEF ThreadPlaces, Nobody
    <3> QED BY <1>1, <2>1, <3>1 DEF ThreadRec
  <2>3. /\ m2.pc = "take" /\ m2.queue = m.queue /\ m2.slots = m.slots /\ m2.free = m.free
    BY <1>1, <2>1 DEF ThreadRec
  <2>4. SleepsIdle(m2) /\ WaitsWoken(m2)
    BY <2>3 DEF SleepsIdle, WaitsWoken
  <2>5. ThreadOK(m2, rs, tb)
    <3>1. m2.pc # "calling"
      BY <2>3
    <3> QED BY <2>2, <2>3, <2>4, <3>1, RecordMoves
  <2>6. \A r \in Regs : Reaches(m2, r) => Reaches(m, r)
    BY <2>3 DEF Reaches
  <2>7. \A h : Behind(m, h) => Behind(m2, h)
    BY <2>3 DEF Behind
  <2>8. ASSUME NEW h, NEW j \in DOMAIN m.slots["entry"], NEW n \in Keys,
               Due(m, h, tb, j, m.slots["entry"][j], n)
        PROVE  \/ Due(m2, h, tb, j, m.slots["entry"][j], n)
               \/ m.slots["entry"][j] = m.calls /\ m.item.name = n /\ m.item.version = tb[n]
    BY <1>2, <2>3, <2>8 DEF Due
  <2>9. AskersDue(m, m2, tb)
    BY <2>8 DEF AskersDue
  <2> QED BY <2>3, <2>5, <2>6, <2>7, <2>9
<1>3. CASE m.item.only = Nobody
  <2>1. m.at \in Nat
    BY <1>1, ThreadFields
  <2>2. m2 = Scan(m, m.at)
    BY <1>3 DEF Returned
  <2>3. /\ ThreadOK(m2, rs, tb) /\ m2.slots = m.slots
        /\ MatchersDue(m, m2, tb, m.at) /\ OthersDue(m, m2, tb)
    BY <1>1, <1>3, <2>1, <2>2, RecordScans
  <2>6. \A r \in Regs : Reaches(m2, r) => Reaches(m, r)
    BY <1>1, <1>3, <2>1, <2>2, RecordScans
  <2>7. \A h : Behind(m, h) /\ h[m.item.name] <= m.item.version => Behind(m2, h)
    BY <1>1, <1>3, <2>1, <2>2, RecordScans
  <2>4. \A h : Behind(m, h) => Behind(m2, h)
    <3>1. \A h : Behind(m, h) => h[m.item.name] <= m.item.version
      BY DEF Behind
    <3> QED BY <2>7, <3>1
  <2>5. ASSUME NEW h, NEW j \in DOMAIN m.slots["entry"], NEW n \in Keys,
               m.slots["entry"][j] # Nobody, AsksForAll(specOf[m.slots["entry"][j]]),
               IsPrefix(specOf[m.slots["entry"][j]].prefix, n),
               Due(m, h, tb, j, m.slots["entry"][j], n)
        PROVE  \/ Due(m2, h, tb, j, m.slots["entry"][j], n)
               \/ m.slots["entry"][j] = m.calls /\ m.item.name = n /\ m.item.version = tb[n]
    <3>1. \/ Due(m2, h, tb, j, m.slots["entry"][j], n)
          \/ m.item.name = n /\ m.item.version = tb[n] /\ (m.calls = m.slots["entry"][j] \/ j > m.at)
      BY <2>3, <2>5 DEF OthersDue
    <3>2. CASE m.item.name = n /\ m.item.version = tb[n] /\ j > m.at
      <4>1. m.kind = "entry"
        <5>1. n \in NamesOf(m.kind)
          BY <1>1, <3>2 DEF ItemHeld, Good
        <5> QED BY <5>1, LinkAssumption DEF NamesOf
      <4>2. Matches("entry", specOf[m.slots["entry"][j]], m.item)
        BY <1>1, <2>5, <3>2, AskersMatch
      <4> QED BY <2>3, <2>5, <3>2, <4>1, <4>2 DEF MatchersDue
    <3> QED BY <3>1, <3>2
  <2>8. AskersDue(m, m2, tb)
    BY <2>5 DEF AskersDue
  <2> QED BY <2>3, <2>4, <2>6, <2>8
<1> QED BY <1>2, <1>3

\* A callback tells a listener nothing older than what it was told.
LEMMA CallsKeeps ==
  ASSUME NotifierInv, NEW t \in Threads, CallsListener(t)
  PROVE  /\ NotifierInv'
         /\ \A r \in Regs : \A n \in DOMAIN heard[r] : heard'[r][n] >= heard[r][n]
<1>1. PICK m : m = thread[t]
  OBVIOUS
<1>2. /\ m.pc = "calling"
      /\ heard' = [heard EXCEPT ![m.calls][m.item.name] = m.item.version]
      /\ UNCHANGED <<owner, started, specOf, regs, adding, local, table, changes, deleted, stopping>>
  BY <1>1 DEF CallsListener, Becomes, program
<1>3. PICK m2 : m2 = Returned(m)
  OBVIOUS
<1>4. thread' = [thread EXCEPT ![t] = m2]
  BY <1>1, <1>3 DEF CallsListener, Becomes, Returned
<1>5. ThreadOK(m, regs, table) /\ m \in ThreadRec /\ regs \in Nat /\ table \in [Names -> Nat]
  BY <1>1, NotifierKnown
<1>6. /\ ThreadOK(m2, regs, table) /\ m2.slots = m.slots
      /\ \A r \in Regs : Reaches(m2, r) => Reaches(m, r)
      /\ \A h : Behind(m, h) => Behind(m2, h)
  BY <1>2, <1>3, <1>5, RecordCalled
<1>7. ASSUME NEW h, NEW j \in DOMAIN m.slots["entry"], NEW n \in Keys,
             m.slots["entry"][j] # Nobody, AsksForAll(specOf[m.slots["entry"][j]]),
             IsPrefix(specOf[m.slots["entry"][j]].prefix, n),
             Due(m, h, table, j, m.slots["entry"][j], n)
      PROVE  \/ Due(m2, h, table, j, m.slots["entry"][j], n)
             \/ m.slots["entry"][j] = m.calls /\ m.item.name = n /\ m.item.version = table[n]
  <2>1. AskersDue(m, m2, table)
    BY <1>2, <1>3, <1>5, RecordCalled
  <2> QED BY <1>7, <2>1 DEF AskersDue
<1>8. PICK c : c = m.calls
  OBVIOUS
<1>9. PICK x : x = m.item
  OBVIOUS
<1>10. /\ c \in 1 .. regs /\ x \in Notice /\ Good(m.kind, x, regs, table)
       /\ \A i \in 1 .. Len(m.queue[m.kind]) :
            m.queue[m.kind][i].name = x.name => x.version <= m.queue[m.kind][i].version
  BY <1>2, <1>5, <1>8, <1>9 DEF ThreadOK, ItemGood
<1>11. c \in Regs /\ x.name \in Names /\ x.version \in Nat /\ x.version <= table[x.name]
  BY <1>10, NotifierKnown, NoticeFields DEF Regs, Good
<1>12. Knows(t, c) /\ Behind(m, heard[c])
  <2>1. Reaches(m, c)
    BY <1>2, <1>8 DEF Reaches
  <2> QED BY <1>1, <1>11, <2>1 DEF Knows, NotifierInv, ToldOlder
<1>13. heard[c][x.name] <= x.version
  BY <1>2, <1>9, <1>12 DEF Behind
<1>14. PICK h2 : h2 = [heard[c] EXCEPT ![x.name] = x.version]
  OBVIOUS
<1>15. /\ heard' = [heard EXCEPT ![c] = h2] /\ h2 \in [Names -> Nat] /\ h2[x.name] = x.version
       /\ \A n \in Names : n # x.name => h2[n] = heard[c][n]
  BY <1>2, <1>8, <1>9, <1>11, <1>14, NotifierKnown
<1>16. /\ heard' \in [Regs -> [Names -> Nat]] /\ heard'[c] = h2
       /\ \A r \in Regs : r # c => heard'[r] = heard[r]
  BY <1>11, <1>15, NotifierKnown
<1>17. \A n \in Names : h2[n] >= heard[c][n]
  <2> SUFFICES ASSUME NEW n \in Names PROVE h2[n] >= heard[c][n]
    OBVIOUS
  <2>1. heard[c][n] \in Nat
    BY <1>11, NotifierKnown
  <2> QED BY <1>11, <1>13, <1>15, <2>1
<1>18. \A r \in Regs : \A n \in DOMAIN heard[r] : heard'[r][n] >= heard[r][n]
  <2> SUFFICES ASSUME NEW r \in Regs, NEW n \in DOMAIN heard[r] PROVE heard'[r][n] >= heard[r][n]
    OBVIOUS
  <2>1. n \in Names /\ heard[r][n] \in Nat
    BY NotifierKnown
  <2>2. CASE r = c
    BY <1>16, <1>17, <2>1, <2>2
  <2>3. CASE r # c
    BY <1>16, <2>1, <2>3
  <2> QED BY <2>2, <2>3
<1>19. thread = [u \in Threads |-> thread[u]]
  BY DEF NotifierInv, NotifierTypes
<1>20. /\ thread'[t] = m2 /\ \A u \in Threads : u # t => thread'[u] = thread[u]
       /\ thread' = [u \in Threads |-> thread'[u]]
  BY <1>4, <1>19
<1>21. Immediate' = Immediate
  BY <1>2 DEF Immediate
<1>22. NotifierTypes'
  <2>1. AddingOK'
    BY <1>2 DEF NotifierInv, NotifierTypes, AddingOK
  <2> QED BY <1>2, <1>16, <1>20, <2>1 DEF NotifierInv, NotifierTypes
<1>23. ThreadsOK'
  BY <1>2, <1>6, <1>20 DEF NotifierInv, ThreadsOK
<1>24. t <= started
  <2>1. t \in Nat /\ started \in Nat
    BY NotifierKnown DEF Threads
  <2>2. m # NoThread
    BY <1>2 DEF NoThread
  <2> QED BY <1>1, <2>1, <2>2 DEF NotifierInv, NotBegun
<1>25. NotBegun'
  <2> SUFFICES ASSUME NEW u \in Threads, u > started PROVE thread'[u] = NoThread
    BY <1>2 DEF NotBegun
  <2>1. u # t
    BY <1>24, NotifierKnown DEF Threads
  <2> QED BY <1>20, <2>1 DEF NotifierInv, NotBegun
<1>26. TableExact'
  BY <1>2 DEF NotifierInv, TableExact
<1>27. \A u \in Threads : \A r \in Regs : Knows(u, r)' => Knows(u, r)
  <2> SUFFICES ASSUME NEW u \in Threads, NEW r \in Regs, Knows(u, r)' PROVE Knows(u, r)
    OBVIOUS
  <2>1. Reaches(thread'[u], r) \/ (r = Immediate /\ u = owner)
    BY <1>2, <1>21 DEF Knows
  <2> QED BY <1>1, <1>6, <1>20, <2>1 DEF Knows
<1>28. OneHome'
  BY <1>27 DEF NotifierInv, OneHome
<1>29. Behind(m2, h2)
  <2>1. Behind(m, h2)
    <3>1. ASSUME NEW k \in Kinds, NEW i \in 1 .. Len(m.queue[k])
          PROVE  h2[m.queue[k][i].name] <= m.queue[k][i].version
      <4>1. PICK y \in Notice : y = m.queue[k][i]
        BY <1>5, ThreadFields
      <4>2. y.name \in Names /\ y.version \in Nat /\ heard[c][y.name] <= y.version
        BY <1>12, <4>1, NoticeFields DEF Behind
      <4>3. CASE y.name # x.name
        BY <1>15, <4>1, <4>2, <4>3
      <4>4. CASE y.name = x.name
        <5>1. y.name \in NamesOf(k) /\ x.name \in NamesOf(m.kind)
          BY <1>5, <1>10, <4>1 DEF ThreadOK, QueueGood, Good
        <5>2. m.kind \in Kinds
          BY <1>5, ThreadFields
        <5>3. k = m.kind
          BY <4>4, <5>1, <5>2, LinkAssumption DEF NamesOf, Kinds
        <5>4. x.version <= y.version
          BY <1>10, <4>1, <4>4, <5>3
        <5> QED BY <1>15, <4>1, <4>4, <5>4
      <4> QED BY <4>3, <4>4
    <3>2. h2[m.item.name] <= m.item.version
      BY <1>9, <1>11, <1>15
    <3> QED BY <3>1, <3>2 DEF Behind
  <2> QED BY <1>6, <2>1
<1>30. ToldOlder'
  <2> SUFFICES ASSUME NEW r \in Regs, NEW u \in Threads, Knows(u, r)' PROVE Behind(thread'[u], heard'[r])
    BY DEF ToldOlder
  <2>1. Knows(u, r) /\ Behind(thread[u], heard[r])
    BY <1>27 DEF NotifierInv, ToldOlder
  <2>2. CASE r = c
    <3>1. u = t
      BY <1>11, <1>12, <2>1, <2>2 DEF NotifierInv, OneHome
    <3> QED BY <1>16, <1>20, <1>29, <2>2, <3>1
  <2>3. CASE r # c
    <3>1. CASE u = t
      BY <1>1, <1>6, <1>16, <1>20, <2>1, <2>3, <3>1
    <3>2. CASE u # t
      BY <1>16, <1>20, <2>1, <2>3, <3>2
    <3> QED BY <3>1, <3>2
  <2> QED BY <2>2, <2>3
<1>31. HeardOK'
  <2> SUFFICES ASSUME NEW r \in Regs, NEW n \in Names
               PROVE  heard'[r][n] <= table[n] /\ (r > regs => heard'[r][n] = 0)
    BY <1>2 DEF HeardOK
  <2>1. heard[r][n] <= table[n] /\ (r > regs => heard[r][n] = 0)
    BY DEF NotifierInv, HeardOK
  <2>2. CASE r # c
    BY <1>16, <2>1, <2>2
  <2>3. CASE r = c
    <3>1. ~(r > regs)
      BY <1>5, <1>10, <2>3
    <3>2. h2[n] <= table[n]
      BY <1>11, <1>15, <2>1, <2>3
    <3> QED BY <1>16, <2>3, <3>1, <3>2
  <2> QED BY <2>2, <2>3
<1>32. ASSUME NEW mm, NEW j, NEW n \in Names, Due(mm, heard[c], table, j, c, n), n # x.name \/ x.version = table[n]
       PROVE  Due(mm, h2, table, j, c, n)
  <2>1. CASE n = x.name
    BY <1>15, <1>32, <2>1 DEF Due
  <2>2. CASE n # x.name
    <3>1. h2[n] = heard[c][n]
      BY <1>15, <2>2
    <3> QED BY <1>32, <3>1 DEF Due
  <2> QED BY <2>1, <2>2
<1>33. ASSUME owner # Nobody PROVE LocalFor(thread'[owner], specOf, local) /\ Owed(thread'[owner], specOf, heard', table, deleted, Immediate)
  <2>1. owner \in Threads
    BY <1>33, NotifierKnown
  <2>2. LocalFor(thread[owner], specOf, local) /\ Owed(thread[owner], specOf, heard, table, deleted, Immediate)
    BY <1>33 DEF NotifierInv, LocalKnown, AllDue
  <2>3. PICK o : o = thread[owner]
    OBVIOUS
  <2>4. PICK o2 : o2 = thread'[owner]
    OBVIOUS
  <2>5. o2.slots = o.slots
    BY <1>1, <1>6, <1>20, <2>1, <2>3, <2>4
  <2>6. LocalFor(o2, specOf, local)
    BY <2>2, <2>3, <2>5 DEF LocalFor
  <2>7. Owed(o2, specOf, heard', table, deleted, Immediate)
    <3> SUFFICES ASSUME NEW j \in DOMAIN o2.slots["entry"], NEW n \in Keys,
                        o2.slots["entry"][j] \notin {Nobody, Immediate},
                        AsksForAll(specOf[o2.slots["entry"][j]]),
                        IsPrefix(specOf[o2.slots["entry"][j]].prefix, n), table[n] # 0, n \notin deleted
                 PROVE  Due(o2, heard'[o2.slots["entry"][j]], table, j, o2.slots["entry"][j], n)
      BY DEF Owed
    <3>1. PICK r : r = o2.slots["entry"][j]
      OBVIOUS
    <3>2. r = o.slots["entry"][j] /\ j \in DOMAIN o.slots["entry"] /\ Due(o, heard[r], table, j, r, n)
      BY <2>2, <2>3, <2>5, <3>1 DEF Owed
    <3>3. n \in Names
      BY NotifierKnown
    <3>4. r \in Regs
      <4>1. ThreadOK(o, regs, table) /\ "entry" \in Kinds
        BY <2>1, <2>3, NotifierKnown DEF Kinds
      <4>2. o.slots["entry"] \in Seq(0 .. regs)
        BY <4>1 DEF ThreadOK
      <4>3. r \in 0 .. regs
        BY <3>2, <4>2, LenProperties, ElementOfSeq
      <4> QED BY <3>1, <4>3, NotifierKnown DEF Regs, Nobody
    <3>5. n = x.name /\ heard[c][n] = table[n] => x.version = table[n]
      <4>1. heard[c][x.name] \in Nat /\ table[x.name] \in Nat
        BY <1>5, <1>11, NotifierKnown
      <4> QED BY <1>11, <1>13, <4>1
    <3>6. CASE owner # t
      <4>1. o2 = o
        BY <1>20, <2>1, <2>3, <2>4, <3>6
      <4>2. r # c
        <5>1. Reaches(o, r)
          BY <3>2, <4>1 DEF Reaches, Kinds
        <5>2. Knows(owner, r)
          BY <2>3, <5>1 DEF Knows
        <5> QED BY <1>12, <2>1, <3>4, <3>6, <5>2 DEF NotifierInv, OneHome
      <4> QED BY <1>16, <3>1, <3>2, <3>4, <4>1, <4>2
    <3>7. CASE owner = t
      <4>1. o = m /\ o2 = m2
        BY <1>1, <1>20, <2>3, <2>4, <3>7
      <4>2. \/ Due(m2, heard[r], table, j, r, n)
            \/ r = c /\ x.name = n /\ x.version = table[n]
        BY <1>7, <1>8, <1>9, <3>1, <3>2, <4>1
      <4>3. CASE r # c
        BY <1>16, <3>1, <3>4, <4>1, <4>2, <4>3
      <4>4. CASE r = c /\ x.name = n /\ x.version = table[n]
        BY <1>15, <1>16, <3>1, <4>1, <4>4 DEF Due
      <4>5. CASE r = c /\ ~(x.name = n /\ x.version = table[n])
        <5>1. Due(m2, heard[c], table, j, c, n)
          BY <4>2, <4>5
        <5>2. CASE n # x.name
          BY <1>16, <1>32, <3>1, <3>3, <4>1, <4>5, <5>1, <5>2
        <5>3. CASE n = x.name
          <6>1. heard[c][n] # table[n]
            BY <3>5, <4>5, <5>3
          <6>2. Due(m2, h2, table, j, c, n)
            BY <5>1, <6>1 DEF Due
          <6> QED BY <1>16, <3>1, <4>1, <4>5, <6>2
        <5> QED BY <5>2, <5>3
      <4> QED BY <4>3, <4>4, <4>5
    <3> QED BY <3>6, <3>7
  <2> QED BY <2>4, <2>6, <2>7
<1>34. LocalKnown' /\ AllDue'
  BY <1>2, <1>21, <1>33 DEF LocalKnown, AllDue
<1> QED BY <1>18, <1>22, <1>23, <1>25, <1>26, <1>28, <1>30, <1>31, <1>34 DEF NotifierInv

\* Only a thread that was started does anything.
LEMMA Begun ==
  ASSUME NotifierInv, NEW t \in Threads, thread[t].pc # "none"
  PROVE  t <= started
<1>1. t \in Nat /\ started \in Nat
  BY NotifierKnown DEF Threads
<1>2. thread[t] # NoThread
  BY DEF NoThread
<1> QED BY <1>1, <1>2 DEF NotifierInv, NotBegun

\* A step of a thread that leaves queues and listeners alone.
LEMMA MovesOnly ==
  ASSUME NotifierInv, NEW t \in Threads, NEW m2 \in ThreadRec, Becomes(t, m2), UNCHANGED heard,
         thread[t].pc \notin {"none", "calling"}, m2.pc # "calling",
         m2.queue = thread[t].queue, m2.slots = thread[t].slots, m2.free = thread[t].free,
         SleepsIdle(m2), WaitsWoken(m2)
  PROVE  NotifierInv'
<1>1. PICK m : m = thread[t]
  OBVIOUS
<1>2. ThreadOK(m, regs, table) /\ t <= started /\ stopping \in 0 .. started
  BY <1>1, NotifierKnown, Begun
<1>3. /\ ThreadOK(m2, regs, table)
      /\ \A r \in Regs : Reaches(m2, r) => Reaches(m, r)
      /\ \A h : Behind(m, h) => Behind(m2, h)
      /\ \A h, j, r, n : Due(m, h, table, j, r, n) => Due(m2, h, table, j, r, n)
  <2>1. m2.pc # "calling" /\ m2.queue = m.queue /\ m2.slots = m.slots /\ m2.free = m.free /\ m.pc # "calling"
    BY <1>1
  <2> QED BY <1>2, <2>1, RecordMoves
<1>4. NoNewListener(m, m2)
  BY <1>1 DEF NoNewListener
<1>5. StillDue(m, m2)
  BY <1>3 DEF StillDue
<1>6. /\ thread' = [thread EXCEPT ![t] = m2] /\ stopping' = stopping /\ owner' = owner
      /\ UNCHANGED <<started, program, table, changes, deleted, heard>>
  BY DEF Becomes
<1>7. owner' \in {owner, Nobody} /\ (owner' = owner \/ adding.pc # "place") /\ stopping' \in 0 .. started
  BY <1>2, <1>6
<1> QED BY <1>1, <1>2, <1>3, <1>4, <1>5, <1>6, <1>7, OneMoves

\* ThreadMain looks for work, or stops.
LEMMA LooksKeeps ==
  ASSUME NotifierInv, NEW t \in Threads, Looks(t)
  PROVE  NotifierInv'
<1>1. PICK m : m = thread[t]
  OBVIOUS
<1>2. PICK p : p = IF ~m.active THEN "gone" ELSE IF Idle(m) THEN "sleep" ELSE "take"
  OBVIOUS
<1>3. PICK m2 : m2 = [m EXCEPT !.pc = p, !.kind = "entry"]
  OBVIOUS
<1>4. Becomes(t, m2) /\ UNCHANGED heard /\ m.pc \in {"start", "top"}
  BY <1>1, <1>2, <1>3 DEF Looks
<1>5. m \in ThreadRec
  BY <1>1, NotifierKnown
<1>6. p \in {"gone", "sleep", "take"} /\ (p = "sleep" => Idle(m))
  BY <1>2
<1>7. m2 \in ThreadRec /\ m2.pc = p /\ m2.queue = m.queue /\ m2.slots = m.slots /\ m2.free = m.free
  <2>1. p \in ThreadPlaces /\ "entry" \in Kinds
    BY <1>6 DEF ThreadPlaces, Kinds
  <2> QED BY <1>3, <1>5, <2>1 DEF ThreadRec
<1>8. SleepsIdle(m2) /\ WaitsWoken(m2)
  BY <1>6, <1>7 DEF SleepsIdle, WaitsWoken, Idle
<1>9. m2.pc # "calling" /\ m.pc \notin {"none", "calling"}
  BY <1>4, <1>6, <1>7
<1> QED BY <1>1, <1>4, <1>7, <1>8, <1>9, MovesOnly

\* It does again when it is woken.
LEMMA WakesKeeps ==
  ASSUME NotifierInv, NEW t \in Threads, Wakes(t)
  PROVE  NotifierInv'
<1>1. PICK m : m = thread[t]
  OBVIOUS
<1>2. PICK p : p = IF ~m.active THEN "gone" ELSE IF Idle(m) THEN "sleep" ELSE "take"
  OBVIOUS
<1>3. PICK m2 : m2 = [m EXCEPT !.pc = p, !.kind = "entry"]
  OBVIOUS
<1>4. Becomes(t, m2) /\ UNCHANGED heard /\ m.pc = "wait"
  BY <1>1, <1>2, <1>3 DEF Wakes
<1>5. m \in ThreadRec
  BY <1>1, NotifierKnown
<1>6. p \in {"gone", "sleep", "take"} /\ (p = "sleep" => Idle(m))
  BY <1>2
<1>7. m2 \in ThreadRec /\ m2.pc = p /\ m2.queue = m.queue /\ m2.slots = m.slots /\ m2.free = m.free
  <2>1. p \in ThreadPlaces /\ "entry" \in Kinds
    BY <1>6 DEF ThreadPlaces, Kinds
  <2> QED BY <1>3, <1>5, <2>1 DEF ThreadRec
<1>8. SleepsIdle(m2) /\ WaitsWoken(m2)
  BY <1>6, <1>7 DEF SleepsIdle, WaitsWoken, Idle
<1>9. m2.pc # "calling" /\ m.pc \notin {"none", "calling"}
  BY <1>4, <1>6, <1>7
<1> QED BY <1>1, <1>4, <1>7, <1>8, <1>9, MovesOnly

\* It falls asleep only when it saw no work.
LEMMA FallsAsleepKeeps ==
  ASSUME NotifierInv, NEW t \in Threads, FallsAsleep(t)
  PROVE  NotifierInv'
<1>1. PICK m : m = thread[t]
  OBVIOUS
<1>3. PICK m2 : m2 = [m EXCEPT !.pc = "wait", !.woken = FALSE]
  OBVIOUS
<1>4. Becomes(t, m2) /\ UNCHANGED heard /\ m.pc = "sleep"
  BY <1>1, <1>3 DEF FallsAsleep
<1>5. m \in ThreadRec /\ Idle(m)
  <2>1. ThreadOK(m, regs, table)
    BY <1>1, NotifierKnown
  <2> QED BY <1>4, <2>1 DEF ThreadOK, SleepsIdle
<1>7. m2 \in ThreadRec /\ m2.pc = "wait" /\ m2.queue = m.queue /\ m2.slots = m.slots /\ m2.free = m.free
  <2>1. "wait" \in ThreadPlaces
    BY DEF ThreadPlaces
  <2> QED BY <1>3, <1>5, <2>1 DEF ThreadRec
<1>8. SleepsIdle(m2) /\ WaitsWoken(m2)
  BY <1>5, <1>7 DEF SleepsIdle, WaitsWoken, Idle
<1>9. m2.pc # "calling" /\ m.pc \notin {"none", "calling"}
  BY <1>4, <1>7
<1> QED BY <1>1, <1>4, <1>7, <1>8, <1>9, MovesOnly

Flagged(m, a, w) == [m EXCEPT !.active = a, !.woken = w]
StaysWoken(m, w) == m.pc = "wait" /\ m.woken => w

\* Its flags are raised or lowered.
LEMMA RecordFlagged ==
  ASSUME NEW rs, NEW tb, NEW m, ThreadOK(m, rs, tb),
         NEW a \in BOOLEAN, NEW w \in BOOLEAN, StaysWoken(m, w),
         NEW m2, m2 = Flagged(m, a, w)
  PROVE  /\ ThreadOK(m2, rs, tb) /\ m2.slots = m.slots
         /\ \A r \in Regs : Reaches(m2, r) => Reaches(m, r)
         /\ \A h : Behind(m, h) => Behind(m2, h)
         /\ \A h, j, r, n : Due(m, h, tb, j, r, n) => Due(m2, h, tb, j, r, n)
<1>1. m \in ThreadRec
  BY DEF ThreadOK
<1>2. /\ m2 \in ThreadRec /\ m2.pc = m.pc /\ m2.queue = m.queue /\ m2.slots = m.slots /\ m2.free = m.free
      /\ m2.kind = m.kind /\ m2.at = m.at /\ m2.calls = m.calls /\ m2.item = m.item /\ m2.woken = w
  BY <1>1 DEF ThreadRec, Flagged
<1>3. FreeExact(m2) /\ SleepsIdle(m2) /\ QueueGood(m2, rs, tb) /\ QueueSorted(m2) /\ ItemGood(m2, rs, tb)
  <2>1. FreeExact(m2) /\ SleepsIdle(m2)
    BY <1>2 DEF ThreadOK, FreeExact, SleepsIdle, Idle
  <2>2. QueueGood(m2, rs, tb)
    BY <1>2 DEF ThreadOK, QueueGood
  <2>3. QueueSorted(m2)
    BY <1>2 DEF ThreadOK, QueueSorted
  <2>4. ItemGood(m2, rs, tb)
    BY <1>2 DEF ThreadOK, ItemGood
  <2> QED BY <2>1, <2>2, <2>3, <2>4
<1>4. WaitsWoken(m2)
  BY <1>2 DEF ThreadOK, WaitsWoken, Idle, StaysWoken
<1>5. ThreadOK(m2, rs, tb)
  BY <1>2, <1>3, <1>4 DEF ThreadOK
<1>6. \A r \in Regs : Reaches(m2, r) => Reaches(m, r)
  BY <1>2 DEF Reaches
<1>7. \A h : Behind(m, h) => Behind(m2, h)
  BY <1>2 DEF Behind
<1>8. \A h, j, r, n : Due(m, h, tb, j, r, n) => Due(m2, h, tb, j, r, n)
  BY <1>2 DEF Due
<1> QED BY <1>2, <1>5, <1>6, <1>7, <1>8

\* Stop gives the thread up.
LEMMA StopKeeps ==
  ASSUME NotifierInv, StopNotifier
  PROVE  NotifierInv'
<1>1. /\ owner # Nobody /\ adding.pc # "place" /\ owner' = Nobody /\ stopping' = owner
      /\ UNCHANGED <<started, program, table, changes, deleted, heard>>
  BY DEF StopNotifier
<1>2. owner \in Threads /\ owner \in 0 .. started /\ owner <= started
  BY <1>1, NotifierKnown
<1>3. PICK m : m = thread[owner]
  OBVIOUS
<1>4. ThreadOK(m, regs, table) /\ m \in ThreadRec
  BY <1>2, <1>3, NotifierKnown
<1>5. PICK w \in BOOLEAN : w = m.woken
  BY <1>4 DEF ThreadRec
<1>13. PICK a \in BOOLEAN : a = FALSE
  OBVIOUS
<1>6. PICK m2 : m2 = Flagged(m, a, w)
  OBVIOUS
<1>7. m2 = [m EXCEPT !.active = FALSE]
  BY <1>4, <1>5, <1>6, <1>13 DEF ThreadRec, Flagged
<1>8. thread' = [thread EXCEPT ![owner] = m2]
  BY <1>3, <1>7 DEF StopNotifier
<1>9. /\ ThreadOK(m2, regs, table) /\ m2.slots = m.slots
      /\ \A r \in Regs : Reaches(m2, r) => Reaches(m, r)
      /\ \A h : Behind(m, h) => Behind(m2, h)
      /\ \A h, j, r, n : Due(m, h, table, j, r, n) => Due(m2, h, table, j, r, n)
  <2>1. StaysWoken(m, w)
    BY <1>5 DEF StaysWoken
  <2> QED BY <1>4, <1>5, <1>6, <2>1, RecordFlagged
<1>10. NoNewListener(m, m2)
  BY <1>9 DEF NoNewListener
<1>11. StillDue(m, m2)
  BY <1>9 DEF StillDue
<1>12. owner' \in {owner, Nobody} /\ (owner' = owner \/ adding.pc # "place") /\ stopping' \in 0 .. started
  BY <1>1, <1>2
<1> QED BY <1>1, <1>2, <1>3, <1>8, <1>9, <1>10, <1>11, <1>12, OneMoves

\* It then wakes it.
LEMMA StopWakesKeeps ==
  ASSUME NotifierInv, StopWakes
  PROVE  NotifierInv'
<1>1. PICK t : t = stopping
  OBVIOUS
<1>2. t # Nobody /\ stopping' = Nobody /\ UNCHANGED <<owner, started, program, table, changes, deleted, heard>>
  BY <1>1 DEF StopWakes
<1>3. t \in Threads /\ t <= started /\ 0 \in 0 .. started
  BY <1>1, <1>2, NotifierKnown DEF Threads, Nobody
<1>4. PICK m : m = thread[t]
  OBVIOUS
<1>5. ThreadOK(m, regs, table) /\ m \in ThreadRec
  BY <1>3, <1>4, NotifierKnown
<1>6. PICK w \in BOOLEAN : w <=> (m.woken \/ m.pc = "wait")
  OBVIOUS
<1>7. PICK a \in BOOLEAN : a = m.active
  BY <1>5 DEF ThreadRec
<1>8. PICK m2 : m2 = Flagged(m, a, w)
  OBVIOUS
<1>9. m2 = [m EXCEPT !.woken = m.woken \/ m.pc = "wait"]
  <2>1. w = (m.woken \/ m.pc = "wait")
    BY <1>6
  <2>2. m2 = [m EXCEPT !.woken = w]
    BY <1>5, <1>7, <1>8 DEF ThreadRec, Flagged
  <2> QED BY <2>1, <2>2
<1>10. thread' = [thread EXCEPT ![t] = m2]
  BY <1>1, <1>4, <1>9 DEF StopWakes
<1>11. /\ ThreadOK(m2, regs, table) /\ m2.slots = m.slots
       /\ \A r \in Regs : Reaches(m2, r) => Reaches(m, r)
       /\ \A h : Behind(m, h) => Behind(m2, h)
       /\ \A h, j, r, n : Due(m, h, table, j, r, n) => Due(m2, h, table, j, r, n)
  <2>1. StaysWoken(m, w)
    BY <1>6 DEF StaysWoken
  <2> QED BY <1>5, <1>6, <1>7, <1>8, <2>1, RecordFlagged
<1>12. NoNewListener(m, m2)
  BY <1>11 DEF NoNewListener
<1>13. StillDue(m, m2)
  BY <1>11 DEF StillDue
<1>14. owner' \in {owner, Nobody} /\ (owner' = owner \/ adding.pc # "place") /\ stopping' \in 0 .. started
  BY <1>2, <1>3 DEF Nobody
<1> QED BY <1>2, <1>3, <1>4, <1>10, <1>11, <1>12, <1>13, <1>14, OneMoves

\* RemoveEntryListener frees the listener's place.
LEMMA RemoveKeeps ==
  ASSUME NotifierInv, NEW k \in Kinds, NEW uid \in Regs, RemoveListener(k, uid)
  PROVE  NotifierInv'
<1>1. /\ owner # Nobody /\ UNCHANGED <<owner, started, program, table, changes, deleted, stopping, heard>>
      /\ thread' = [thread EXCEPT ![owner] = EraseUid(thread[owner], k, uid)]
  BY DEF RemoveListener
<1>2. owner \in Threads /\ owner <= started /\ stopping \in 0 .. started
  BY <1>1, NotifierKnown
<1>3. PICK m : m = thread[owner]
  OBVIOUS
<1>4. ThreadOK(m, regs, table) /\ regs \in Nat /\ table \in [Names -> Nat]
  BY <1>2, <1>3, NotifierKnown
<1>5. PICK m2 :
         /\ m2 = EraseUid(m, k, uid) /\ ThreadOK(m2, regs, table)
         /\ \A c \in Kinds : \A i \in DOMAIN m2.slots[c] :
              m2.slots[c][i] # Nobody => i \in DOMAIN m.slots[c] /\ m2.slots[c][i] = m.slots[c][i]
         /\ \A r \in Regs : Reaches(m2, r) => Reaches(m, r)
         /\ \A h : Behind(m, h) => Behind(m2, h)
         /\ \A h, j, r, n : Due(m, h, table, j, r, n) => Due(m2, h, table, j, r, n)
  BY <1>4, RecordErases
<1>6. NoNewListener(m, m2)
  BY <1>5 DEF NoNewListener, Kinds
<1>7. StillDue(m, m2)
  BY <1>5 DEF StillDue
<1>8. owner' \in {owner, Nobody} /\ (owner' = owner \/ adding.pc # "place") /\ stopping' \in 0 .. started
  BY <1>1, <1>2
<1>9. thread' = [thread EXCEPT ![owner] = m2]
  BY <1>1, <1>3, <1>5
<1> QED BY <1>1, <1>2, <1>3, <1>5, <1>6, <1>7, <1>8, <1>9, OneMoves

\* The oldest notice is for one listener only.
Called(p) == [p EXCEPT !.pc = "calling", !.calls = p.item.only]

\* A notice for one listener only is told to it.
LEMMA RecordCalls ==
  ASSUME NEW rs \in Nat, NEW tb, NEW p, ThreadOK(p, rs, tb), ItemHeld(p, rs, tb), p.item.only # Nobody,
         p.pc = "take", NEW m2, m2 = Called(p)
  PROVE  /\ ThreadOK(m2, rs, tb) /\ m2.slots = p.slots
         /\ \A r \in Regs : Reaches(m2, r) => Reaches(p, r) \/ r = p.item.only
         /\ \A h : Behind(p, h) /\ h[p.item.name] <= p.item.version => Behind(m2, h)
         /\ \A h, j, r, n : Due(p, h, tb, j, r, n) => Due(m2, h, tb, j, r, n)
         /\ \A h, j, n : p.item.name = n /\ p.item.version = tb[n] => Due(m2, h, tb, j, p.item.only, n)
<1>1. p \in ThreadRec /\ p.item \in Notice
  BY DEF ThreadOK, ItemHeld
<1>2. PICK c \in Nat : c = p.item.only
  BY <1>1, NoticeFields
<1>3. m2 = [p EXCEPT !.pc = "calling", !.calls = c] /\ "calling" \in ThreadPlaces
  BY <1>2 DEF Called, ThreadPlaces
<1>4. /\ m2 \in ThreadRec /\ m2.pc = "calling" /\ m2.queue = p.queue /\ m2.slots = p.slots /\ m2.free = p.free
      /\ m2.kind = p.kind /\ m2.at = p.at /\ m2.calls = c /\ m2.item = p.item
  BY <1>1, <1>3 DEF ThreadRec
<1>5. FreeExact(m2) /\ SleepsIdle(m2) /\ WaitsWoken(m2)
  BY <1>4 DEF ThreadOK, FreeExact, SleepsIdle, WaitsWoken
<1>6. QueueGood(m2, rs, tb) /\ QueueSorted(m2)
  <2>1. QueueGood(m2, rs, tb)
    BY <1>4 DEF ThreadOK, QueueGood
  <2>2. QueueSorted(m2)
    BY <1>4 DEF ThreadOK, QueueSorted
  <2> QED BY <2>1, <2>2
<1>7. ItemGood(m2, rs, tb)
  <2>1. c \in 1 .. rs
    BY <1>2 DEF ItemHeld, Good, Nobody
  <2>2. /\ Good(m2.kind, m2.item, rs, tb)
        /\ \A i \in 1 .. Len(m2.queue[m2.kind]) :
             m2.queue[m2.kind][i].name = m2.item.name => m2.item.version <= m2.queue[m2.kind][i].version
    BY <1>4 DEF ItemHeld
  <2> QED BY <1>1, <1>2, <1>4, <2>1, <2>2 DEF ItemGood
<1>8. ThreadOK(m2, rs, tb)
  BY <1>4, <1>5, <1>6, <1>7 DEF ThreadOK
<1>9. \A r \in Regs : Reaches(m2, r) => Reaches(p, r) \/ r = p.item.only
  BY <1>2, <1>4 DEF Reaches
<1>10. \A h : Behind(p, h) /\ h[p.item.name] <= p.item.version => Behind(m2, h)
  BY <1>4 DEF Behind
<1>11. \A h, j, r, n : Due(p, h, tb, j, r, n) => Due(m2, h, tb, j, r, n)
  BY <1>4 DEF Due
<1>12. \A h, j, n : p.item.name = n /\ p.item.version = tb[n] => Due(m2, h, tb, j, p.item.only, n)
  BY <1>2, <1>4 DEF Due
<1> QED BY <1>4, <1>8, <1>9, <1>10, <1>11, <1>12

\* The thread takes the oldest notice, entries first.
LEMMA TakesKeeps ==
  ASSUME NotifierInv, NEW t \in Threads, Takes(t)
  PROVE  NotifierInv'
<1>1. PICK m : m = thread[t]
  OBVIOUS
<1>2. ThreadOK(m, regs, table) /\ m \in ThreadRec /\ regs \in Nat /\ m.kind \in Kinds
  BY <1>1, NotifierKnown, ThreadFields
<1>3. m.pc = "take" /\ UNCHANGED heard
  BY <1>1 DEF Takes
<1>4. CASE m.queue[m.kind] = <<>>
  <2>1. PICK m2 : m2 = IF m.kind = "entry" THEN [m EXCEPT !.kind = "conn"] ELSE [m EXCEPT !.pc = "top"]
    OBVIOUS
  <2>2. Becomes(t, m2)
    BY <1>1, <1>4, <2>1 DEF Takes
  <2>3. m2 \in ThreadRec /\ m2.pc \in {"take", "top"} /\ m2.queue = m.queue /\ m2.slots = m.slots /\ m2.free = m.free
    <3>1. CASE m.kind = "entry"
      BY <1>2, <1>3, <2>1, <3>1 DEF ThreadRec, Kinds
    <3>2. CASE m.kind # "entry"
      <4>1. "top" \in ThreadPlaces
        BY DEF ThreadPlaces
      <4> QED BY <1>2, <1>3, <2>1, <3>2, <4>1 DEF ThreadRec
    <3> QED BY <3>1, <3>2
  <2>4. SleepsIdle(m2) /\ WaitsWoken(m2) /\ m2.pc # "calling"
    BY <2>3 DEF SleepsIdle, WaitsWoken
  <2>5. m.pc \notin {"none", "calling"}
    BY <1>3
  <2> QED BY <1>1, <1>3, <2>2, <2>3, <2>4, <2>5, MovesOnly
<1>5. CASE m.queue[m.kind] # <<>> /\ ~m.active
  <2>1. PICK m2 : m2 = [m EXCEPT !.pc = "gone"]
    OBVIOUS
  <2>2. Becomes(t, m2)
    BY <1>1, <1>5, <2>1 DEF Takes
  <2>3. m2 \in ThreadRec /\ m2.pc = "gone" /\ m2.queue = m.queue /\ m2.slots = m.slots /\ m2.free = m.free
    <3>1. "gone" \in ThreadPlaces
      BY DEF ThreadPlaces
    <3> QED BY <1>2, <2>1, <3>1 DEF ThreadRec
  <2>4. SleepsIdle(m2) /\ WaitsWoken(m2) /\ m2.pc # "calling"
    BY <2>3 DEF SleepsIdle, WaitsWoken
  <2>5. m.pc \notin {"none", "calling"}
    BY <1>3
  <2> QED BY <1>1, <1>3, <2>2, <2>3, <2>4, <2>5, MovesOnly
<1>6. CASE m.queue[m.kind] # <<>> /\ m.active
  <2>10. PICK p : p = Popped(m) /\ Pops(m, p, regs, table)
    BY <1>2, <1>3, <1>6, RecordPops
  <2>1.
        /\ ThreadOK(p, regs, table) /\ ItemHeld(p, regs, table)
        /\ p.pc = "take" /\ p.slots = m.slots /\ p.kind = m.kind
        /\ p.item = Head(m.queue[m.kind])
        /\ \E i \in 1 .. Len(m.queue[m.kind]) : p.item = m.queue[m.kind][i]
        /\ \A r \in Regs : Reaches(p, r) => Reaches(m, r)
        /\ \A h : Behind(m, h) => Behind(p, h) /\ h[p.item.name] <= p.item.version
        /\ \A h, j, r, n : Due(m, h, table, j, r, n) =>
             \/ Due(p, h, table, j, r, n)
             \/ /\ p.kind = "entry" /\ p.item.name = n /\ p.item.version = table[n]
                /\ p.item.only \in {Nobody, r}
    BY <2>10 DEF Pops
  <2>2. PICK m2 : m2 = IF p.item.only # Nobody THEN Called(p) ELSE Scan(p, 0)
    OBVIOUS
  <2>3. Becomes(t, m2)
    <3>1. PICK x : x = Head(m.queue[m.kind])
      OBVIOUS
    <3>2. Becomes(t, IF x.only # Nobody THEN [p EXCEPT !.pc = "calling", !.calls = x.only] ELSE Scan(p, 0))
      BY <1>1, <1>6, <2>10, <3>1 DEF Takes, Popped
    <3>3. x = p.item
      BY <2>1, <3>1
    <3> QED BY <2>2, <3>2, <3>3 DEF Called
  <2>4. t <= started /\ stopping \in 0 .. started
    BY <1>1, <1>3, NotifierKnown, Begun
  <2>5. /\ thread' = [thread EXCEPT ![t] = m2] /\ stopping' = stopping /\ owner' = owner
        /\ UNCHANGED <<started, program, table, changes, deleted, heard>>
    BY <1>3, <2>3 DEF Becomes
  <2>6. owner' \in {owner, Nobody} /\ (owner' = owner \/ adding.pc # "place") /\ stopping' \in 0 .. started
    BY <2>4, <2>5
  <2>7. SUFFICES /\ ThreadOK(m2, regs, table)
                 /\ \A r \in Regs : Reaches(m2, r) => Reaches(m, r)
                 /\ \A h : Behind(m, h) => Behind(m2, h)
                 /\ m2.slots = m.slots /\ StillDue(m, m2)
    <3>1. m2.slots = m.slots => NoNewListener(m, m2)
      BY DEF NoNewListener
    <3> QED BY <1>1, <2>4, <2>5, <2>6, <3>1, OneMoves
  <2>8. CASE p.item.only # Nobody
    <3>1. m2 = Called(p)
      BY <2>2, <2>8
    <3>2. /\ ThreadOK(m2, regs, table) /\ m2.slots = p.slots
          /\ \A r \in Regs : Reaches(m2, r) => Reaches(p, r) \/ r = p.item.only
          /\ \A h : Behind(p, h) /\ h[p.item.name] <= p.item.version => Behind(m2, h)
          /\ \A h, j, r, n : Due(p, h, table, j, r, n) => Due(m2, h, table, j, r, n)
          /\ \A h, j, n : p.item.name = n /\ p.item.version = table[n] => Due(m2, h, table, j, p.item.only, n)
      BY SMTT(30), <1>2, <2>1, <2>8, <3>1, RecordCalls
    <3>3. Reaches(m, p.item.only)
      BY SMTT(30), <1>2, <2>1 DEF Reaches
    <3>4. \A r \in Regs : Reaches(m2, r) => Reaches(m, r)
      BY <2>1, <3>2, <3>3
    <3>5. \A h : Behind(m, h) => Behind(m2, h)
      BY <2>1, <3>2
    <3>6. \A h, j, r, n : r # Nobody /\ Due(m, h, table, j, r, n) => Due(m2, h, table, j, r, n)
      BY SMTT(30), <2>1, <2>8, <3>2
    <3>7. StillDue(m, m2)
      BY <3>6 DEF StillDue
    <3> QED BY <2>1, <3>2, <3>4, <3>5, <3>7
  <2>9. CASE p.item.only = Nobody
    <3>1. m2 = Scan(p, 0) /\ 0 \in Nat
      BY <2>2, <2>9
    <3>8. p.pc \in {"take", "calling"}
      BY <2>1
    <3>2. /\ ThreadOK(m2, regs, table) /\ m2.slots = p.slots
          /\ MatchersDue(p, m2, table, 0) /\ OthersDue(p, m2, table)
      BY <1>2, <2>1, <2>9, <3>1, <3>8, RecordScans
    <3>3. \A r \in Regs : Reaches(m2, r) => Reaches(p, r)
      BY <1>2, <2>1, <2>9, <3>1, <3>8, RecordScans
    <3>4. \A h : Behind(p, h) /\ h[p.item.name] <= p.item.version => Behind(m2, h)
      BY <1>2, <2>1, <2>9, <3>1, <3>8, RecordScans
    <3>5. \A r \in Regs : Reaches(m2, r) => Reaches(m, r)
      BY <2>1, <3>3
    <3>6. \A h : Behind(m, h) => Behind(m2, h)
      BY <2>1, <3>4
    <3>7. StillDue(m, m2)
      <4> SUFFICES ASSUME NEW j \in DOMAIN m2.slots["entry"], NEW n \in Keys,
                          m2.slots["entry"][j] # Nobody, AsksForAll(specOf[m2.slots["entry"][j]]),
                          IsPrefix(specOf[m2.slots["entry"][j]].prefix, n),
                          Due(m, heard[m2.slots["entry"][j]], table, j, m2.slots["entry"][j], n)
                   PROVE  Due(m2, heard[m2.slots["entry"][j]], table, j, m2.slots["entry"][j], n)
        BY DEF StillDue
      <4>1. PICK r : r = m2.slots["entry"][j] /\ r = p.slots["entry"][j] /\ j \in DOMAIN p.slots["entry"]
        BY <3>2
      <4>2. CASE Due(p, heard[r], table, j, r, n)
        BY <2>1, <3>2, <4>1, <4>2 DEF OthersDue
      <4>3. CASE p.kind = "entry" /\ p.item.name = n /\ p.item.version = table[n]
        <5>1. p.item \in Notice /\ Matches("entry", specOf[r], p.item)
          <6>1. p.item \in Notice
            BY <2>1 DEF ItemHeld
          <6> QED BY <4>1, <4>3, <6>1, AskersMatch
        <5>2. j > 0
          <6>1. p \in ThreadRec /\ "entry" \in Kinds
            BY <2>1 DEF ThreadOK, Kinds
          <6> QED BY <4>1, <6>1, ThreadFields
        <5> QED BY <3>2, <4>1, <4>3, <5>1, <5>2 DEF MatchersDue
      <4> QED BY SMTT(30), <2>1, <4>1, <4>2, <4>3
    <3> QED BY <2>1, <3>2, <3>5, <3>6, <3>7
  <2> QED BY <2>8, <2>9
<1> QED BY <1>4, <1>5, <1>6

\* An entry or a connection changes.
LEMMA ChangedKeeps ==
  ASSUME NotifierInv, NEW k \in Kinds, NEW n \in NamesOf(k), NEW w \in SUBSET AllFlags,
         changes < MaxChanges, changes' = changes + 1, table' = [table EXCEPT ![n] = changes + 1],
         deleted' \in SUBSET Keys, k # "entry" => deleted' = deleted,
         \A o \in Keys : o # n => (o \in deleted' <=> o \in deleted),
         UNCHANGED <<owner, started, program, stopping, heard>>,
         ToThread(k, <<Item(n, w, Nobody, changes + 1)>>) \/ (~local /\ UNCHANGED thread)
  PROVE  NotifierInv'
<1>1. /\ UNCHANGED <<owner, started, specOf, regs, adding, local, heard, stopping>>
      /\ Immediate' = Immediate
  BY DEF program, Immediate
<1>2. PICK v : v = changes + 1
  OBVIOUS
<1>3. v \in 0 .. MaxChanges /\ v \in Nat /\ changes' = v /\ changes < v
  BY <1>2, NotifierKnown
<1>4. PICK tb2 : tb2 = table'
  OBVIOUS
<1>5. PICK del2 : del2 = deleted'
  OBVIOUS
<1>6. n \in Names /\ (k # "entry" => n \notin Keys)
  BY LinkAssumption DEF NamesOf, Names
<1>7. /\ tb2 \in [Names -> 0 .. v] /\ tb2[n] = v /\ \A o \in Names : o # n => tb2[o] = table[o]
      /\ \A o \in Names : table[o] \in Nat /\ table[o] <= changes
  <2>1. table \in [Names -> 0 .. changes] /\ changes \in Nat
    BY NotifierKnown
  <2>2. tb2 = [table EXCEPT ![n] = v]
    BY <1>2, <1>4
  <2>3. \A o \in Names : table[o] \in Nat /\ table[o] <= changes
    BY <2>1
  <2>4. \A o \in Names : tb2[o] = IF o = n THEN v ELSE table[o]
    BY <2>1, <2>2
  <2>5. \A o \in Names : tb2[o] \in 0 .. v
    <3> SUFFICES ASSUME NEW o \in Names PROVE tb2[o] \in 0 .. v
      OBVIOUS
    <3>1. CASE o = n
      BY <1>3, <2>4, <3>1
    <3>2. CASE o # n
      BY <1>3, <2>1, <2>3, <2>4, <3>2
    <3> QED BY <3>1, <3>2
  <2> QED BY <1>6, <2>1, <2>2, <2>3, <2>4, <2>5
<1>8. \A o \in Names : table[o] <= tb2[o]
  <2> SUFFICES ASSUME NEW o \in Names PROVE table[o] <= tb2[o]
    OBVIOUS
  <2>1. table[o] \in Nat /\ table[o] <= changes /\ changes \in Nat
    BY <1>7, NotifierKnown
  <2> QED BY <1>3, <1>7, <2>1
<1>9. \A a, b \in Names : tb2[a] = tb2[b] /\ tb2[a] # 0 => a = b
  <2> SUFFICES ASSUME NEW a \in Names, NEW b \in Names, tb2[a] = tb2[b], tb2[a] # 0 PROVE a = b
    OBVIOUS
  <2>1. ASSUME NEW o \in Names, o # n PROVE tb2[o] # v
    <3>1. tb2[o] <= changes /\ tb2[o] \in Nat /\ changes \in Nat
      BY <1>7, <2>1, NotifierKnown
    <3> QED BY <1>3, <3>1
  <2>2. CASE a = n \/ b = n
    BY <1>7, <2>1, <2>2
  <2>3. CASE a # n /\ b # n
    BY <1>7, <2>3 DEF NotifierInv, TableExact
  <2> QED BY <2>2, <2>3
<1>10. TableExact'
  BY <1>4, <1>9 DEF TableExact
<1>11. PICK x : x = Item(n, w, Nobody, v)
  OBVIOUS
<1>12. x \in Notice /\ x.name = n /\ x.only = Nobody /\ x.version = v
  <2>1. Nobody \in Nat
    BY DEF Nobody
  <2> QED BY <1>3, <1>6, <1>11, <2>1 DEF Item, Notice
<1>13. PICK items \in Seq(Notice) : items = <<x>>
  <2>1. <<x>> \in Seq(Notice)
    BY <1>12
  <2> QED BY <2>1
<1>14. Len(items) = 1 /\ items[1] = x
  BY <1>13
<1>15. Good(k, x, regs, tb2)
  <2>1. Nobody <= regs
    BY NotifierKnown DEF Nobody
  <2> QED BY <1>3, <1>7, <1>12, <2>1 DEF Good
<1>16. \A i \in 1 .. Len(items) :
         /\ Good(k, items[i], regs, tb2) /\ items[i].version = tb2[items[i].name]
         /\ items[i].only \in {Nobody, Immediate}
  <2> SUFFICES ASSUME NEW i \in 1 .. Len(items)
               PROVE  /\ Good(k, items[i], regs, tb2) /\ items[i].version = tb2[items[i].name]
                      /\ items[i].only \in {Nobody, Immediate}
    OBVIOUS
  <2>1. i = 1
    BY <1>14
  <2> QED BY <1>7, <1>12, <1>14, <1>15, <2>1
<1>17. Sends(items, tb2, del2, Immediate')
  <2>1. ASSUME NEW o \in Keys, tb2[o] # 0, o \notin del2
        PROVE  \/ tb2[o] = table[o] /\ o \notin deleted
               \/ \E i \in 1 .. Len(items) : items[i].name = o /\ items[i].only = Nobody
    <3>1. CASE o = n
      BY <1>12, <1>14, <3>1
    <3>2. CASE o # n
      BY <1>5, <1>7, <2>1, <3>2, NotifierKnown
    <3> QED BY <3>1, <3>2
  <2> QED BY <1>1, <2>1 DEF Sends
<1>18. k # "entry" => \A o \in Keys : tb2[o] = table[o] /\ del2 = deleted
  BY <1>5, <1>6, <1>7, NotifierKnown
<1>19. \/ /\ owner # Nobody /\ Unlocked(thread[owner])
          /\ thread' = [thread EXCEPT ![owner] = Notified(thread[owner], k, items)]
          /\ Sends(items, tb2, del2, Immediate') /\ (k = "entry" \/ Immediate' = Immediate)
          /\ k # "entry" => \A o \in Keys : tb2[o] = table[o] /\ del2 = deleted
       \/ thread' = thread /\ (owner = Nobody \/ (~local /\ Immediate' = Immediate))
  <2>1. CASE ToThread(k, <<Item(n, w, Nobody, changes + 1)>>)
    <3>1. ToThread(k, items)
      BY <1>2, <1>11, <1>13, <2>1
    <3> QED BY <1>1, <1>17, <1>18, <3>1 DEF ToThread
  <2>2. CASE ~local /\ UNCHANGED thread
    BY <1>1, <2>2
  <2> QED BY <2>1, <2>2
<1>20. changes' \in 0 .. MaxChanges /\ tb2 \in [Names -> 0 .. changes'] /\ del2 \in SUBSET Keys
  BY <1>3, <1>5, <1>7
<1>21. adding' = adding \/ (adding.pc = "immediate" /\ adding' = NotAdding)
  BY <1>1
<1>22. table' = tb2 /\ deleted' = del2 /\ UNCHANGED <<owner, started, specOf, regs, local, heard, stopping>>
  BY <1>1, <1>4, <1>5
<1> QED BY <1>8, <1>10, <1>16, <1>19, <1>20, <1>21, <1>22, Queued

\* An entry changes, by this program or by another.
LEMMA EntryKeeps ==
  ASSUME NotifierInv, ChangeEntry
  PROVE  NotifierInv'
<1>1. /\ changes < MaxChanges /\ changes' = changes + 1
      /\ UNCHANGED <<owner, started, program, stopping, heard>>
  BY DEF ChangeEntry
<1>2. PICK n \in Keys, from \in {{}, {"local"}} :
        \E what \in IF table[n] = 0 \/ n \in deleted THEN {{"new"}}
                    ELSE {{"update"}, {"delete"}} \cup (IF from = {} THEN {AssignBoth} ELSE {}) :
          /\ IF from = {"local"} /\ ~local THEN UNCHANGED thread
             ELSE ToThread("entry", <<Item(n, what \cup from, Nobody, changes + 1)>>)
          /\ table' = [table EXCEPT ![n] = changes + 1]
          /\ deleted' = IF what = {"delete"} THEN deleted \cup {n} ELSE deleted \ {n}
  BY DEF ChangeEntry
<1>3. PICK what \in {{"new"}, {"update"}, {"delete"}, AssignBoth} :
        /\ IF from = {"local"} /\ ~local THEN UNCHANGED thread
           ELSE ToThread("entry", <<Item(n, what \cup from, Nobody, changes + 1)>>)
        /\ table' = [table EXCEPT ![n] = changes + 1]
        /\ deleted' = IF what = {"delete"} THEN deleted \cup {n} ELSE deleted \ {n}
  BY <1>2
<1>4. PICK w \in SUBSET AllFlags : w = what \cup from
  BY DEF AssignBoth, AllFlags
<1>5. ToThread("entry", <<Item(n, w, Nobody, changes + 1)>>) \/ (~local /\ UNCHANGED thread)
  BY <1>3, <1>4
<1>6. deleted' \in SUBSET Keys /\ \A o \in Keys : o # n => (o \in deleted' <=> o \in deleted)
  <2>1. deleted \subseteq Keys
    BY DEF NotifierInv, NotifierTypes
  <2> QED BY <1>3, <2>1
<1>7. "entry" \in Kinds /\ n \in NamesOf("entry")
  BY DEF Kinds, NamesOf
<1> QED BY <1>1, <1>3, <1>5, <1>6, <1>7, ChangedKeeps

\* A connection is made or lost.
LEMMA ConnectionKeeps ==
  ASSUME NotifierInv, ChangeConnection
  PROVE  NotifierInv'
<1>1. /\ changes < MaxChanges /\ changes' = changes + 1 /\ table' = [table EXCEPT ![Link] = changes + 1]
      /\ UNCHANGED <<owner, started, program, stopping, heard>> /\ deleted' = deleted
      /\ ToThread("conn", <<Item(Link, {}, Nobody, changes + 1)>>)
  BY DEF ChangeConnection
<1>2. "conn" \in Kinds /\ Link \in NamesOf("conn") /\ {} \in SUBSET AllFlags
  BY DEF Kinds, NamesOf
<1>3. deleted \subseteq Keys
  BY DEF NotifierInv, NotifierTypes
<1> QED BY <1>1, <1>2, <1>3, ChangedKeeps

\* Storage::NotifyEntries queues every entry for the new listener.
LEMMA AddNotifiesKeeps ==
  ASSUME NotifierInv, AddNotifies
  PROVE  NotifierInv'
<1>1. /\ adding.pc = "immediate" /\ adding' = NotAdding
      /\ UNCHANGED <<owner, started, specOf, regs, local, table, changes, deleted, stopping, heard>>
  BY DEF AddNotifies
<1>2. /\ Immediate = regs /\ Immediate' = Nobody /\ regs > 0 /\ adding.spec = specOf[regs]
  <2>1. adding # NotAdding /\ adding.pc # "place"
    BY <1>1 DEF NotAdding
  <2>2. AddingOK
    BY DEF NotifierInv, NotifierTypes
  <2>3. adding.spec = specOf[regs] /\ regs > 0
    BY <2>1, <2>2 DEF AddingOK
  <2> QED BY <1>1, <2>3 DEF Immediate, NotAdding
<1>3. PICK there : there = {n \in Keys : table[n] # 0 /\ n \notin deleted /\ IsPrefix(adding.spec.prefix, n)}
  OBVIOUS
<1>4. PICK S : S = {Item(n, {"immediate"}, regs, table[n]) : n \in there}
  OBVIOUS
<1>5. ToThread("entry", SetToSeq(S))
  BY <1>3, <1>4 DEF AddNotifies
<1>6. there \subseteq Keys /\ \A n \in there : n \in Names /\ table[n] \in Nat /\ table[n] \in 1 .. changes
  <2> SUFFICES ASSUME NEW n \in there PROVE n \in Keys /\ n \in Names /\ table[n] \in 1 .. changes /\ table[n] \in Nat
    OBVIOUS
  <2>1. n \in Keys /\ n \in Names /\ table[n] # 0
    BY <1>3, NotifierKnown
  <2>2. table[n] \in 0 .. changes /\ changes \in Nat
    BY <2>1, NotifierKnown
  <2> QED BY <2>1, <2>2
<1>7. ASSUME NEW x \in S
      PROVE  \E n \in there : /\ x = Item(n, {"immediate"}, regs, table[n])
                              /\ x.name = n /\ x.only = regs /\ x.version = table[n]
  <2>1. PICK n \in there : x = Item(n, {"immediate"}, regs, table[n])
    BY <1>4
  <2> QED BY <2>1 DEF Item
<1>8. IsFiniteSet(S)
  <2>1. PICK f : f = [x \in S |-> x.version]
    OBVIOUS
  <2>2. f \in [S -> 1 .. changes]
    BY <1>6, <1>7, <2>1
  <2>3. ASSUME NEW x \in S, NEW y \in S, f[x] = f[y] PROVE x = y
    <3>1. PICK n \in there : x = Item(n, {"immediate"}, regs, table[n]) /\ x.version = table[n]
      BY <1>7
    <3>2. PICK o \in there : y = Item(o, {"immediate"}, regs, table[o]) /\ y.version = table[o]
      BY <1>7
    <3>3. table[n] = table[o] /\ table[n] # 0
      BY <1>6, <2>1, <2>3, <3>1, <3>2
    <3>4. n = o
      BY <1>6, <3>3 DEF NotifierInv, TableExact
    <3> QED BY <3>1, <3>2, <3>4
  <2>4. f \in Injection(S, 1 .. changes)
    BY <2>2, <2>3 DEF Injection, IsInjective
  <2>5. IsFiniteSet(1 .. changes)
    BY FS_Interval, NotifierKnown
  <2> QED BY <2>4, <2>5, FS_Injection
<1>9. ASSUME NEW x \in S
      PROVE  /\ x \in Notice /\ Good("entry", x, regs, table) /\ x.version = table[x.name]
             /\ x.only \in {Nobody, Immediate}
  <2>1. PICK n \in there : /\ x = Item(n, {"immediate"}, regs, table[n])
                           /\ x.name = n /\ x.only = regs /\ x.version = table[n]
    BY <1>7, <1>9
  <2>2. n \in Names /\ n \in Keys /\ table[n] \in Nat /\ regs \in Nat /\ {"immediate"} \in SUBSET AllFlags
    BY <1>6, NotifierKnown DEF AllFlags
  <2>3. x \in Notice
    BY <2>1, <2>2 DEF Item, Notice
  <2>4. Good("entry", x, regs, table)
    BY <2>1, <2>2 DEF Good, NamesOf
  <2> QED BY <1>2, <2>1, <2>3, <2>4
<1>10. PICK items \in Seq(Notice) :
         /\ items = SetToSeq(S)
         /\ \A i \in 1 .. Len(items) : items[i] \in S
         /\ \A x \in S : \E i \in 1 .. Len(items) : items[i] = x
  <2>1. S \subseteq Notice
    BY <1>9
  <2> QED BY <1>8, <2>1, SeqOfSet, SeqMonotonic
<1>11. \A i \in 1 .. Len(items) :
         /\ Good("entry", items[i], regs, table) /\ items[i].version = table[items[i].name]
         /\ items[i].only \in {Nobody, Immediate}
  BY <1>9, <1>10
<1>12. Sends(items, table, deleted, Immediate')
  <2>1. ASSUME NEW n \in Keys, table[n] # 0, n \notin deleted, IsPrefix(specOf[Immediate].prefix, n)
        PROVE  \E i \in 1 .. Len(items) : items[i].name = n /\ items[i].only = Immediate
    <3>1. n \in there
      BY <1>2, <1>3, <2>1
    <3>2. PICK x : x = Item(n, {"immediate"}, regs, table[n])
      OBVIOUS
    <3>3. x \in S /\ x.name = n /\ x.only = Immediate
      BY <1>2, <1>4, <3>1, <3>2 DEF Item
    <3> QED BY <1>10, <3>3
  <2> QED BY <2>1 DEF Sends
<1>13. \/ /\ owner # Nobody /\ Unlocked(thread[owner])
          /\ thread' = [thread EXCEPT ![owner] = Notified(thread[owner], "entry", items)]
       \/ thread' = thread /\ owner = Nobody
  BY <1>5, <1>10 DEF ToThread
<1>14. /\ changes' \in 0 .. MaxChanges /\ table \in [Names -> 0 .. changes'] /\ table' = table
       /\ deleted \in SUBSET Keys /\ deleted' = deleted /\ "entry" \in Kinds
  BY <1>1, NotifierKnown DEF NotifierInv, NotifierTypes, Kinds
<1>15. TableExact' /\ \A n \in Names : table[n] <= table[n]
  <2>1. \A n \in Names : table[n] \in Nat
    BY NotifierKnown
  <2>2. TableExact'
    BY <1>1 DEF NotifierInv, TableExact
  <2> QED BY <2>1, <2>2
<1>16. UNCHANGED <<owner, started, specOf, regs, local, heard, stopping>>
  BY <1>1
<1> QED BY <1>1, <1>11, <1>12, <1>13, <1>14, <1>15, <1>16, Queued

\* Nothing has begun.
LEMMA NotifierStarts ==
  ASSUME NotifierInit
  PROVE  NotifierInv
<1>1. /\ owner = 0 /\ thread = [t \in Threads |-> NoThread] /\ started = 0 /\ adding = NotAdding /\ regs = 0
      /\ specOf = [r \in Regs |-> <<>>] /\ table = [n \in Names |-> 0] /\ changes = 0 /\ deleted = {}
      /\ stopping = 0 /\ heard = [r \in Regs |-> [n \in Names |-> 0]]
  BY DEF NotifierInit, Nobody, Names
<1>2. PICK b \in BOOLEAN : NoThread = [NoThread EXCEPT !.active = b, !.pc = "none"]
  <2>1. PICK f : f = [k \in Kinds |-> <<>>]
    OBVIOUS
  <2>2. PICK e : e = <<>>
    OBVIOUS
  <2>3. PICK b \in BOOLEAN : b = FALSE
    OBVIOUS
  <2>4. NoThread = [active |-> b, pc |-> "none", woken |-> b, queue |-> f, slots |-> f, free |-> f,
                    kind |-> "entry", at |-> 0, calls |-> Nobody, item |-> e]
    BY <2>1, <2>2, <2>3 DEF NoThread
  <2>5. NoThread = [NoThread EXCEPT !.active = b, !.pc = "none"]
    <3>1. PICK m : m = NoThread
      OBVIOUS
    <3>2. m \in [active : {b}, pc : {"none"}, woken : {b}, queue : {f}, slots : {f}, free : {f},
                  kind : {"entry"}, at : {0}, calls : {Nobody}, item : {e}]
      BY <2>4, <3>1
    <3>3. m = [m EXCEPT !.active = b, !.pc = "none"]
      BY <3>2
    <3> QED BY <3>1, <3>3
  <2> QED BY <2>5
<1>3. ThreadOK(NoThread, regs, table) /\ \A r \in Regs : ~Reaches(NoThread, r)
  <2>1. PICK p \in {"none", "start"} : p = "none"
    OBVIOUS
  <2>2. PICK m : m = NoThread
    OBVIOUS
  <2>3. m = [NoThread EXCEPT !.active = b, !.pc = p] /\ regs \in Nat
    BY <1>1, <1>2, <2>1, <2>2
  <2> QED BY <2>2, <2>3, FreshThread
<1>4. Immediate = Nobody /\ Nobody \notin Regs
  BY <1>1 DEF Immediate, NotAdding, Nobody, Regs
<1>5. \A t \in Threads : \A r \in Regs : ~Knows(t, r)
  BY <1>1, <1>3, <1>4 DEF Knows
<1>6. NotifierTypes
  <2>1. AddingOK
    BY <1>1 DEF AddingOK
  <2> QED BY <1>1, <2>1, NotifierAssumption DEF NotifierTypes
<1>7. ThreadsOK /\ NotBegun /\ TableExact
  BY <1>1, <1>3 DEF ThreadsOK, NotBegun, TableExact
<1>8. OneHome /\ ToldOlder
  BY <1>5 DEF OneHome, ToldOlder
<1>9. HeardOK
  BY <1>1 DEF HeardOK
<1>10. LocalKnown /\ AllDue
  BY <1>1 DEF LocalKnown, AllDue, Nobody
<1> QED BY <1>6, <1>7, <1>8, <1>9, <1>10 DEF NotifierInv

\* Each step keeps a sound state, and tells nobody what is older.
LEMMA NotifierSteps ==
  ASSUME NotifierInv, [NotifierNext]_notifierVars
  PROVE  /\ NotifierInv'
         /\ \A r \in Regs : \A n \in DOMAIN heard[r] : heard'[r][n] >= heard[r][n]
<1>0. SUFFICES \/ NotifierInv' /\ UNCHANGED heard
               \/ NotifierInv' /\ \A r \in Regs : \A n \in DOMAIN heard[r] : heard'[r][n] >= heard[r][n]
  <2>1. ASSUME NEW r \in Regs, NEW n \in DOMAIN heard[r] PROVE heard[r][n] >= heard[r][n]
    <3>1. heard[r][n] \in Nat
      BY NotifierKnown
    <3> QED BY <3>1
  <2> QED BY <2>1
<1>1. CASE UNCHANGED notifierVars
  <2>1. /\ UNCHANGED <<owner, thread, started, specOf, regs, adding, local, table, changes, deleted, stopping, heard>>
    BY <1>1 DEF notifierVars, program
  <2>2. \A t, r : Knows(t, r)' <=> Knows(t, r)
    BY <2>1 DEF Knows, Immediate
  <2>3. NotifierTypes' /\ NotBegun' /\ TableExact' /\ HeardOK'
    BY <2>1 DEF NotifierInv, NotifierTypes, AddingOK, NotBegun, TableExact, HeardOK
  <2>4. ThreadsOK' /\ OneHome' /\ ToldOlder'
    BY <2>1, <2>2 DEF NotifierInv, ThreadsOK, OneHome, ToldOlder
  <2>5. LocalKnown' /\ AllDue'
    BY <2>1 DEF NotifierInv, LocalKnown, AllDue, Immediate
  <2> QED BY <2>1, <2>3, <2>4, <2>5 DEF NotifierInv
<1>2. CASE ChangeEntry
  BY <1>2, EntryKeeps DEF ChangeEntry
<1>3. CASE ChangeConnection
  BY <1>3, ConnectionKeeps DEF ChangeConnection
<1>4. ASSUME NEW s \in Specs, AddBegins("entry", s) PROVE NotifierInv' /\ UNCHANGED heard
  <2>1. "entry" \in Kinds /\ s \in Specs \cup {<<>>}
    BY DEF Kinds
  <2>2. UNCHANGED heard
    BY <1>4 DEF AddBegins
  <2> QED BY <1>4, <2>1, <2>2, AddBeginsKeeps
<1>5. CASE AddBegins("conn", <<>>)
  <2>1. "conn" \in Kinds /\ <<>> \in Specs \cup {<<>>}
    BY DEF Kinds
  <2>2. UNCHANGED heard
    BY <1>5 DEF AddBegins
  <2> QED BY <1>5, <2>1, <2>2, AddBeginsKeeps
<1>6. CASE AddPlaces
  BY <1>6, AddPlacesKeeps DEF AddPlaces
<1>7. CASE AddNotifies
  BY <1>7, AddNotifiesKeeps DEF AddNotifies
<1>8. ASSUME NEW k \in Kinds, NEW uid \in Regs, RemoveListener(k, uid) PROVE NotifierInv' /\ UNCHANGED heard
  BY <1>8, RemoveKeeps DEF RemoveListener
<1>9. CASE StopNotifier
  BY <1>9, StopKeeps DEF StopNotifier
<1>10. CASE StopWakes
  BY <1>10, StopWakesKeeps DEF StopWakes
<1>11. ASSUME NEW t \in Threads, Looks(t) PROVE NotifierInv' /\ UNCHANGED heard
  BY <1>11, LooksKeeps DEF Looks
<1>12. ASSUME NEW t \in Threads, FallsAsleep(t) PROVE NotifierInv' /\ UNCHANGED heard
  BY <1>12, FallsAsleepKeeps DEF FallsAsleep
<1>13. ASSUME NEW t \in Threads, Wakes(t) PROVE NotifierInv' /\ UNCHANGED heard
  BY <1>13, WakesKeeps DEF Wakes
<1>14. ASSUME NEW t \in Threads, Takes(t) PROVE NotifierInv' /\ UNCHANGED heard
  BY <1>14, TakesKeeps DEF Takes
<1>15. ASSUME NEW t \in Threads, CallsListener(t)
       PROVE  NotifierInv' /\ \A r \in Regs : \A n \in DOMAIN heard[r] : heard'[r][n] >= heard[r][n]
  BY <1>15, CallsKeeps
<1> QED BY <1>1, <1>2, <1>3, <1>4, <1>5, <1>6, <1>7, <1>8, <1>9, <1>10, <1>11, <1>12, <1>13, <1>14, <1>15
        DEF NotifierNext, ThreadStep

\* In a sound state the property holds.
LEMMA NoticesKept ==
  ASSUME NotifierInv
  PROVE  NoticesArrive
<1>1. NotifierTypeOK
  <2>1. ASSUME NEW t \in Threads
        PROVE  /\ thread[t].pc \in {"none", "start", "top", "sleep", "wait", "take", "calling", "gone"}
               /\ thread[t].pc = "calling" => thread[t].calls \in 1 .. regs
               /\ \A k \in Kinds : thread[t].slots[k] \in Seq(0 .. regs)
    <3>1. ThreadOK(thread[t], regs, table) /\ thread[t].pc \in ThreadPlaces
      BY NotifierKnown, ThreadFields
    <3> QED BY <3>1 DEF ThreadOK, ItemGood, ThreadPlaces
  <2> QED BY <2>1 DEF NotifierInv, NotifierTypes, NotifierTypeOK
<1>2. FreeListExact
  BY NotifierKnown DEF FreeListExact, ThreadOK, FreeExact
<1>3. NeverSleepsOnWork
  BY NotifierKnown DEF NeverSleepsOnWork, ThreadOK, WaitsWoken
<1>4. HeardAll
  <2> SUFFICES ASSUME owner # Nobody, Quiescent(thread[owner]), adding = NotAdding,
                      NEW r \in ToSet(thread[owner].slots["entry"]) \ {Nobody}, AsksForAll(specOf[r]),
                      NEW n \in Keys, IsPrefix(specOf[r].prefix, n), table[n] # 0, n \notin deleted
               PROVE  heard[r][n] = table[n]
    BY DEF HeardAll
  <2>1. PICK m : m = thread[owner]
    OBVIOUS
  <2>2. m.pc = "wait" /\ ~m.woken /\ ThreadOK(m, regs, table) /\ m \in ThreadRec
    BY <2>1, NotifierKnown DEF Quiescent
  <2>3. m.queue["entry"] = <<>>
    BY <2>2 DEF ThreadOK, WaitsWoken, Idle, Kinds
  <2>4. PICK j \in DOMAIN m.slots["entry"] : m.slots["entry"][j] = r
    BY <2>1 DEF ToSet
  <2>5. Owed(m, specOf, heard, table, deleted, Immediate) /\ Immediate = Nobody
    BY <2>1 DEF NotifierInv, AllDue, Immediate, NotAdding
  <2>6. Due(m, heard[r], table, j, r, n)
    BY <2>4, <2>5 DEF Owed
  <2> QED BY <2>2, <2>3, <2>6 DEF Due
<1> QED BY <1>1, <1>2, <1>3, <1>4 DEF NoticesArrive

\* Whatever is added, removed, changed and stopped, and in whatever order: the
\* threads and their lists have their types, the lists of free places are exact,
\* no thread sleeps on work, and when the thread sleeps every listener that asked
\* for everything knows every entry it asked for.
THEOREM NotifierSafe == NotifierSpec => []NoticesArrive
<1>1. NotifierInit => NotifierInv
  BY NotifierStarts
<1>2. NotifierInv /\ [NotifierNext]_notifierVars => NotifierInv'
  BY NotifierSteps
<1>3. NotifierInv => NoticesArrive
  BY NoticesKept
<1> QED BY <1>1, <1>2, <1>3, PTL DEF NotifierSpec

\* No step, of the program or of any thread, tells a listener of an entry what is
\* older than what it was told of it before.
THEOREM NotifierOrder == NotifierSpec => HeardInOrder
<1>1. NotifierInit => NotifierInv
  BY NotifierStarts
<1>2. NotifierInv /\ [NotifierNext]_notifierVars => NotifierInv'
  BY NotifierSteps
<1>3. NotifierInv /\ [NotifierNext]_notifierVars =>
        [\A r \in Regs : \A n \in DOMAIN heard[r] : heard'[r][n] >= heard[r][n]]_notifierVars
  BY NotifierSteps
<1> QED BY <1>1, <1>2, <1>3, PTL DEF NotifierSpec, HeardInOrder
=============================================================================
