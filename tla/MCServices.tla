----------------------------- MODULE MCServices -----------------------------
(* Five parts of a node that do not share state, run one at a time.        *)
EXTENDS RpcCalls, Persistence, Notifier, DsClient, Sockets

VARIABLE part   \* the part that runs

allVars == <<part, rpcVars, persistVars, notifierVars, dsVars, socketVars>>

MCKeys  == {<<"/", "a">>, <<"/", "t", "/", "b">>}
MCAll   == {"new", "update", "delete", "flags", "local", "immediate"}
MCSpecs == {[prefix |-> <<"/">>, flags |-> MCAll],
            [prefix |-> <<"/", "t">>, flags |-> {"new", "update"}]}

\* Bound: where the notifier has a second thread, listeners and changes are two together.
MCFewWithTwo == started' = 2 => changes' + regs' <= 2

\* Bound: nobody crashes once two savers have met, nor do they meet after a crash, when
\* nothing but types is said of the file any more.
MCMeetOrCrash == ~shared' \/ crashes' = 0

MCInit ==
  /\ part \in {"rpc", "persistence", "notifier", "ds", "sockets"}
  /\ RpcInit /\ PersistInit /\ NotifierInit /\ DsInit /\ SocketsInit
  /\ part # "rpc" => onServer /\ polled

MCNext ==
  /\ UNCHANGED part
  /\ \/ part = "rpc" /\ RpcNext
        /\ UNCHANGED <<persistVars, notifierVars, dsVars, socketVars>>
     \/ part = "persistence" /\ PersistNext /\ MCMeetOrCrash
        /\ UNCHANGED <<rpcVars, notifierVars, dsVars, socketVars>>
     \/ part = "notifier" /\ NotifierNext /\ MCFewWithTwo
        /\ UNCHANGED <<rpcVars, persistVars, dsVars, socketVars>>
     \/ part = "ds" /\ DsNext
        /\ UNCHANGED <<rpcVars, persistVars, notifierVars, socketVars>>
     \/ part = "sockets" /\ SocketsNext
        /\ UNCHANGED <<rpcVars, persistVars, notifierVars, dsVars>>

MCSpec == MCInit /\ [][MCNext]_allVars /\ SocketsFairness
=============================================================================
