--------------------------- MODULE MCNetworkTables ---------------------------
EXTENDS NetworkTables
MCClients == {"robot", "jetson"}
MCNames   == {"mode", "peg"}
MCValues  == {<<"boolean", 0>>, <<"boolean", 1>>, <<"double", 0>>}
MCWriters == [n \in MCNames |-> IF n = "mode" THEN {"server"} ELSE {"jetson", "robot"}]
MCWrites  == [n \in MCNames |-> IF n = "mode" THEN MCValues
                                              ELSE {<<"boolean", 0>>}]
=============================================================================
