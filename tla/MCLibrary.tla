----------------------------- MODULE MCLibrary ------------------------------
(* The program of the camera computer, and the parts of its library that   *)
(* one thread uses at a time, run one by one.                              *)
EXTENDS WireCodec, TextFile, Strings, HashTables, Streams, CApi, MasterControl

VARIABLE part   \* the part that runs

allVars == <<part, wireVars, textVars, splitVars, tableVars, outVars, inVars, apiVars, finderVars>>
-----------------------------------------------------------------------------
(* Wire: a double, strings too long for protocol 2.0, one whose length     *)
(* takes two bytes, two entries of which each may be updated.              *)

MCDouble == <<16368, 0, 1, 65535>>
MCString == <<97, 98, 99, 100>>
MCLong   == [i \in 1 .. 130 |-> i]
MCWireValues ==
  {<<"boolean", TRUE>>, <<"double", MCDouble>>, <<"string", MCString>>, <<"raw", <<0, 255>> >>,
   <<"rpc", <<7>> >>, <<"booleanArray", <<TRUE, FALSE, TRUE, TRUE>> >>,
   <<"doubleArray", <<MCDouble>> >>, <<"stringArray", << <<>>, MCString >> >>}
MCWireMessages ==
  [msg : {"keepAlive", "serverHelloDone", "clientHelloDone", "protoUnsup", "clear"}]
  \cup [msg : {"clientHello"}, str : {<<1, 2>>}]
  \cup [msg : {"serverHello"}, flags : {1}, str : {<<1, 2>>}]
  \cup [msg : {"assign"}, str : {<<47>>}, id : {300}, seq : {258}, flags : {1}, value : MCWireValues]
  \cup [msg : {"assign"}, str : {<<>>}, id : {65535}, seq : {0}, flags : {0},
         value : {<<"boolean", TRUE>>}]
  \cup [msg : {"update"}, id : {300}, seq : {65535}, value : MCWireValues]
  \cup [msg : {"update"}, id : {65535}, seq : {1}, value : {<<"boolean", FALSE>>}]
  \cup [msg : {"flags"}, id : {300}, flags : {1}]
  \cup [msg : {"delete"}, id : {300}]
  \cup [msg : {"execute"}, id : {300}, seq : {1}, str : {MCLong}]
  \cup [msg : {"response"}, id : {300}, seq : {1}, str : {<<1, 2>>}]

\* Bound: the third message is an update.
MCSendable == Len(sent') = 3 => Last(sent').msg = "update"
-----------------------------------------------------------------------------
(* Text: names and strings with every mark the text around them uses.      *)

MCStrings == {<<>>, <<9, 10, 92, 120, 1, 255>>, <<59, 44>>, <<92>>, <<97, 34>>}
MCTextEntries ==
  [name : {<<97>>, <<97, 61>>, <<92, 110>>, <<34>>, <<>>},
   value : {<<"boolean", TRUE>>, <<"double", 0>>, <<"double", 1234567>>, <<"rpc", <<1>> >>}
           \cup ({"string", "raw"} \X MCStrings)
           \cup {<<"raw", <<255, 251, 190>> >>, <<"raw", <<0, 62, 255, 16>> >>}
           \cup ({"booleanArray"} \X {<<>>, <<TRUE, FALSE>>})
           \cup ({"doubleArray"} \X {<<>>, <<7, 12345678>>})
           \cup ({"stringArray"} \X ({<<>>} \cup {<<s, t>> : s, t \in MCStrings}))]
MCOtherEntries == {[name |-> <<97, 97>>, value |-> <<"string", <<98>> >>]}
-----------------------------------------------------------------------------
(* Strings over two and three letters; numerals about the bounds of 8 bits. *)

Upto(A, n) == UNION {[1 .. k -> A] : k \in 0 .. n}
MCTexts    == Upto({1, 2}, 5) \cup Upto({1, 2, 3}, 4)
MCNeedles  == Upto({1, 2}, 3)
MCOrdered  == Upto({49, 50, 97, 65}, 2)
              \cup {<<9>>, <<92>>, <<92, 116>>, <<200>>, <<97, 50, 49>>, <<49, 50, 97>>}
MCNumerals == Upto({48, 49, 57, 97}, 3)
              \cup {<<50, 53, 53>>, <<50, 53, 54>>, <<49, 50, 56>>, <<49, 50, 55>>, <<49, 50, 57>>,
                    <<51, 50, 48>>, <<102, 102>>, <<49, 48, 48>>, <<52, 48, 48>>}
-----------------------------------------------------------------------------
(* Tables with two keys in each of two buckets; bytes that cross a         *)
(* buffer's end.                                                           *)

MCHash   == [k \in TableKeys |-> IF k <= 2 THEN 0 ELSE 2]
MCChunks == {<<1>>, <<2, 3, 4, 5, 6>>}
MCSource == <<1, 2, 3, 4, 5>>
-----------------------------------------------------------------------------
(* Pictures: one or two strips of tape at equal and other heights, at an   *)
(* edge of the picture, too dim, and one inside the outline of another.    *)

MCUInts == [w \in {"37", "255"} |-> IF w = "37" THEN 37 ELSE 255]
MCRect(x, y, w, h, v) == [x |-> x, y |-> y, w |-> w, h |-> h, v |-> v]
MCPictures ==
  {<<r>> : r \in {MCRect(300, 100, 60, 40, 200), MCRect(310, 100, 40, 60, 200),
                  MCRect(0, 200, 60, 40, 200), MCRect(300, 410, 60, 40, 37)}}
  \cup {<<MCRect(300, 100, 60, 40, 200), MCRect(310, 100, 60, 40, 200)>>,
        <<MCRect(400, 90, 80, 30, 200), MCRect(300, 100, 60, 40, 200), MCRect(100, 440, 60, 15, 200)>>,
        <<MCRect(310, 110, 40, 60, 200), MCRect(300, 100, 100, 90, 200)>>}
MCConfigFiles ==
  {<<>>,
   << <<"USE_CAMERA", "true">>, <<"VALUE_MIN", "37">>, <<"VALUE_MAX", "255">> >>,
   << <<"USE_CAMERA", "false">>, <<"VALUE_MAX", "255">>, <<"USE_QUADRATIC", "false">>, <<"DEBUG_DIR">> >>,
   << <<"DEBUG_DIR">>, <<"USE_CAMERA", "false">>, <<"VALUE_MAX", "255">> >>}
-----------------------------------------------------------------------------
\* Every part starts in its own initial states, the others in one of theirs.
MCInit ==
  /\ part \in {"wire", "text", "strings", "tables", "output", "input", "api", "finders"}
  /\ part = "wire" \/ wireRev = Rev3
  /\ \/ part = "strings"
     \/ /\ splitting = "char" /\ splitBy = <<1>> /\ subject = <<>>
        /\ keepEmpty = TRUE /\ splitsLeft = 0
  /\ part = "tables" \/ tableKind = "dense"
  /\ part = "output" \/ streamKind = "os"
  /\ part = "input" \/ sourceKind = "mem"
  /\ part = "finders" \/ (configFile = <<>> /\ plugged = {})
  /\ WireInit /\ TextInit /\ SplitInit /\ TablesInit /\ OutInit /\ InInit /\ ApiInit /\ FinderInit

MCNext ==
  /\ UNCHANGED part
  /\ \/ part = "wire" /\ WireNext /\ MCSendable
        /\ UNCHANGED <<textVars, splitVars, tableVars, outVars, inVars, apiVars, finderVars>>
     \/ part = "text" /\ TextNext
        /\ UNCHANGED <<wireVars, splitVars, tableVars, outVars, inVars, apiVars, finderVars>>
     \/ part = "strings" /\ SplitNext
        /\ UNCHANGED <<wireVars, textVars, tableVars, outVars, inVars, apiVars, finderVars>>
     \/ part = "tables" /\ TablesNext
        /\ UNCHANGED <<wireVars, textVars, splitVars, outVars, inVars, apiVars, finderVars>>
     \/ part = "output" /\ OutNext
        /\ UNCHANGED <<wireVars, textVars, splitVars, tableVars, inVars, apiVars, finderVars>>
     \/ part = "input" /\ InNext
        /\ UNCHANGED <<wireVars, textVars, splitVars, tableVars, outVars, apiVars, finderVars>>
     \/ part = "api" /\ ApiNext
        /\ UNCHANGED <<wireVars, textVars, splitVars, tableVars, outVars, inVars, finderVars>>
     \/ part = "finders" /\ FinderNext
        /\ UNCHANGED <<wireVars, textVars, splitVars, tableVars, outVars, inVars, apiVars>>

MCSpec == MCInit /\ [][MCNext]_allVars
-----------------------------------------------------------------------------
\* What is written, on the wire, in the file or as text, is what is read.
CodecsSound == StreamInStep /\ SizesAgree /\ TextSound /\ StringsSound

\* What is put into a table, a stream or a structure for C stays as it was put.
ContainersSound == TablesSound /\ StreamsSound /\ ApiSound
=============================================================================
