---------------------------- MODULE MasterControl ----------------------------
(***************************************************************************)
(* The program of the camera computer: MasterControl's loop, the two       *)
(* target finders, the rectangle finder with its camera, and the           *)
(* configuration files (Vision/*.cpp).                                     *)
(*                                                                         *)
(* The loop runs on the main thread, ValueChanged on the notifier's.  A    *)
(* picture is the rectangles around its contours, each with its corner,    *)
(* size and brightness; OpenCV's part in finding them is left out.  Angles *)
(* are in half pixels from the middle, distances in millionths of an inch. *)
(* Messages, and the two flags that only decide which of them are shown,   *)
(* are left out.                                                           *)
(***************************************************************************)
EXTENDS Integers, Sequences, FiniteSets, SequencesExt, FiniteSetsExt

CONSTANTS ConfigFiles, \* files, as sequences of lines, each of one or two words
          UIntOf,      \* the number of each word that std::stoul accepts
          Pictures,    \* sequences of rectangles, as findContours gives them
          MaxRefresh,  \* MAX_REFRESH_DOUBLE: 10000
          MaxModes     \* bound: times the robot sets the mode

ASSUME MasterControlAssumption == MaxRefresh \in Nat \ {0} /\ MaxModes \in Nat

VARIABLES config,      \* of the rectangle finders, and useQuadratic
          configFile,  \* ghost: the lines it was read from
          told,        \* modes set by the robot, not yet given to the listener
          modesSet,    \* how many there have been
          lookingForPeg,
          opened,      \* keys whose camera isOpened()
          plugged,     \* keys whose camera is there and works
          refresh,     \* pegRefresh, highGoalRefresh
          loopAt,      \* where the loop stands
          key,         \* whose finder this pass uses
          rectangles,  \* what GetRectangles returned in this pass
          targetData,  \* and what was made of it
          entry,       \* the two entries of the table
          silent,      \* ghost: an entry was written with what it held already
          pictured     \* ghost: the picture each entry was computed from

finderVars == <<config, configFile, told, modesSet, lookingForPeg, opened, plugged, refresh,
                loopAt, key, rectangles, targetData, entry, silent, pictured>>

TargetKeys == {"peg", "highGoal"}
XResolution == 640   YResolution == 460
NoDistance == -1
NoAngle == -4509   \* 180 degrees, in half pixels: beyond the picture
-----------------------------------------------------------------------------
(* ConfigReader.                                                           *)

\* Lines mean nothing to >>: a key and a value are the next two words.
WordsOf(lines) == FlattenSeq(lines)

\* emplace() keeps the first of a key.
Lookup(words, k) ==
  LET at == {i \in 1 .. Len(words) \div 2 : words[2 * i - 1] = k}
  IN IF at = {} THEN "" ELSE words[2 * Min(at)]

GetBool(words, k, default) ==
  IF Lookup(words, k) \in {"true", "false"} THEN Lookup(words, k) = "true" ELSE default

GetUInt(words, k, default) ==
  IF Lookup(words, k) \in DOMAIN UIntOf THEN UIntOf[Lookup(words, k)] ELSE default

\* A file without VALUE_MAX gives it the default of VALUE_MIN.
ReadConfig(words) ==
  [useCamera    |-> GetBool(words, "USE_CAMERA", TRUE),
   valueMin     |-> GetUInt(words, "VALUE_MIN", 37),
   valueMax     |-> GetUInt(words, "VALUE_MAX", 37),
   useQuadratic |-> GetBool(words, "USE_QUADRATIC", TRUE)]
-----------------------------------------------------------------------------
(* The finders.                                                            *)

Left(r) == r.x   Right(r) == r.x + r.w   Top(r) == r.y   Bottom(r) == r.y + r.h

InView(r) ==
  /\ Left(r) >= 2 /\ Right(r) <= XResolution - 2
  /\ Top(r) >= 2 /\ Bottom(r) <= YResolution - 2

IsPeg(r)  == r.h \in 28 .. 90 /\ InView(r)
IsGoal(r) == r.w \in 50 .. 100 /\ r.h \in 12 .. 45 /\ InView(r)

HalfPixels(from, to) == from + to - XResolution

CalculateQuadraticDistance(y) ==
  197 * y * y + (138 * y * y) \div 1000 + 84058 * y + (888 * y) \div 1000 + 32021895

\* Highest row of each band of the table; the bands are three inches apart.
LookupBands == <<106, 127, 149, 169, 188, 206, 224, 241, 258, 275, 292, 306, 320, 335, 349,
                 362, 374, 384, 395, 408, 424, 437, 443>>
CalculateLookupDistance(y) ==
  LET bands == {i \in DOMAIN LookupBands : y <= LookupBands[i]}
  IN IF bands = {} THEN NoDistance ELSE 41500000 + 3000000 * (Min(bands) - 1)

NoTarget == [angle |-> NoAngle, distance |-> NoDistance]

\* The first of the rectangles, largest first, that no other goes beyond.
FirstBest(rs, Fits(_), Beyond(_, _)) ==
  FoldLeft(LAMBDA best, i : IF Fits(rs[i]) /\ (best = 0 \/ Beyond(rs[i], rs[best])) THEN i ELSE best,
           0, [i \in DOMAIN rs |-> i])

PegTarget(rs) ==
  LET left  == FirstBest(rs, IsPeg, LAMBDA r, b : Left(r) < Left(b))
      right == FirstBest(rs, IsPeg, LAMBDA r, b : Right(r) > Right(b))
  IN IF left = right THEN NoTarget   \* none, or one only
     ELSE [angle |-> HalfPixels(Left(rs[left]), Right(rs[right])), distance |-> 1000000]

GoalTarget(rs) ==
  LET top == FirstBest(rs, IsGoal, LAMBDA r, b : Top(r) < Top(b))
  IN IF top = 0 THEN NoTarget
     ELSE [angle |-> HalfPixels(Left(rs[top]), Right(rs[top])),
           distance |-> IF Top(rs[top]) \notin 90 .. 443 THEN NoDistance
                        ELSE IF config.useQuadratic
                        THEN CalculateQuadraticDistance(Top(rs[top]))
                        ELSE CalculateLookupDistance(Top(rs[top]))]

Area(r) == r.w * r.h
\* std::sort() leaves rectangles of one area in any order.
Sorted(rs) ==
  {s \in {[i \in DOMAIN rs |-> rs[p[i]]] : p \in SetToSeqs(DOMAIN rs)} :
     \A i \in 2 .. Len(s) : Area(s[i - 1]) >= Area(s[i])}

\* inRange() keeps what is bright enough, and not too bright.
FilterRange(rs) == SelectSeq(rs, LAMBDA r : r.v \in config.valueMin .. config.valueMax)
-----------------------------------------------------------------------------
(* The loop.                                                               *)

FinderInit ==
  /\ configFile \in ConfigFiles /\ config = ReadConfig(WordsOf(configFile))
  /\ told = <<>> /\ modesSet = 0 /\ lookingForPeg = FALSE
  /\ opened = {} /\ plugged \in SUBSET TargetKeys
  /\ refresh = [k \in TargetKeys |-> 0]
  /\ loopAt = "choose" /\ key = "highGoal"
  /\ rectangles = <<>> /\ targetData = NoTarget
  /\ entry = [k \in TargetKeys |-> <<>>] /\ silent = FALSE
  /\ pictured = [k \in TargetKeys |-> <<>>]

ChooseFinder ==
  /\ loopAt = "choose" /\ loopAt' = "open"
  /\ key' = IF lookingForPeg THEN "peg" ELSE "highGoal"
  /\ UNCHANGED <<config, configFile, told, modesSet, lookingForPeg, opened, plugged, refresh,
                 rectangles, targetData, entry, silent, pictured>>

\* A camera that was opened counts as open, whatever becomes of it.
Open ==
  /\ loopAt = "open" /\ loopAt' = "look"
  /\ opened' = IF config.useCamera /\ key \in plugged THEN opened \cup {key} ELSE opened
  /\ UNCHANGED <<config, configFile, told, modesSet, lookingForPeg, plugged, refresh, key,
                 rectangles, targetData, entry, silent, pictured>>

LooksAt(rs) ==
  /\ loopAt = "look" /\ loopAt' = "put"
  /\ rectangles' = rs
  /\ targetData' = IF key = "peg" THEN PegTarget(rs) ELSE GoalTarget(rs)
  /\ UNCHANGED <<config, configFile, told, modesSet, lookingForPeg, opened, plugged, refresh, key,
                 entry, silent, pictured>>

\* A picture is taken and gone through.
Sees(picture) ==
  /\ ~config.useCamera \/ key \in opened \cap plugged
  /\ \E rs \in Sorted(FilterRange(picture)) : LooksAt(rs)

\* There is no camera.
SeesNothing == config.useCamera /\ key \notin opened /\ LooksAt(<<>>)

\* The camera gives an empty picture, or OpenCV fails: no rectangles.
LookFails == (~config.useCamera \/ key \in opened) /\ LooksAt(<<>>)

\* Mutant of PutNumberArray: says nothing of a target that was not found.
PutNumberArrayIfFound ==
  /\ loopAt = "put" /\ loopAt' = "choose"
  /\ entry' = IF targetData.angle = NoAngle /\ entry[key] # <<>> THEN entry
              ELSE [entry EXCEPT ![key] = <<targetData.angle, targetData.distance, refresh[key]>>]
  /\ silent' = (silent \/ entry' = entry)
  /\ pictured' = [pictured EXCEPT ![key] = rectangles]
  /\ refresh' = [refresh EXCEPT ![key] = IF @ >= MaxRefresh THEN 0 ELSE @ + 1]
  /\ rectangles' = <<>> /\ targetData' = NoTarget
  /\ UNCHANGED <<config, configFile, told, modesSet, lookingForPeg, opened, plugged, key>>

PutNumberArray ==
  /\ loopAt = "put" /\ loopAt' = "choose"
  /\ entry' = [entry EXCEPT ![key] = <<targetData.angle, targetData.distance, refresh[key]>>]
  /\ silent' = (silent \/ entry' = entry)
  /\ pictured' = [pictured EXCEPT ![key] = rectangles]
  /\ refresh' = [refresh EXCEPT ![key] = IF @ >= MaxRefresh THEN 0 ELSE @ + 1]
  /\ rectangles' = <<>> /\ targetData' = NoTarget
  /\ UNCHANGED <<config, configFile, told, modesSet, lookingForPeg, opened, plugged, key>>

\* The listener, between any two steps of the loop.
ValueChanged ==
  /\ told # <<>>
  /\ lookingForPeg' = Head(told) /\ told' = Tail(told)
  /\ UNCHANGED <<config, configFile, modesSet, opened, plugged, refresh, loopAt, key,
                 rectangles, targetData, entry, silent, pictured>>

\* The robot sets the mode, and a cable is pulled or put back.
RobotSetsMode(b) ==
  /\ modesSet < MaxModes /\ modesSet' = modesSet + 1
  /\ told' = Append(told, b)
  /\ UNCHANGED <<config, configFile, lookingForPeg, opened, plugged, refresh, loopAt, key,
                 rectangles, targetData, entry, silent, pictured>>

CableMoves(k) ==
  /\ plugged' = IF k \in plugged THEN plugged \ {k} ELSE plugged \cup {k}
  /\ UNCHANGED <<config, configFile, told, modesSet, lookingForPeg, opened, refresh, loopAt,
                 key, rectangles, targetData, entry, silent, pictured>>

FinderNext ==
  \/ ChooseFinder \/ Open \/ SeesNothing \/ LookFails \/ PutNumberArray \/ ValueChanged
  \/ \E p \in Pictures : Sees(p)
  \/ \E b \in BOOLEAN : RobotSetsMode(b)
  \/ \E k \in TargetKeys : CableMoves(k)

FinderSpec == FinderInit /\ [][FinderNext]_finderVars
-----------------------------------------------------------------------------
(* Properties.                                                             *)

\* What the robot takes for a target is one, in the picture of the very pass that
\* wrote the entry: a pass without a camera or a picture never leaves the target of
\* an earlier one standing, and says so by the angle and distance the robot refuses.
TargetsAreSeen ==
  \A k \in TargetKeys : entry[k] # <<>> =>
    LET fit == SelectSeq(pictured[k], LAMBDA r : IF k = "peg" THEN IsPeg(r) ELSE IsGoal(r))
        angle == entry[k][1]  distance == entry[k][2]
        lefts == {Left(r) : r \in ToSet(fit)}  rights == {Right(r) : r \in ToSet(fit)}
    IN /\ distance # NoDistance => angle # NoAngle /\ fit # <<>>
       /\ angle # NoAngle /\ k = "peg" =>
            Cardinality(ToSet(fit)) > 1 /\ angle = HalfPixels(Min(lefts), Max(rights))
       /\ angle # NoAngle /\ k = "highGoal" =>
            \E r \in ToSet(fit) :
              /\ angle = HalfPixels(Left(r), Right(r))
              /\ \A s \in ToSet(fit) : Top(r) <= Top(s)
              /\ distance # NoDistance <=> Top(r) \in 90 .. 443

\* The table tells its listeners only of a value that differs: whatever the camera
\* sees, an entry that is written differs from what it held, so that the robot
\* hears of every pass.
EveryPassIsHeard == ~silent

\* Both ways to compute a distance agree to within two and a half inches over all rows they
\* are used for, and neither gives the mark of no distance there.
DistancesAgree ==
  \A y \in 90 .. 443 :
    /\ CalculateLookupDistance(y) # NoDistance
    /\ LET apart == CalculateLookupDistance(y) - CalculateQuadraticDistance(y)
       IN apart \in -2500000 .. 2500000

\* A file whose lines are all pairs, no key twice, gives each key its line's value.
ConfigAsWritten ==
  LET keys == {configFile[i][1] : i \in DOMAIN configFile}
  IN (\A i \in DOMAIN configFile : Len(configFile[i]) = 2) /\ Cardinality(keys) = Len(configFile)
     => \A i \in DOMAIN configFile :
          Lookup(WordsOf(configFile), configFile[i][1]) = configFile[i][2]

TargetsSound == TargetsAreSeen /\ EveryPassIsHeard /\ DistancesAgree /\ ConfigAsWritten
=============================================================================
