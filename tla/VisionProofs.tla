----------------------------- MODULE VisionProofs -----------------------------
(***************************************************************************)
(* The robot's end of the link to the camera computer: that the turret is  *)
(* never turned by an image older than its time says, for any number of    *)
(* images.  And the other end: that every pass of the camera computer's    *)
(* loop is heard by the robot, for any pictures, configuration files and   *)
(* modes, and for any number of passes.                                    *)
(***************************************************************************)
EXTENDS VisionLink, MasterControl, TLAPS

(***************************************************************************)
(* What the listener may have left to store: an end of one of the two      *)
(* orders of setTarget().                                                  *)
(***************************************************************************)
StoringEnds ==
  { << >>,
    << <<"BOILER", "distance">>, <<"BOILER", "angle">>, <<"BOILER", "time">> >>,
    << <<"BOILER", "angle">>, <<"BOILER", "time">> >>,
    << <<"BOILER", "time">> >>,
    << <<"LIFT", "angle">>, <<"LIFT", "time">>, <<"LIFT", "distance">> >>,
    << <<"LIFT", "time">>, <<"LIFT", "distance">> >>,
    << <<"LIFT", "distance">> >> }

ImageTypeOK ==
  /\ received \in Nat
  /\ image \in [Targets -> [Fields -> Nat]]
  /\ storing \in StoringEnds
  /\ aim \in [angle : Nat, time : Nat]
  /\ pc \in [{"Vision", "Shooter"} ->
               {"loop", "check", "led", "send", "take", "boiler", "lift", "angle"}]

\* The time is stored last of the boiler's fields.
AngleBeforeTime ==
  /\ image["BOILER"].time <= image["BOILER"].angle
  /\ image["BOILER"].angle <= received
  /\ storing = << <<"BOILER", "time">> >> => image["BOILER"].angle = received

\* The Shooter reads the angle after the time: what it will read is no older.
TimeBeforeAngle == pc["Shooter"] = "angle" => aim.time <= image["BOILER"].angle

AimInv == ImageTypeOK /\ AngleBeforeTime /\ TimeBeforeAngle /\ AimVouchedFor

LEMMA AimInvInit == Init => AimInv
BY DEF Init, AimInv, ImageTypeOK, StoringEnds, AngleBeforeTime, TimeBeforeAngle,
       AimVouchedFor, Targets, Target, Fields

(***************************************************************************)
(* What a step of the listener stores, and what that leaves to store.      *)
(***************************************************************************)
LEMMA StoringStep ==
  ASSUME storing \in StoringEnds, storing # <<>>
  PROVE  /\ Head(storing) \in Targets \X Fields
         /\ Tail(storing) \in StoringEnds
         /\ Tail(storing) = << <<"BOILER", "time">> >>
              => Head(storing) = <<"BOILER", "angle">>
         /\ Head(storing) = <<"BOILER", "time">>
              => storing = << <<"BOILER", "time">> >>
<1> USE DEF Targets, Target, Fields
<1>1. CASE storing = << <<"BOILER", "distance">>, <<"BOILER", "angle">>, <<"BOILER", "time">> >>
  <2>1. /\ Head(storing) = <<"BOILER", "distance">>
        /\ Tail(storing) = << <<"BOILER", "angle">>, <<"BOILER", "time">> >>
    BY <1>1
  <2> QED BY <1>1, <2>1 DEF StoringEnds
<1>2. CASE storing = << <<"BOILER", "angle">>, <<"BOILER", "time">> >>
  <2>1. /\ Head(storing) = <<"BOILER", "angle">>
        /\ Tail(storing) = << <<"BOILER", "time">> >>
    BY <1>2
  <2> QED BY <1>2, <2>1 DEF StoringEnds
<1>3. CASE storing = << <<"BOILER", "time">> >>
  <2>1. Head(storing) = <<"BOILER", "time">> /\ Tail(storing) = << >>
    BY <1>3
  <2> QED BY <1>3, <2>1 DEF StoringEnds
<1>4. CASE storing = << <<"LIFT", "angle">>, <<"LIFT", "time">>, <<"LIFT", "distance">> >>
  <2>1. /\ Head(storing) = <<"LIFT", "angle">>
        /\ Tail(storing) = << <<"LIFT", "time">>, <<"LIFT", "distance">> >>
    BY <1>4
  <2> QED BY <1>4, <2>1 DEF StoringEnds
<1>5. CASE storing = << <<"LIFT", "time">>, <<"LIFT", "distance">> >>
  <2>1. /\ Head(storing) = <<"LIFT", "time">>
        /\ Tail(storing) = << <<"LIFT", "distance">> >>
    BY <1>5
  <2> QED BY <1>5, <2>1 DEF StoringEnds
<1>6. CASE storing = << <<"LIFT", "distance">> >>
  <2>1. Head(storing) = <<"LIFT", "distance">> /\ Tail(storing) = << >>
    BY <1>6
  <2> QED BY <1>6, <2>1 DEF StoringEnds
<1> QED BY <1>1, <1>2, <1>3, <1>4, <1>5, <1>6 DEF StoringEnds

LEMMA AimInvNext == AimInv /\ [Next]_vars => AimInv'
<1> SUFFICES ASSUME AimInv, [Next]_vars PROVE AimInv'
  OBVIOUS
<1> USE DEF AimInv
<1>1. CASE UNCHANGED <<images, aim>> /\ \E from, to \in {"loop", "check", "led", "send",
             "take", "boiler", "lift"} : Step("Vision", from, to)
  BY <1>1 DEF images, Step, ImageTypeOK, AngleBeforeTime, TimeBeforeAngle, AimVouchedFor
<1>2. ASSUME NEW t \in Targets, ClearImageData(t), UNCHANGED <<received, storing, aim>>,
             NEW from \in {"boiler", "lift"}, NEW to \in {"loop", "lift"},
             Step("Vision", from, to)
      PROVE  AimInv'
  <2>1. image' \in [Targets -> [Fields -> Nat]]
    BY <1>2 DEF ClearImageData, ImageTypeOK, Fields
  <2>2. /\ image'["BOILER"].angle = image["BOILER"].angle
        /\ image'["BOILER"].time \in {image["BOILER"].time, 0}
    BY <1>2 DEF ClearImageData, ImageTypeOK, Fields, Targets, Target
  <2>3. pc'["Shooter"] = pc["Shooter"] /\ ImageTypeOK'
    BY <1>2, <2>1 DEF Step, ImageTypeOK
  <2>4. image["BOILER"].angle \in Nat
    BY DEF ImageTypeOK, Fields, Targets, Target
  <2> QED BY <1>2, <2>2, <2>3, <2>4 DEF AngleBeforeTime, TimeBeforeAngle, AimVouchedFor
<1>3. CASE VisionThread
  <2>1. CASE OperatorTarget \/ CheckTarget \/ SetLed \/ ServerUpdate \/ TakeTarget
    BY <1>1, <2>1
    DEF OperatorTarget, CheckTarget, SetLed, ServerUpdate, TakeTarget, Step
  <2>2. CASE ClearBoiler
    BY <1>2, <2>2 DEF ClearBoiler, Targets, Target
  <2>3. CASE ClearLift
    BY <1>2, <2>3 DEF ClearLift, Targets, Target
  <2> QED BY <1>3, <2>1, <2>2, <2>3 DEF VisionThread
<1>4. CASE valueChanged
  <2>1. storing' \in {SetTargetOrder(t) : t \in Targets}
    BY <1>4 DEF valueChanged
  <2>2. storing' \in StoringEnds /\ storing' # << <<"BOILER", "time">> >>
    <3>1. ASSUME NEW t \in Targets
          PROVE  /\ SetTargetOrder(t) \in StoringEnds
                 /\ SetTargetOrder(t) # << <<"BOILER", "time">> >>
      <4>1. CASE t = "BOILER"
        BY <4>1 DEF SetTargetOrder, StoringEnds
      <4>2. CASE t = "LIFT"
        BY <4>2 DEF SetTargetOrder, StoringEnds
      <4> QED BY <4>1, <4>2 DEF Targets, Target
    <3> QED BY <2>1, <3>1
  <2> QED BY <1>4, <2>2
          DEF valueChanged, ImageTypeOK, AngleBeforeTime, TimeBeforeAngle, AimVouchedFor,
              Targets, Target, Fields
<1>5. CASE SetTarget
  <2> DEFINE h == Head(storing)
  <2>h. h \in Targets \X Fields
    BY <1>5, StoringStep DEF SetTarget, ImageTypeOK
  <2>1. PICK t \in Targets, f \in Fields : Head(storing) = <<t, f>>
    BY <2>h
  <2>2. image' = [image EXCEPT ![t][f] = received]
    <3>1. Head(storing)[1] = t /\ Head(storing)[2] = f
      BY <2>1
    <3>2. image' = [image EXCEPT ![Head(storing)[1]][Head(storing)[2]] = received]
      BY <1>5 DEF SetTarget
    <3> QED BY <3>1, <3>2, Zenon
  <2>3. image' \in [Targets -> [Fields -> Nat]]
    BY <2>2 DEF ImageTypeOK
  <2>4. ImageTypeOK'
    BY <1>5, <2>3, StoringStep DEF SetTarget, ImageTypeOK
  <2>5. /\ image'["BOILER"].angle \in {image["BOILER"].angle, received}
        /\ <<t, f>> = <<"BOILER", "angle">> => image'["BOILER"].angle = received
        /\ <<t, f>> # <<"BOILER", "angle">> =>
             image'["BOILER"].angle = image["BOILER"].angle
        /\ <<t, f>> # <<"BOILER", "time">> => image'["BOILER"].time = image["BOILER"].time
        /\ <<t, f>> = <<"BOILER", "time">> => image'["BOILER"].time = received
    BY <2>2 DEF ImageTypeOK, Targets, Target, Fields
  <2>6. /\ image["BOILER"].angle \in Nat /\ image["BOILER"].time \in Nat
        /\ received \in Nat
    BY DEF ImageTypeOK, Targets, Target, Fields
  <2>7. /\ storing' = << <<"BOILER", "time">> >> => <<t, f>> = <<"BOILER", "angle">>
        /\ <<t, f>> = <<"BOILER", "time">> => storing = << <<"BOILER", "time">> >>
    BY <1>5, <2>1, StoringStep DEF SetTarget, ImageTypeOK
  <2>8. AngleBeforeTime'
    BY <1>5, <2>5, <2>6, <2>7 DEF SetTarget, AngleBeforeTime
  <2>9. TimeBeforeAngle' /\ AimVouchedFor'
    BY <1>5, <2>5, <2>6
    DEF SetTarget, AngleBeforeTime, TimeBeforeAngle, AimVouchedFor, ImageTypeOK
  <2> QED BY <2>4, <2>8, <2>9
<1>6. CASE GetImageTime
  BY <1>6 DEF GetImageTime, Step, images, ImageTypeOK, AngleBeforeTime, TimeBeforeAngle,
              AimVouchedFor, Targets, Target, Fields
<1>7. CASE Aim
  BY <1>7 DEF Aim, Step, images, ImageTypeOK, AngleBeforeTime, TimeBeforeAngle,
              AimVouchedFor, Targets, Target, Fields
<1>8. CASE ChooseTarget \/ DriverStation \/ UNCHANGED vars
  BY <1>8 DEF ChooseTarget, DriverStation, vars, images, ImageTypeOK, AngleBeforeTime,
              TimeBeforeAngle, AimVouchedFor
<1> QED BY <1>3, <1>4, <1>5, <1>6, <1>7, <1>8 DEF Next

(***************************************************************************)
(* The turret follows no image older than the one whose time let it, for   *)
(* any number of images (VisionLink's AimVouchedFor).                      *)
(***************************************************************************)
THEOREM AimIsVouchedFor == Spec => []AimVouchedFor
<1>1. AimInv => AimVouchedFor
  BY DEF AimInv
<1> QED BY <1>1, AimInvInit, AimInvNext, PTL DEF Spec

(***************************************************************************)
(* Type correctness rests on what the listener may have left to store.     *)
(***************************************************************************)
LEMMA StoringTyped ==
  ASSUME NEW s \in StoringEnds
  PROVE  s \in Seq(Targets \X Fields) /\ Len(s) <= 3
<1> USE DEF Targets, Target, Fields
<1> DEFINE S == Targets \X Fields
<1>1. << >> \in Seq(S) /\ Len(<< >>) = 0
  OBVIOUS
<1>2. ASSUME NEW a \in S PROVE <<a>> \in Seq(S) /\ Len(<<a>>) = 1
  OBVIOUS
<1>3. ASSUME NEW a \in S, NEW b \in S PROVE <<a, b>> \in Seq(S) /\ Len(<<a, b>>) = 2
  OBVIOUS
<1>4. ASSUME NEW a \in S, NEW b \in S, NEW c \in S
      PROVE  <<a, b, c>> \in Seq(S) /\ Len(<<a, b, c>>) = 3
  OBVIOUS
<1>5. /\ <<"BOILER", "distance">> \in S /\ <<"LIFT", "distance">> \in S
      /\ <<"BOILER", "angle">> \in S /\ <<"LIFT", "angle">> \in S
      /\ <<"BOILER", "time">> \in S /\ <<"LIFT", "time">> \in S
  OBVIOUS
<1>6. s \in Seq(S) /\ Len(s) <= 3
  <2> HIDE DEF S
  <2>1. /\ <<>> \in Seq(S) /\ Len(<<>>) = 0
        /\ \A a \in S : <<a>> \in Seq(S) /\ Len(<<a>>) = 1
        /\ \A a, b \in S : <<a, b>> \in Seq(S) /\ Len(<<a, b>>) = 2
        /\ \A a, b, c \in S : <<a, b, c>> \in Seq(S) /\ Len(<<a, b, c>>) = 3
    BY <1>1, <1>2, <1>3, <1>4
  <2>2. 0 <= 3 /\ 1 <= 3 /\ 2 <= 3 /\ 3 <= 3
    OBVIOUS
  <2> QED BY <2>1, <2>2, <1>5, ZenonT(40) DEF StoringEnds
<1> QED BY <1>6

\* What a step stores is the number of an image received.
LEMMA TypeNext == TypeOK /\ AimInv /\ [Next]_vars => TypeOK'
<1> SUFFICES ASSUME TypeOK, AimInv, [Next]_vars PROVE TypeOK'
  OBVIOUS
<1>1. storing' \in Seq(Targets \X Fields) /\ Len(storing') <= 3
  <2>1. storing' \in StoringEnds
    BY AimInvNext DEF AimInv, ImageTypeOK
  <2> QED BY <2>1, StoringTyped
<1>2. /\ targetType' \in Target /\ target' \in Target
      /\ led' \in BOOLEAN /\ liftMode' \in BOOLEAN /\ mode' \in Modes
  <2> USE DEF TypeOK
  <2>1. CASE VisionThread
    BY <2>1 DEF VisionThread, OperatorTarget, CheckTarget, SetLed, ServerUpdate, TakeTarget,
                ClearBoiler, ClearLift, vision, Target
  <2>2. CASE ~VisionThread
    BY <2>2 DEF Next, valueChanged, SetTarget, GetImageTime, Aim, ChooseTarget, DriverStation,
                vision, vars
  <2> QED BY <2>1, <2>2
<1>3. image' \in [Targets -> [Fields -> Numbers]]
  <2>1. ASSUME NEW t \in Targets, ClearImageData(t) PROVE image' \in [Targets -> [Fields -> Numbers]]
    <3>1. 0 \in Numbers
      BY MaxImagesAssumption DEF Numbers
    <3>2. CASE target = t
      BY <2>1, <3>2 DEF ClearImageData, TypeOK
    <3>3. CASE target # t
      BY <2>1, <3>1, <3>3 DEF ClearImageData, TypeOK, Fields
    <3> QED BY <3>2, <3>3
  <2>2. CASE ClearBoiler \/ ClearLift
    BY <2>1, <2>2 DEF ClearBoiler, ClearLift, Targets, Target
  <2>3. CASE SetTarget
    <3>1. Head(storing) \in Targets \X Fields
      BY <2>3, StoringStep DEF SetTarget, AimInv, ImageTypeOK
    <3>2. PICK t \in Targets, f \in Fields : Head(storing)[1] = t /\ Head(storing)[2] = f
      BY <3>1
    <3>3. image' = [image EXCEPT ![t][f] = received]
      BY <2>3, <3>2, Zenon DEF SetTarget
    <3> QED BY <3>3 DEF TypeOK
  <2>4. CASE UNCHANGED image
    BY <2>4 DEF TypeOK
  <2> QED BY <2>2, <2>3, <2>4
          DEF Next, VisionThread, OperatorTarget, CheckTarget, SetLed, ServerUpdate, TakeTarget,
              valueChanged, GetImageTime, Aim, ChooseTarget, DriverStation, images, vars
<1>4. received' \in Numbers
  BY MaxImagesAssumption
  DEF TypeOK, Numbers, Next, VisionThread, OperatorTarget, CheckTarget, SetLed, ServerUpdate,
      TakeTarget, ClearBoiler, ClearLift, valueChanged, SetTarget, GetImageTime, Aim,
      ChooseTarget, DriverStation, images, vars
<1>5. aim' \in [angle : Numbers, time : Numbers]
  <2> USE DEF TypeOK, Targets, Target, Fields
  <2>1. CASE GetImageTime
    BY <2>1, MaxImagesAssumption DEF GetImageTime, Numbers
  <2>2. CASE Aim
    BY <2>2 DEF Aim
  <2>3. CASE UNCHANGED aim
    BY <2>3
  <2> QED BY <2>1, <2>2, <2>3
          DEF Next, VisionThread, OperatorTarget, CheckTarget, SetLed, ServerUpdate, TakeTarget,
              ClearBoiler, ClearLift, valueChanged, SetTarget, ChooseTarget, DriverStation, vars
<1>6. /\ pc'.Vision \in {"loop", "check", "led", "send", "take", "boiler", "lift"}
      /\ pc'.Shooter \in {"loop", "angle"}
  <2> USE DEF TypeOK, AimInv, ImageTypeOK
  <2>1. CASE VisionThread
    BY <2>1 DEF VisionThread, OperatorTarget, CheckTarget, SetLed, ServerUpdate, TakeTarget,
                ClearBoiler, ClearLift, Step
  <2>2. CASE GetImageTime \/ Aim
    BY <2>2 DEF GetImageTime, Aim, Step
  <2>3. CASE UNCHANGED pc
    BY <2>3
  <2> QED BY <2>1, <2>2, <2>3
          DEF Next, valueChanged, SetTarget, ChooseTarget, DriverStation, vars
<1> QED BY <1>1, <1>2, <1>3, <1>4, <1>5, <1>6 DEF TypeOK

(***************************************************************************)
(* Every variable keeps its type, and the listener never has more than an  *)
(* image's three fields to store (VisionLink's TypeOK).                    *)
(***************************************************************************)
THEOREM VisionTypeCorrect == Spec => []TypeOK
<1>1. Init => TypeOK
  <2> SUFFICES ASSUME Init PROVE TypeOK
    OBVIOUS
  <2>1. 0 \in Numbers
    BY MaxImagesAssumption DEF Numbers
  <2>2. image \in [Targets -> [Fields -> Numbers]] /\ aim \in [angle : Numbers, time : Numbers]
    BY <2>1 DEF Init
  <2>3. storing \in Seq(Targets \X Fields) /\ Len(storing) <= 3
    BY DEF Init
  <2>4. pc.Vision = "loop" /\ pc.Shooter = "loop"
    BY DEF Init
  <2> QED BY <2>1, <2>2, <2>3, <2>4 DEF Init, TypeOK, Target
<1> QED BY <1>1, AimInvInit, AimInvNext, TypeNext, PTL DEF Spec
-------------------------------------------------------------------------------
(***************************************************************************)
(* The camera computer.  An entry holds the number that refresh had before *)
(* it was last increased; so what is written next differs, wherever the    *)
(* number starts again.                                                    *)
(***************************************************************************)

RefreshTypeOK ==
  /\ key \in TargetKeys
  /\ refresh \in [TargetKeys -> 0 .. MaxRefresh]
  /\ entry = [k \in TargetKeys |-> entry[k]]

\* What an entry says of the pass that wrote it is not what the next will say.
RefreshIsNew ==
  \A k \in TargetKeys :
    \/ entry[k] = <<>>
    \/ \E a, d, n : entry[k] = <<a, d, n>> /\ n # refresh[k]

HeardInv == RefreshTypeOK /\ RefreshIsNew /\ EveryPassIsHeard

LEMMA HeardInvInit == FinderInit => HeardInv
BY MasterControlAssumption
   DEF FinderInit, HeardInv, RefreshTypeOK, RefreshIsNew, EveryPassIsHeard, TargetKeys

LEMMA HeardInvPut ==
  ASSUME HeardInv, PutNumberArray
  PROVE  HeardInv'
<1> DEFINE new == <<targetData.angle, targetData.distance, refresh[key]>>
<1>1. /\ key' = key /\ key \in TargetKeys
      /\ entry' = [entry EXCEPT ![key] = new]
      /\ refresh' = [refresh EXCEPT ![key] = IF @ >= MaxRefresh THEN 0 ELSE @ + 1]
      /\ silent' = (silent \/ entry' = entry)
  BY DEF PutNumberArray, HeardInv, RefreshTypeOK
<1>2. /\ entry'[key] = new /\ \A k \in TargetKeys \ {key} : entry'[k] = entry[k]
      /\ entry' = [k \in TargetKeys |-> entry'[k]]
  BY <1>1 DEF HeardInv, RefreshTypeOK
<1>3. /\ refresh'[key] = IF refresh[key] >= MaxRefresh THEN 0 ELSE refresh[key] + 1
      /\ \A k \in TargetKeys \ {key} : refresh'[k] = refresh[k]
      /\ refresh' \in [TargetKeys -> 0 .. MaxRefresh]
  BY <1>1, MasterControlAssumption DEF HeardInv, RefreshTypeOK
<1>4. refresh'[key] # refresh[key]
  BY <1>1, <1>3, MasterControlAssumption DEF HeardInv, RefreshTypeOK
<1>5. RefreshTypeOK'
  BY <1>1, <1>2, <1>3 DEF RefreshTypeOK
<1>6. RefreshIsNew'
  BY <1>2, <1>3, <1>4 DEF HeardInv, RefreshIsNew
<1>7. entry' # entry
  <2>1. CASE entry[key] = <<>>
    BY <1>2, <2>1
  <2>2. ASSUME NEW a, NEW d, NEW n, entry[key] = <<a, d, n>>, n # refresh[key]
        PROVE  entry'[key] # entry[key]
    BY <1>2, <2>2
  <2> QED BY <1>1, <2>1, <2>2 DEF HeardInv, RefreshIsNew
<1>8. EveryPassIsHeard'
  BY <1>1, <1>7 DEF HeardInv, EveryPassIsHeard
<1> QED BY <1>5, <1>6, <1>8 DEF HeardInv

LEMMA HeardInvStep == HeardInv /\ [FinderNext]_finderVars => HeardInv'
<1> SUFFICES ASSUME HeardInv, [FinderNext]_finderVars PROVE HeardInv'
  OBVIOUS
<1>1. ASSUME key' \in TargetKeys, UNCHANGED <<refresh, entry, silent>> PROVE HeardInv'
  BY <1>1 DEF HeardInv, RefreshTypeOK, RefreshIsNew, EveryPassIsHeard
<1>2. CASE UNCHANGED finderVars
  BY <1>1, <1>2 DEF finderVars, HeardInv, RefreshTypeOK
<1>3. CASE ChooseFinder
  BY <1>1, <1>3 DEF ChooseFinder, TargetKeys
<1>4. CASE Open
  BY <1>1, <1>4 DEF Open, HeardInv, RefreshTypeOK
<1>5. ASSUME NEW rs, LooksAt(rs) PROVE HeardInv'
  BY <1>1, <1>5 DEF LooksAt, HeardInv, RefreshTypeOK
<1>6. CASE SeesNothing \/ LookFails \/ \E p \in Pictures : Sees(p)
  BY <1>5, <1>6 DEF SeesNothing, LookFails, Sees
<1>7. CASE PutNumberArray
  BY <1>7, HeardInvPut
<1>8. CASE ValueChanged
  BY <1>1, <1>8 DEF ValueChanged, HeardInv, RefreshTypeOK
<1>9. ASSUME NEW b \in BOOLEAN, RobotSetsMode(b) PROVE HeardInv'
  BY <1>1, <1>9 DEF RobotSetsMode, HeardInv, RefreshTypeOK
<1>10. ASSUME NEW k \in TargetKeys, CableMoves(k) PROVE HeardInv'
  BY <1>1, <1>10 DEF CableMoves, HeardInv, RefreshTypeOK
<1> QED BY <1>2, <1>3, <1>4, <1>6, <1>7, <1>8, <1>9, <1>10 DEF FinderNext

(***************************************************************************)
(* The table tells listeners only of values that differ; yet the robot is  *)
(* told of every pass of the finders, as long as refresh counts at all.    *)
(***************************************************************************)
THEOREM PassesAreHeard == FinderSpec => []EveryPassIsHeard
<1>1. FinderSpec => []HeardInv
  BY HeardInvInit, HeardInvStep, PTL DEF FinderSpec
<1>2. HeardInv => EveryPassIsHeard
  BY DEF HeardInv
<1> QED BY <1>1, <1>2, PTL
===============================================================================
