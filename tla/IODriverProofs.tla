--------------------------- MODULE IODriverProofs ---------------------------
(***************************************************************************)
(* The safety theorems of IODriver, for every value of its constants: any  *)
(* debounce times, touch masks and remote levels, inputs during the boot   *)
(* or not, resets or not, and no bound on the inputs.  Whatever the tasks, *)
(* the controllers, the resets and a rejecting node do, the firmware       *)
(* implements PowerSwitch and sliderTask's copy of the power state heals.  *)
(***************************************************************************)
EXTENDS IODriver, TLAPS

USE ConstantsAssumption

-----------------------------------------------------------------------------
(* What the arithmetic of the dimmer returns, for every argument.          *)

\* REMAP_TO_RANGE(level, 254, 100): every uint8_t level gives a percentage.
LEMMA MatterToPercentType ==
  ASSUME NEW v \in UInt8
  PROVE  MatterToPercent(v) \in Percent
BY DEF MatterToPercent, REMAP_TO_RANGE, UInt8, Percent, MATTER_BRIGHTNESS, STANDARD_BRIGHTNESS

\* set_brightness: a percentage stays one when it is stored.
LEMMA StoredLevelType ==
  ASSUME NEW b \in Percent
  PROVE  StoredLevel(b) \in Percent
BY DEF StoredLevel, Percent, STANDARD_BRIGHTNESS

\* set_brightness: the firing delay of a percentage is within a half period.
LEMMA IntervalForType ==
  ASSUME NEW lvl \in Percent
  PROVE  IntervalFor(lvl) \in Delay
<1>1. lvl \in 0 .. 100
  BY DEF Percent, STANDARD_BRIGHTNESS
<1>2. INTENSITY2TIME(lvl) = (8333 * (100 - lvl)) \div 100
  <2>1. 8333 * (100 - lvl) \in Nat
    BY <1>1
  <2> QED BY <2>1 DEF INTENSITY2TIME, TruncDiv, Abs, MAX_INTERVAL
<1>3. INTENSITY2TIME(lvl) >= 0 /\ INTENSITY2TIME(lvl) <= 8333
  BY <1>1, <1>2
<1> QED BY <1>1, <1>2, <1>3 DEF IntervalFor, Delay, MAX_INTERVAL

\* getLevel: the most significant bit of a nonempty mask is one of the eight.
LEMMA TopBitType ==
  ASSUME NEW touches \in SUBSET Electrode, touches # {}
  PROVE  TopBit(touches) \in 0 .. 7
<1> DEFINE S == {7 - e : e \in touches}
<1>1. S \subseteq 0 .. 7
  BY DEF Electrode
<1>2. S # {}
  <2>1. PICK e \in touches : TRUE
    OBVIOUS
  <2>2. 7 - e \in S
    OBVIOUS
  <2> QED BY <2>2
<1>3. \E x \in S : \A y \in S : x >= y
  <2> HIDE DEF S
  <2>1. CASE 7 \in S
    BY <2>1, <1>1
  <2>2. CASE S \subseteq 0 .. 6 /\ 6 \in S
    BY <2>2
  <2>3. CASE S \subseteq 0 .. 5 /\ 5 \in S
    BY <2>3
  <2>4. CASE S \subseteq 0 .. 4 /\ 4 \in S
    BY <2>4
  <2>5. CASE S \subseteq 0 .. 3 /\ 3 \in S
    BY <2>5
  <2>6. CASE S \subseteq 0 .. 2 /\ 2 \in S
    BY <2>6
  <2>7. CASE S \subseteq 0 .. 1 /\ 1 \in S
    BY <2>7
  <2>8. CASE S \subseteq {0}
    <3>1. 0 \in S
      BY <2>8, <1>2
    <3> QED BY <2>8, <3>1
  <2> QED BY <1>1, <1>2, <2>1, <2>2, <2>3, <2>4, <2>5, <2>6, <2>7, <2>8
<1> QED BY <1>1, <1>3 DEF TopBit, Max

\* getLevel(254): the level of a touch fits in a byte.
LEMMA TouchLevelType ==
  ASSUME NEW touches \in SUBSET Electrode, touches # {}
  PROVE  TouchLevel(touches) \in UInt8
BY TopBitType DEF TouchLevel, LevelAt, UInt8, MATTER_BRIGHTNESS

-----------------------------------------------------------------------------
(* Typing.                                                                 *)

\* Power-up, and a reset, leave everything typed.
LEMMA PowerUpPcType == PowerUpPc \in [Tasks -> Labels]
BY DEF PowerUpPc, Tasks, Labels, MainLabels, SliderLabels, MatterLabels, CallLabels

LEMMA IdleCallType == IdleCall \in CallType
BY DEF IdleCall, CallType, Ops, UInt8, MainLabels

\* The defaults of the device are a byte and a truth value.
LEMMA DefaultsType == DEFAULT_BRIGHTNESS \in UInt8 /\ DEFAULT_POWER \in BOOLEAN
BY DEF DEFAULT_BRIGHTNESS, DEFAULT_POWER, UInt8

LEMMA InitType == Init => TypeOK
<1> SUFFICES ASSUME Init PROVE TypeOK
  OBVIOUS
<1>1. 0 \in UInt8 /\ 0 \in Percent /\ MAX_INTERVAL \div 2 \in Int /\ 0 \in Int
  BY DEF UInt8, Percent, MAX_INTERVAL, STANDARD_BRIGHTNESS
<1>2. DriverType
  BY <1>1 DEF Init, DriverType
<1>3. GlobalsType /\ OutputType
  BY <1>1 DEF Init, GlobalsType, OutputType
<1>4. NodeType
  BY DefaultsType DEF Init, NodeType
<1>5. TimeType
  BY DEF Init, TimeType
<1>6. SensorType
  BY DEF Init, SensorType
<1>7. ControlType
  BY PowerUpPcType, IdleCallType DEF Init, ControlType
<1> QED BY <1>2, <1>3, <1>4, <1>5, <1>6, <1>7 DEF TypeOK

\* Each part of the type invariant depends on its own variables.
LEMMA UnchangedTypes ==
  ASSUME TypeOK
  PROVE  /\ UNCHANGED drvVars => DriverType'
         /\ UNCHANGED ioVars => GlobalsType'
         /\ UNCHANGED outVars => OutputType'
         /\ UNCHANGED nodeVars => NodeType'
         /\ UNCHANGED timeVars => TimeType'
         /\ UNCHANGED touchVars => SensorType'
BY DEF TypeOK, DriverType, GlobalsType, OutputType, NodeType, TimeType, SensorType,
       drvVars, ioVars, outVars, nodeVars, timeVars, touchVars

\* A jump and a call keep the control state typed.
LEMMA GotoType ==
  ASSUME TypeOK, NEW p \in Tasks, NEW l \in Labels, Goto(p, l)
  PROVE  pc' \in [Tasks -> Labels]
BY DEF TypeOK, ControlType, Goto

LEMMA InvokeType ==
  ASSUME TypeOK, NEW p \in Tasks, NEW op \in Ops, NEW on \in BOOLEAN, NEW lvl \in UInt8,
         NEW start \in Labels, NEW ret \in MainLabels \cup SliderLabels \cup MatterLabels,
         Invoke(p, op, on, lvl, start, ret)
  PROVE  pc' \in [Tasks -> Labels] /\ call' \in [Tasks -> CallType]
<1>1. [op |-> op, on |-> on, lvl |-> lvl, ret |-> ret] \in CallType
  BY DEF CallType
<1> QED BY <1>1, GotoType DEF Invoke, TypeOK, ControlType

LEMMA ReturnType ==
  ASSUME TypeOK, NEW p \in Tasks, Return(p)
  PROVE  pc' \in [Tasks -> Labels] /\ call' \in [Tasks -> CallType]
<1>1. call[p].ret \in Labels
  BY DEF TypeOK, ControlType, CallType, Labels
<1> QED BY <1>1, GotoType, IdleCallType DEF Return, TypeOK, ControlType

LEMMA UpdateOnOffType ==
  ASSUME TypeOK, NEW p \in Tasks, NEW on \in BOOLEAN,
         NEW ret \in MainLabels \cup SliderLabels \cup MatterLabels,
         UpdateOnOff(p, on, ret)
  PROVE  pc' \in [Tasks -> Labels] /\ call' \in [Tasks -> CallType]
<1>1. "lock" \in Labels /\ "OnOff" \in Ops /\ 0 \in UInt8
  BY DEF Labels, CallLabels, Ops, UInt8
<1> QED BY <1>1, InvokeType DEF UpdateOnOff

LEMMA UpdateLevelType ==
  ASSUME TypeOK, NEW p \in Tasks, NEW lvl \in UInt8,
         NEW ret \in MainLabels \cup SliderLabels \cup MatterLabels,
         UpdateLevel(p, lvl, ret)
  PROVE  pc' \in [Tasks -> Labels] /\ call' \in [Tasks -> CallType]
<1>1. "lock" \in Labels /\ "CurrentLevel" \in Ops /\ FALSE \in BOOLEAN
  BY DEF Labels, CallLabels, Ops
<1> QED BY <1>1, InvokeType DEF UpdateLevel

\* The steps of app_main.
LEMMA MainStepType ==
  ASSUME TypeOK, MainStep
  PROVE  TypeOK'
<1>0. inputs' \in Nat /\ "main" \in Tasks
  BY DEF MainStep, TypeOK, ControlType, Tasks
<1>1. CASE SwitchInit
  <2>1. pc' \in [Tasks -> Labels]
    BY <1>0, <1>1, GotoType DEF SwitchInit, Jump, Labels, MainLabels
  <2> QED BY <1>0, <1>1, <2>1, UnchangedTypes DEF SwitchInit, TypeOK, ControlType
<1>2. CASE CreateNode
  <2>1. pc' \in [Tasks -> Labels]
    BY <1>0, <1>2, GotoType DEF CreateNode, Jump, Labels, MainLabels
  <2>2. NodeType'
    BY <1>2, DefaultsType DEF CreateNode, TypeOK, NodeType
  <2> QED BY <1>0, <1>2, <2>1, <2>2, UnchangedTypes DEF CreateNode, TypeOK, ControlType
<1>3. CASE StartMatter
  <2>1. pc' \in [Tasks -> Labels]
    BY <1>3 DEF StartMatter, TypeOK, ControlType, Labels, MainLabels, MatterLabels
  <2>2. NodeType'
    BY <1>3 DEF StartMatter, TypeOK, NodeType
  <2> QED BY <1>0, <1>3, <2>1, <2>2, UnchangedTypes DEF StartMatter, TypeOK, ControlType
<1>4. CASE StartSensor
  <2>1. pc' \in [Tasks -> Labels]
    BY <1>4 DEF StartSensor, TypeOK, ControlType, Labels, MainLabels, SliderLabels
  <2>2. OutputType'
    BY <1>4 DEF StartSensor, TypeOK, OutputType, UInt8
  <2> QED BY <1>0, <1>4, <2>1, <2>2, UnchangedTypes DEF StartSensor, TypeOK, ControlType
<1>5. CASE DefaultLevel
  <2>1. pc' \in [Tasks -> Labels] /\ call' \in [Tasks -> CallType]
    BY <1>0, <1>5, DefaultsType, UpdateLevelType DEF DefaultLevel, MainLabels
  <2> QED BY <1>0, <1>5, <2>1, UnchangedTypes DEF DefaultLevel, TypeOK, ControlType
<1>6. CASE ApplyLevel
  <2>1. "brightness" \in Ops /\ FALSE \in BOOLEAN /\ "savePrevious" \in Labels
        /\ "defaultPower" \in MainLabels
    BY DEF Ops, Labels, CallLabels, MainLabels
  <2>2. pc' \in [Tasks -> Labels] /\ call' \in [Tasks -> CallType]
    BY <1>0, <1>6, <2>1, DefaultsType, InvokeType DEF ApplyLevel
  <2> QED BY <1>0, <1>6, <2>2, UnchangedTypes DEF ApplyLevel, TypeOK, ControlType
<1>7. CASE DefaultPower
  <2>1. pc' \in [Tasks -> Labels] /\ call' \in [Tasks -> CallType]
    BY <1>0, <1>7, DefaultsType, UpdateOnOffType DEF DefaultPower, MainLabels
  <2> QED BY <1>0, <1>7, <2>1, UnchangedTypes DEF DefaultPower, TypeOK, ControlType
<1>8. CASE ApplyPower
  <2>1. "power" \in Ops /\ 0 \in UInt8 /\ "setOn" \in Labels /\ "done" \in MainLabels
    BY DEF Ops, UInt8, Labels, CallLabels, MainLabels
  <2>2. pc' \in [Tasks -> Labels] /\ call' \in [Tasks -> CallType]
    BY <1>0, <1>8, <2>1, DefaultsType, InvokeType DEF ApplyPower
  <2> QED BY <1>0, <1>8, <2>2, UnchangedTypes DEF ApplyPower, TypeOK, ControlType
<1> QED BY <1>1, <1>2, <1>3, <1>4, <1>5, <1>6, <1>7, <1>8 DEF MainStep

\* The argument of set_brightness is a percentage in every call.
LEMMA BrightnessType ==
  ASSUME TypeOK, NEW p \in Tasks
  PROVE  StoredLevel(Brightness(p)) \in Percent
<1>1. call[p].lvl \in UInt8 /\ 0 \in Percent
  BY DEF TypeOK, ControlType, CallType, Percent, STANDARD_BRIGHTNESS
<1>2. Brightness(p) \in Percent
  BY <1>1, MatterToPercentType DEF Brightness
<1> QED BY <1>2, StoredLevelType

\* So the delay set_brightness computes is within a half period, even when it
\* sees the level another task stored.
LEMMA NewIntervalType ==
  ASSUME TypeOK, NEW p \in Tasks, StoreInterval(p)
  PROVE  interval' \in Delay
BY BrightnessType, IntervalForType DEF StoreInterval, TypeOK, DriverType

LEMMA AfterBrightnessType ==
  ASSUME TypeOK, NEW p \in Tasks, AfterBrightness(p)
  PROVE  pc' \in [Tasks -> Labels] /\ call' \in [Tasks -> CallType]
<1>1. call[p].op \in PowerOps \/ call[p].op = "CurrentLevel" \/ call[p].op = "brightness"
  BY DEF TypeOK, ControlType, CallType, Ops, PowerOps
<1>2. "arm" \in Labels /\ "saveOldLevel" \in Labels
  BY DEF Labels, CallLabels
<1>3. CASE call[p].op \in PowerOps
  <2>1. Goto(p, "arm") /\ UNCHANGED call
    BY <1>3 DEF AfterBrightness, PowerOps
  <2> QED BY <1>2, <2>1, GotoType DEF TypeOK, ControlType
<1>4. CASE call[p].op = "CurrentLevel"
  <2>1. Goto(p, "saveOldLevel") /\ UNCHANGED call
    BY <1>4 DEF AfterBrightness, PowerOps
  <2> QED BY <1>2, <2>1, GotoType DEF TypeOK, ControlType
<1>5. CASE call[p].op = "brightness"
  <2>1. Return(p)
    BY <1>5 DEF AfterBrightness, PowerOps
  <2> QED BY <2>1, ReturnType
<1> QED BY <1>1, <1>3, <1>4, <1>5

\* The steps of a driver call.
LEMMA CallStepType ==
  ASSUME TypeOK, NEW p \in Tasks, CallStep(p)
  PROVE  TypeOK'
<1>0. inputs' \in Nat /\ call[p] \in CallType
  BY DEF CallStep, TypeOK, ControlType
<1>1. CallLabels \subseteq Labels
  BY DEF Labels
<1>2. CASE AcquireLock(p)
  <2>1. pc' \in [Tasks -> Labels]
    BY <1>1, <1>2, GotoType DEF AcquireLock, CallLabels
  <2> QED BY <1>0, <1>2, <2>1, UnchangedTypes DEF AcquireLock, TypeOK, ControlType
<1>3. CASE UpdateFails(p)
  <2>1. pc' \in [Tasks -> Labels] /\ call' \in [Tasks -> CallType]
    BY <1>3, ReturnType DEF UpdateFails
  <2> QED BY <1>0, <1>3, <2>1, UnchangedTypes DEF UpdateFails, TypeOK, ControlType
<1>4. CASE SetRelay(p)
  <2>1. pc' \in [Tasks -> Labels]
    BY <1>1, <1>4, GotoType DEF SetRelay, Jump, CallLabels
  <2>2. OutputType'
    BY <1>0, <1>4 DEF SetRelay, TypeOK, OutputType, CallType
  <2> QED BY <1>0, <1>4, <2>1, <2>2, UnchangedTypes DEF SetRelay, TypeOK, ControlType
<1>5. CASE SetOn(p)
  <2>1. pc' \in [Tasks -> Labels]
    BY <1>1, <1>5, GotoType DEF SetOn, Jump, CallLabels
  <2>2. DriverType'
    BY <1>0, <1>5 DEF SetOn, TypeOK, DriverType, CallType
  <2> QED BY <1>0, <1>5, <2>1, <2>2, UnchangedTypes DEF SetOn, TypeOK, ControlType
<1>6. CASE Branch(p)
  <2>1. pc' \in [Tasks -> Labels]
    BY <1>1, <1>6, GotoType DEF Branch, CallLabels
  <2> QED BY <1>0, <1>6, <2>1, UnchangedTypes DEF Branch, TypeOK, ControlType
<1>7. CASE SavePrevious(p)
  <2>1. pc' \in [Tasks -> Labels]
    BY <1>1, <1>7, GotoType DEF SavePrevious, Jump, CallLabels
  <2>2. DriverType'
    BY <1>7 DEF SavePrevious, TypeOK, DriverType, Percent, UInt8, STANDARD_BRIGHTNESS
  <2> QED BY <1>0, <1>7, <2>1, <2>2, UnchangedTypes DEF SavePrevious, TypeOK, ControlType
<1>8. CASE StoreLevel(p)
  <2>1. pc' \in [Tasks -> Labels]
    BY <1>1, <1>8, GotoType DEF StoreLevel, Jump, CallLabels
  <2>2. DriverType'
    BY <1>8, BrightnessType DEF StoreLevel, TypeOK, DriverType
  <2> QED BY <1>0, <1>8, <2>1, <2>2, UnchangedTypes DEF StoreLevel, TypeOK, ControlType
<1>9. CASE StoreInterval(p)
  <2>1. pc' \in [Tasks -> Labels] /\ call' \in [Tasks -> CallType]
    BY <1>9, AfterBrightnessType DEF StoreInterval
  <2>2. interval' \in Int
    BY <1>9, NewIntervalType DEF Delay
  <2>3. DriverType'
    BY <1>9, <2>2 DEF StoreInterval, TypeOK, DriverType
  <2> QED BY <1>0, <1>9, <2>1, <2>3, UnchangedTypes DEF StoreInterval, TypeOK, ControlType
<1>10. CASE Arm(p)
  <2>1. pc' \in [Tasks -> Labels]
    BY <1>1, <1>10, GotoType DEF Arm, Jump, CallLabels
  <2>2. DriverType'
    BY <1>10 DEF Arm, TypeOK, DriverType
  <2> QED BY <1>0, <1>10, <2>1, <2>2, UnchangedTypes DEF Arm, TypeOK, ControlType
<1>11. CASE Program(p)
  <2>1. pc' \in [Tasks -> Labels] /\ call' \in [Tasks -> CallType]
    BY <1>1, <1>11, GotoType, ReturnType DEF Program, CallLabels, TypeOK, ControlType
  <2>2. DriverType'
    BY <1>11 DEF Program, TypeOK, DriverType
  <2> QED BY <1>0, <1>11, <2>1, <2>2, UnchangedTypes DEF Program, TypeOK, ControlType
<1>12. CASE SaveOldLevel(p)
  <2>1. pc' \in [Tasks -> Labels]
    BY <1>1, <1>12, GotoType DEF SaveOldLevel, Jump, CallLabels
  <2>2. GlobalsType'
    BY <1>0, <1>12 DEF SaveOldLevel, TypeOK, GlobalsType, CallType
  <2> QED BY <1>0, <1>12, <2>1, <2>2, UnchangedTypes DEF SaveOldLevel, TypeOK, ControlType
<1>13. CASE Store(p)
  <2>1. pc' \in [Tasks -> Labels] /\ call' \in [Tasks -> CallType]
    BY <1>13, ReturnType DEF Store
  <2>2. NodeType'
    BY <1>0, <1>13 DEF Store, TypeOK, NodeType, CallType
  <2> QED BY <1>0, <1>13, <2>1, <2>2, UnchangedTypes DEF Store, TypeOK, ControlType
<1> QED BY <1>2, <1>3, <1>4, <1>5, <1>6, <1>7, <1>8, <1>9, <1>10, <1>11, <1>12, <1>13
        DEF CallStep

\* The steps of sliderTask.
LEMMA SliderStepType ==
  ASSUME TypeOK, SliderStep
  PROVE  TypeOK'
<1>0. inputs' \in Nat /\ "slider" \in Tasks /\ SliderLabels \subseteq Labels
  BY DEF SliderStep, TypeOK, ControlType, Tasks, Labels
<1>1. CASE HandlePress
  <2>1. (~old_state) \in BOOLEAN /\ "afterPress" \in SliderLabels
    BY DEF SliderLabels
  <2>2. pc' \in [Tasks -> Labels] /\ call' \in [Tasks -> CallType]
    BY <1>0, <1>1, <2>1, UpdateOnOffType DEF HandlePress
  <2> QED BY <1>0, <1>1, <2>2, UnchangedTypes DEF HandlePress, TypeOK, ControlType
<1>2. CASE NoPress
  <2>1. pc' \in [Tasks -> Labels]
    BY <1>0, <1>2, GotoType DEF NoPress, Jump, SliderLabels
  <2> QED BY <1>0, <1>2, <2>1, UnchangedTypes DEF NoPress, TypeOK, ControlType
<1>3. CASE AfterPress
  <2>1. pc' \in [Tasks -> Labels]
    BY <1>0, <1>3, GotoType DEF AfterPress, Jump, SliderLabels
  <2>2. GlobalsType'
    BY <1>3 DEF AfterPress, TypeOK, GlobalsType
  <2> QED BY <1>0, <1>3, <2>1, <2>2, UnchangedTypes DEF AfterPress, TypeOK, ControlType
<1>4. CASE ReadTouch
  <2>1. pc' \in [Tasks -> Labels]
    BY <1>0, <1>4, GotoType DEF ReadTouch, Jump, SliderLabels
  <2>2. TimeType'
    BY <1>4 DEF ReadTouch, TypeOK, TimeType
  <2>3. SensorType'
    BY <1>4 DEF ReadTouch, SensorType
  <2> QED BY <1>0, <1>4, <2>1, <2>2, <2>3, UnchangedTypes DEF ReadTouch, TypeOK, ControlType
<1>5. CASE SkipTouch
  <2>1. pc' \in [Tasks -> Labels]
    BY <1>0, <1>5, GotoType DEF SkipTouch, Jump, SliderLabels
  <2> QED BY <1>0, <1>5, <2>1, UnchangedTypes DEF SkipTouch, TypeOK, ControlType
<1>6. CASE GetLevel
  <2>1. pc' \in [Tasks -> Labels]
    BY <1>0, <1>6, GotoType DEF GetLevel, Jump, SliderLabels
  <2>2. level' \in UInt8 /\ m_previous_level' \in UInt8
    BY <1>6, TouchLevelType DEF GetLevel, TypeOK, DriverType, SensorType
  <2>3. DriverType' /\ GlobalsType'
    BY <1>6, <2>2 DEF GetLevel, TypeOK, DriverType, GlobalsType
  <2> QED BY <1>0, <1>6, <2>1, <2>3, UnchangedTypes DEF GetLevel, TypeOK, ControlType
<1>7. CASE SendLevel
  <2>1. level \in UInt8 /\ "levelSent" \in SliderLabels
    BY DEF TypeOK, GlobalsType, SliderLabels
  <2>2. pc' \in [Tasks -> Labels] /\ call' \in [Tasks -> CallType]
    BY <1>0, <1>7, <2>1, UpdateLevelType DEF SendLevel
  <2> QED BY <1>0, <1>7, <2>2, UnchangedTypes DEF SendLevel, TypeOK, ControlType
<1>8. CASE SameLevel
  <2>1. pc' \in [Tasks -> Labels]
    BY <1>0, <1>8, GotoType DEF SameLevel, Jump, SliderLabels
  <2> QED BY <1>0, <1>8, <2>1, UnchangedTypes DEF SameLevel, TypeOK, ControlType
<1>9. CASE LevelSent
  <2>1. "front" \in Labels /\ "onSent" \in SliderLabels /\ TRUE \in BOOLEAN
    BY <1>0 DEF SliderLabels
  <2>2. pc' \in [Tasks -> Labels] /\ call' \in [Tasks -> CallType]
    <3>1. CASE old_state
      BY <1>0, <1>9, <2>1, <3>1, GotoType DEF LevelSent, TypeOK, ControlType
    <3>2. CASE ~old_state
      BY <1>0, <1>9, <2>1, <3>2, UpdateOnOffType DEF LevelSent
    <3> QED BY <3>1, <3>2
  <2>3. GlobalsType'
    BY <1>9 DEF LevelSent, TypeOK, GlobalsType
  <2> QED BY <1>0, <1>9, <2>2, <2>3, UnchangedTypes DEF LevelSent, TypeOK, ControlType
<1>10. CASE OnSent
  <2>1. pc' \in [Tasks -> Labels]
    BY <1>0, <1>10, GotoType DEF OnSent, Jump, SliderLabels
  <2>2. GlobalsType'
    BY <1>10 DEF OnSent, TypeOK, GlobalsType
  <2> QED BY <1>0, <1>10, <2>1, <2>2, UnchangedTypes DEF OnSent, TypeOK, ControlType
<1>11. CASE ShowLevel
  <2>1. pc' \in [Tasks -> Labels]
    BY <1>0, <1>11, GotoType DEF ShowLevel, SliderLabels
  <2>2. shownLevel' \in UInt8
    BY <1>11 DEF ShowLevel, TypeOK, OutputType, DriverType, Percent, UInt8, STANDARD_BRIGHTNESS
  <2>3. OutputType'
    BY <1>11, <2>2 DEF ShowLevel, TypeOK, OutputType, GlobalsType
  <2>4. TimeType'
    BY <1>11 DEF ShowLevel, TypeOK, TimeType
  <2> QED BY <1>0, <1>11, <2>1, <2>3, <2>4, UnchangedTypes DEF ShowLevel, TypeOK, ControlType
<1>12. CASE ShowPrevious
  <2>1. pc' \in [Tasks -> Labels]
    BY <1>0, <1>12, GotoType DEF ShowPrevious, Jump, SliderLabels
  <2>2. OutputType' /\ TimeType'
    BY <1>12 DEF ShowPrevious, TypeOK, OutputType, DriverType, TimeType
  <2> QED BY <1>0, <1>12, <2>1, <2>2, UnchangedTypes DEF ShowPrevious, TypeOK, ControlType
<1>13. CASE Wake
  <2>1. pc' \in [Tasks -> Labels]
    BY <1>0, <1>13, GotoType DEF Wake, Jump, SliderLabels
  <2> QED BY <1>0, <1>13, <2>1, UnchangedTypes DEF Wake, TypeOK, ControlType
<1> QED BY <1>1, <1>2, <1>3, <1>4, <1>5, <1>6, <1>7, <1>8, <1>9, <1>10, <1>11, <1>12, <1>13
        DEF SliderStep

\* Interrupts, controllers, the sensor, time and resets.
LEMMA EnvironmentType ==
  ASSUME TypeOK, Environment
  PROVE  TypeOK'
<1>0. ASSUME Input PROVE inputs' \in Nat
  BY <1>0 DEF Input, TypeOK, ControlType
<1>1. CASE ButtonEdge
  <2>1. GlobalsType' /\ TimeType'
    BY <1>1 DEF ButtonEdge, TypeOK, GlobalsType, TimeType
  <2> QED BY <1>0, <1>1, <2>1, UnchangedTypes DEF ButtonEdge, TypeOK, ControlType
<1>2. CASE RemoteWrite
  <2>1. "matter" \in Tasks /\ "idle" \in MatterLabels /\ {"OnOff", "CurrentLevel"} \subseteq Ops
        /\ {"setRelay", "savePrevious"} \subseteq Labels /\ 0 \in UInt8 /\ FALSE \in BOOLEAN
    BY DEF Tasks, MatterLabels, Ops, Labels, CallLabels, UInt8
  <2>2. pc' \in [Tasks -> Labels] /\ call' \in [Tasks -> CallType]
    <3>1. ASSUME NEW on \in BOOLEAN, Invoke("matter", "OnOff", on, 0, "setRelay", "idle")
          PROVE  pc' \in [Tasks -> Labels] /\ call' \in [Tasks -> CallType]
      BY <2>1, <3>1, InvokeType
    <3>2. ASSUME NEW lvl \in RemoteLevels,
                 Invoke("matter", "CurrentLevel", FALSE, lvl, "savePrevious", "idle")
          PROVE  pc' \in [Tasks -> Labels] /\ call' \in [Tasks -> CallType]
      BY <2>1, <3>2, InvokeType
    <3> QED BY <1>2, <3>1, <3>2 DEF RemoteWrite
  <2> QED BY <1>0, <1>2, <2>1, <2>2, UnchangedTypes DEF RemoteWrite, TypeOK, ControlType
<1>3. CASE TouchChange
  <2>1. SensorType'
    BY <1>3 DEF TouchChange, TypeOK, SensorType
  <2> QED BY <1>0, <1>3, <2>1, UnchangedTypes DEF TouchChange, TypeOK, ControlType
<1>4. CASE Tick
  <2>1. TimeType'
    BY <1>4 DEF Tick, Saturate, TypeOK, TimeType
  <2> QED BY <1>4, <2>1, UnchangedTypes DEF Tick, TypeOK, ControlType
<1>5. CASE Reset
  <2>1. 0 \in UInt8 /\ 0 \in Percent /\ MAX_INTERVAL \div 2 \in Int /\ 0 \in Int
    BY DEF UInt8, Percent, MAX_INTERVAL, STANDARD_BRIGHTNESS
  <2>2. DriverType' /\ GlobalsType' /\ OutputType'
    BY <1>5, <2>1 DEF Reset, DriverType, GlobalsType, OutputType
  <2>3. NodeType'
    BY <1>5 DEF Reset, TypeOK, NodeType
  <2>4. TimeType'
    BY <1>5 DEF Reset, TimeType
  <2>5. SensorType'
    BY <1>5 DEF Reset, SensorType
  <2>6. ControlType'
    BY <1>5, PowerUpPcType, IdleCallType DEF Reset, TypeOK, ControlType
  <2> QED BY <2>2, <2>3, <2>4, <2>5, <2>6 DEF TypeOK
<1> QED BY <1>1, <1>2, <1>3, <1>4, <1>5 DEF Environment

LEMMA NextType ==
  ASSUME TypeOK, DeviceStep
  PROVE  TypeOK'
BY MainStepType, SliderStepType, CallStepType, EnvironmentType DEF DeviceStep

LEMMA RejectType ==
  ASSUME TypeOK, NEW p \in Tasks, RejectUpdate(p)
  PROVE  TypeOK'
<1>1. pc' \in [Tasks -> Labels] /\ call' \in [Tasks -> CallType]
  BY ReturnType DEF RejectUpdate
<1> QED BY <1>1, UnchangedTypes DEF RejectUpdate, TypeOK, ControlType

\* A node that rejects nothing leaves the steps of the device.
LEMMA NoReject ==
  ASSUME CanReject = FALSE, [Next]_vars
  PROVE  [DeviceStep]_stepVars
BY DEF Next, RejectUpdate, vars

\* Every reachable state is typed: m_level stays a percentage although
\* set_brightness does not check its argument, and every level fits a byte.
THEOREM TypeCorrect == Spec => []TypeOK
<1>1. Init => TypeOK
  BY InitType
<1>2. TypeOK /\ [Next]_vars => TypeOK'
  <2> SUFFICES ASSUME TypeOK, [Next]_vars PROVE TypeOK'
    OBVIOUS
  <2>1. CASE DeviceStep
    BY <2>1, NextType
  <2>2. ASSUME NEW p \in Tasks, RejectUpdate(p) PROVE TypeOK'
    BY <2>2, RejectType
  <2>3. CASE UNCHANGED vars
    BY <2>3, UnchangedTypes DEF vars, stepVars, TypeOK, ControlType
  <2> QED BY <2>1, <2>2, <2>3 DEF Next
<1> QED BY <1>1, <1>2, PTL DEF Spec

-----------------------------------------------------------------------------
(* The switching invariant.                                                *)

\* The variables the switching invariant is about, apart from the control.
switchVars == <<chipLock, relay, attrOn, lastOnWriter, matterUp, old_state>>

\* What a step does for the invariant: the core holds again and each of the
\* other two parts holds if it did.
SwitchKept == CoreInv' /\ (BootInv => BootInv') /\ (ShadowInv => ShadowInv')

OthersStay(p) == \A q \in Tasks \ {p} : pc'[q] = pc[q] /\ call'[q] = call[q]

\* Jumps, calls and returns concern one task.
LEMMA GotoFacts ==
  ASSUME TypeOK, NEW p \in Tasks, NEW l, Goto(p, l), UNCHANGED call
  PROVE  pc'[p] = l /\ call'[p] = call[p] /\ OthersStay(p)
BY DEF TypeOK, ControlType, Goto, OthersStay

LEMMA InvokeFacts ==
  ASSUME TypeOK, NEW p \in Tasks, NEW op, NEW on, NEW lvl, NEW start, NEW ret,
         Invoke(p, op, on, lvl, start, ret)
  PROVE  /\ pc'[p] = start /\ OthersStay(p)
         /\ call'[p].op = op /\ call'[p].on = on /\ call'[p].ret = ret
BY DEF TypeOK, ControlType, Goto, Invoke, OthersStay

LEMMA ReturnFacts ==
  ASSUME TypeOK, NEW p \in Tasks, Return(p)
  PROVE  pc'[p] = call[p].ret /\ OthersStay(p) /\ ~InCall(p)'
<1>1. pc'[p] = call[p].ret /\ OthersStay(p)
  BY DEF TypeOK, ControlType, Goto, Return, OthersStay
<1>2. call[p].ret \notin CallLabels
  BY DEF TypeOK, ControlType, CallType, MainLabels, SliderLabels, MatterLabels, CallLabels
<1> QED BY <1>1, <1>2 DEF InCall

\* A step inside the callback.
LEMMA InsideSwitch ==
  ASSUME TypeOK, CoreInv, NEW p \in Tasks, NEW l \in CallLabels \ {"lock", "setRelay"},
         InCall(p), pc[p] \notin {"lock", "setRelay"}, Goto(p, l),
         l = "store" => call[p].op \in UpdateOps,
         l = "saveOldLevel" => call[p].op = "CurrentLevel",
         l \in {"setOn", "branch", "arm", "program"} => call[p].op \in PowerOps,
         UNCHANGED call, UNCHANGED switchVars
  PROVE  SwitchKept
<1>1. pc'[p] = l /\ call'[p] = call[p] /\ OthersStay(p)
  BY GotoFacts
<1>2. \A q \in Tasks : (InUpdate(q)' <=> InUpdate(q)) /\ (Switching(q)' <=> Switching(q))
                       /\ (InCall(q)' <=> InCall(q)) /\ call'[q] = call[q]
  BY <1>1 DEF OthersStay, InUpdate, Switching, InCall
<1>3. LockInv'
  BY <1>2 DEF CoreInv, LockInv, switchVars
<1>4. CallInv'
  BY <1>1 DEF CoreInv, CallInv, CallOk, OthersStay
<1>5. CallerInv'
  BY <1>2 DEF CoreInv, CallerInv, switchVars, Tasks
<1>6. RelayInv'
  BY <1>2 DEF CoreInv, RelayInv, switchVars
<1>7. BootInv => BootInv'
  BY <1>1, <1>2 DEF CoreInv, BootInv, switchVars, Tasks, OthersStay, CallLabels
<1>8. ShadowInv => ShadowInv'
  BY <1>1, <1>2 DEF CoreInv, ShadowInv, switchVars, Tasks, OthersStay, CallLabels, InCall
<1> QED BY <1>3, <1>4, <1>5, <1>6, <1>7, <1>8 DEF SwitchKept, CoreInv

\* The end of a direct call of app_main: nothing was locked.
LEMMA DirectReturnSwitch ==
  ASSUME TypeOK, CoreInv, NEW p \in Tasks, InCall(p), call[p].op \notin UpdateOps,
         Return(p), UNCHANGED switchVars
  PROVE  SwitchKept
<1>1. pc'[p] = call[p].ret /\ OthersStay(p) /\ ~InCall(p)'
  BY ReturnFacts
<1>2. p = "main"
  BY DEF CoreInv, CallerInv, Tasks
<1>3. \A q \in Tasks : (InUpdate(q)' <=> InUpdate(q)) /\ (Switching(q)' <=> Switching(q))
                       /\ (InCall(q)' => q # p /\ pc'[q] = pc[q] /\ call'[q] = call[q])
                       /\ (Switching(q) => call'[q] = call[q])
  BY <1>1 DEF OthersStay, InUpdate, Switching, InCall
<1>4. LockInv'
  BY <1>3 DEF CoreInv, LockInv, switchVars
<1>5. CallInv'
  BY <1>3 DEF CoreInv, CallInv, CallOk, InCall, CallLabels
<1>6. CallerInv'
  BY <1>3 DEF CoreInv, CallerInv, switchVars, Tasks, InCall
<1>7. RelayInv'
  BY <1>3 DEF CoreInv, RelayInv, switchVars
<1>8. BootInv => BootInv'
  <2>1. call[p].op \in {"power", "brightness"}
    BY DEF TypeOK, ControlType, CallType, Ops, UpdateOps
  <2> QED BY <1>1, <1>2, <2>1 DEF CoreInv, BootInv, CallerInv, switchVars
<1>9. ShadowInv => ShadowInv'
  BY <1>1, <1>2 DEF CoreInv, ShadowInv, switchVars, Tasks, OthersStay
<1> QED BY <1>4, <1>5, <1>6, <1>7, <1>8, <1>9 DEF SwitchKept, CoreInv

\* The steps of a driver call.
LEMMA CallStepSwitch ==
  ASSUME TypeOK, CoreInv, NEW p \in Tasks, CallStep(p)
  PROVE  SwitchKept
<1>0. call[p].op \in Ops
  BY DEF TypeOK, ControlType, CallType
<1>1. CASE AcquireLock(p)
  <2>1. call[p].op \in UpdateOps /\ pc[p] = "lock"
    BY <1>1 DEF AcquireLock, CoreInv, CallInv, CallOk
  <2>2. pc'[p] = (IF call[p].op = "OnOff" THEN "setRelay" ELSE "savePrevious")
        /\ call'[p] = call[p] /\ OthersStay(p)
    BY <1>1, GotoFacts DEF AcquireLock
  <2>3. InUpdate(p)' /\ ~Switching(p)' /\ InCall(p) /\ ~InUpdate(p)
    BY <2>1, <2>2 DEF InUpdate, Switching, InCall, CallLabels, UpdateOps
  <2>4. \A q \in Tasks \ {p} : (InUpdate(q)' <=> InUpdate(q)) /\ (Switching(q)' <=> Switching(q))
    BY <2>2 DEF OthersStay, InUpdate, Switching, InCall
  <2>5. \A q \in Tasks : (InCall(q)' <=> InCall(q)) /\ call'[q] = call[q]
    BY <2>2, <2>3 DEF OthersStay, InUpdate, InCall
  <2>6. LockInv'
    BY <1>1, <2>3, <2>4 DEF AcquireLock, CoreInv, LockInv, nodeVars, Tasks, Free
  <2>7. CallInv'
    BY <2>1, <2>2 DEF CoreInv, CallInv, CallOk, OthersStay, UpdateOps
  <2>8. CallerInv'
    BY <1>1, <2>5 DEF AcquireLock, CoreInv, CallerInv, ioVars, Tasks
  <2>9. RelayInv'
    BY <1>1, <2>3, <2>4, <2>5 DEF AcquireLock, CoreInv, RelayInv, outVars, nodeVars, Switching
  <2>10. BootInv => BootInv'
    BY <1>1, <2>1, <2>2, <2>5 DEF AcquireLock, CoreInv, BootInv, nodeVars, OthersStay, Tasks
  <2>11. ShadowInv => ShadowInv'
    BY <1>1, <2>1, <2>2 DEF AcquireLock, CoreInv, ShadowInv, nodeVars, ioVars, OthersStay, Tasks
  <2> QED BY <2>6, <2>7, <2>8, <2>9, <2>10, <2>11 DEF SwitchKept, CoreInv
<1>2. CASE UpdateFails(p)
  <2>1. pc[p] = "lock" /\ ~matterUp /\ UNCHANGED switchVars
    BY <1>2 DEF UpdateFails, switchVars, nodeVars, outVars, ioVars
  <2>2. OthersStay(p) /\ ~InCall(p)'
    BY <1>2, ReturnFacts DEF UpdateFails
  <2>3. \A q \in Tasks : (InUpdate(q)' <=> InUpdate(q)) /\ (Switching(q)' <=> Switching(q))
                         /\ (InCall(q)' => InCall(q) /\ pc'[q] = pc[q] /\ call'[q] = call[q])
                         /\ (Switching(q) => call'[q] = call[q])
    BY <2>1, <2>2 DEF OthersStay, InUpdate, Switching, InCall
  <2>4. LockInv'
    BY <2>1, <2>3 DEF CoreInv, LockInv, switchVars
  <2>5. CallInv'
    BY <2>3 DEF CoreInv, CallInv, CallOk, InCall, CallLabels
  <2>6. CallerInv'
    BY <2>1, <2>3 DEF CoreInv, CallerInv, switchVars, Tasks
  <2>7. RelayInv'
    BY <2>1, <2>3 DEF CoreInv, RelayInv, switchVars
  <2>8. BootInv => BootInv'
    BY <2>1 DEF BootInv, switchVars
  <2>9. ShadowInv => ShadowInv'
    BY <2>1 DEF CoreInv, LockInv, ShadowInv, Nobody, switchVars
  <2> QED BY <2>4, <2>5, <2>6, <2>7, <2>8, <2>9 DEF SwitchKept, CoreInv
<1>3. CASE SetRelay(p)
  <2>1. pc[p] = "setRelay" /\ call[p].op = "OnOff" /\ relay' = call[p].on
    BY <1>3 DEF SetRelay, Jump, CoreInv, CallInv, CallOk
  <2>2. pc'[p] = "setOn" /\ call'[p] = call[p] /\ OthersStay(p)
    BY <1>3, GotoFacts DEF SetRelay, Jump
  <2>3. InUpdate(p) /\ InUpdate(p)' /\ Switching(p)' /\ InCall(p)'
    BY <2>1, <2>2 DEF InUpdate, Switching, InCall, CallLabels, UpdateOps
  <2>4. \A q \in Tasks : (InUpdate(q)' <=> InUpdate(q)) /\ (InCall(q)' <=> InCall(q))
                         /\ call'[q] = call[q]
    BY <2>2, <2>3 DEF OthersStay, InUpdate, InCall
  <2>5. UNCHANGED <<chipLock, attrOn, lastOnWriter, matterUp, old_state>>
    BY <1>3 DEF SetRelay, nodeVars, ioVars
  <2>6. LockInv'
    BY <2>4, <2>5 DEF CoreInv, LockInv
  <2>7. \A q \in Tasks \ {p} : ~Switching(q)'
    BY <2>3, <2>4 DEF CoreInv, LockInv, Switching
  <2>8. CallInv'
    BY <2>1, <2>2 DEF CoreInv, CallInv, CallOk, OthersStay, PowerOps
  <2>9. CallerInv'
    BY <2>4, <2>5 DEF CoreInv, CallerInv, Tasks
  <2>10. RelayInv'
    BY <2>1, <2>2, <2>3, <2>7 DEF RelayInv
  <2>11. BootInv => BootInv'
    BY <2>1, <2>2, <2>4, <2>5 DEF CoreInv, BootInv, OthersStay, Tasks
  <2>12. ShadowInv => ShadowInv'
    BY <2>1, <2>2, <2>5 DEF CoreInv, ShadowInv, OthersStay, Tasks
  <2> QED BY <2>6, <2>8, <2>9, <2>10, <2>11, <2>12 DEF SwitchKept, CoreInv
<1>4. CASE SetOn(p)
  BY <1>4, InsideSwitch DEF SetOn, Jump, InCall, CallLabels, CoreInv, CallInv, CallOk,
     switchVars, ioVars, outVars, nodeVars
<1>5. CASE Branch(p)
  BY <1>5, InsideSwitch DEF Branch, InCall, CallLabels, CoreInv, CallInv, CallOk,
     switchVars, ioVars, outVars, nodeVars
<1>6. CASE SavePrevious(p)
  BY <1>6, InsideSwitch DEF SavePrevious, Jump, InCall, CallLabels,
     switchVars, ioVars, outVars, nodeVars
<1>7. CASE StoreLevel(p)
  BY <1>7, InsideSwitch DEF StoreLevel, Jump, InCall, CallLabels,
     switchVars, ioVars, outVars, nodeVars
<1>8. CASE StoreInterval(p)
  <2>1. UNCHANGED switchVars /\ InCall(p) /\ pc[p] \notin {"lock", "setRelay"}
    BY <1>8 DEF StoreInterval, switchVars, ioVars, outVars, nodeVars, InCall, CallLabels
  <2>2. CASE call[p].op \in PowerOps
    <3>1. Goto(p, "arm") /\ UNCHANGED call
      BY <1>8, <2>2 DEF StoreInterval, AfterBrightness, PowerOps
    <3> QED BY <2>1, <2>2, <3>1, InsideSwitch DEF CallLabels
  <2>3. CASE call[p].op = "CurrentLevel"
    <3>1. Goto(p, "saveOldLevel") /\ UNCHANGED call
      BY <1>8, <2>3 DEF StoreInterval, AfterBrightness, PowerOps
    <3> QED BY <2>1, <2>3, <3>1, InsideSwitch DEF CallLabels
  <2>4. CASE call[p].op = "brightness"
    <3>1. Return(p)
      BY <1>8, <2>4 DEF StoreInterval, AfterBrightness, PowerOps
    <3> QED BY <2>1, <2>4, <3>1, DirectReturnSwitch DEF UpdateOps
  <2> QED BY <1>0, <2>2, <2>3, <2>4 DEF Ops, PowerOps
<1>9. CASE Arm(p)
  BY <1>9, InsideSwitch DEF Arm, Jump, InCall, CallLabels, CoreInv, CallInv, CallOk,
     switchVars, ioVars, outVars, nodeVars
<1>10. CASE Program(p)
  <2>1. UNCHANGED switchVars /\ InCall(p) /\ pc[p] \notin {"lock", "setRelay"}
        /\ call[p].op \in PowerOps
    BY <1>10 DEF Program, switchVars, ioVars, outVars, nodeVars, InCall, CallLabels,
       CoreInv, CallInv, CallOk
  <2>2. CASE call[p].op = "OnOff"
    BY <1>10, <2>1, <2>2, InsideSwitch DEF Program, CallLabels, UpdateOps
  <2>3. CASE call[p].op = "power"
    BY <1>10, <2>1, <2>3, DirectReturnSwitch DEF Program, UpdateOps
  <2> QED BY <2>1, <2>2, <2>3 DEF PowerOps
<1>11. CASE SaveOldLevel(p)
  BY <1>11, InsideSwitch DEF SaveOldLevel, Jump, InCall, CallLabels, CoreInv, CallInv, CallOk,
     UpdateOps, switchVars, outVars, nodeVars
<1>12. CASE Store(p)
  <2>1. pc[p] = "store" /\ call[p].op \in UpdateOps /\ InUpdate(p) /\ chipLock = p
    BY <1>12 DEF Store, CoreInv, CallInv, CallOk, LockInv, InUpdate, InCall, CallLabels
  <2>2. pc'[p] = call[p].ret /\ OthersStay(p) /\ ~InCall(p)'
    BY <1>12, ReturnFacts DEF Store
  <2>3. UNCHANGED <<relay, matterUp, old_state>> /\ chipLock' = Free /\ matterUp
    BY <1>12, <2>1 DEF Store, outVars, ioVars, CoreInv, LockInv, Tasks, Free
  <2>4. \A q \in Tasks : ~InUpdate(q)' /\ ~Switching(q)'
    BY <2>1, <2>2 DEF CoreInv, LockInv, OthersStay, InUpdate, Switching, InCall
  <2>5. \A q \in Tasks : InCall(q)' => q # p /\ pc'[q] = pc[q] /\ call'[q] = call[q] /\ InCall(q)
    BY <2>2 DEF OthersStay, InCall
  <2>6. LockInv'
    BY <2>3, <2>4 DEF LockInv, Tasks, Free
  <2>7. CallInv'
    BY <2>5 DEF CoreInv, CallInv, CallOk, InCall, CallLabels
  <2>8. CallerInv'
    BY <2>3, <2>5 DEF CoreInv, CallerInv, Tasks
  <2>9. CASE call[p].op = "OnOff"
    <3>1. attrOn' = call[p].on /\ lastOnWriter' = p /\ relay' = call[p].on
      BY <1>12, <2>1, <2>3, <2>9 DEF Store, Switching, CoreInv, RelayInv
    <3>2. RelayInv'
      BY <2>4, <3>1 DEF RelayInv
    <3>3. BootInv => BootInv'
      BY <3>1 DEF BootInv, Tasks, Nobody
    <3>4. ShadowInv => ShadowInv'
      BY <2>1, <2>2, <2>3, <2>9, <3>1 DEF CoreInv, CallerInv, ShadowInv, InUpdate, TypeOK,
         GlobalsType
    <3> QED BY <2>6, <2>7, <2>8, <3>2, <3>3, <3>4 DEF SwitchKept, CoreInv
  <2>10. CASE call[p].op = "CurrentLevel"
    <3>1. UNCHANGED <<attrOn, lastOnWriter>>
      BY <1>12, <2>10 DEF Store
    <3>2. RelayInv'
      <4>1. \A q \in Tasks : ~Switching(q)
        BY <2>1, <2>10 DEF CoreInv, LockInv, Switching
      <4> QED BY <2>3, <2>4, <3>1, <4>1 DEF CoreInv, RelayInv
    <3>3. BootInv => BootInv'
      BY <2>1, <2>2, <2>3, <2>5, <2>10, <3>1 DEF CoreInv, BootInv, CallerInv, OthersStay,
         InUpdate, Tasks
    <3>4. ShadowInv => ShadowInv'
      BY <2>1, <2>2, <2>3, <2>10, <3>1 DEF CoreInv, CallerInv, ShadowInv, InUpdate,
         OthersStay, Tasks
    <3> QED BY <2>6, <2>7, <2>8, <3>2, <3>3, <3>4 DEF SwitchKept, CoreInv
  <2> QED BY <2>1, <2>9, <2>10 DEF UpdateOps
<1> QED BY <1>1, <1>2, <1>3, <1>4, <1>5, <1>6, <1>7, <1>8, <1>9, <1>10, <1>11, <1>12 DEF CallStep

\* Every step of a driver call is a step of its task alone, which stays in the
\* call or returns to the caller.
LEMMA CallStepFrame ==
  ASSUME TypeOK, NEW p \in Tasks, CallStep(p)
  PROVE  /\ InCall(p) /\ OthersStay(p) /\ UNCHANGED matterUp
         /\ pc'[p] \in CallLabels \cup {call[p].ret}
<1>1. CASE AcquireLock(p)
  BY <1>1, GotoFacts DEF AcquireLock, InCall, CallLabels, nodeVars
<1>2. CASE UpdateFails(p)
  BY <1>2, ReturnFacts DEF UpdateFails, InCall, CallLabels, nodeVars
<1>3. CASE SetRelay(p)
  BY <1>3, GotoFacts DEF SetRelay, Jump, InCall, CallLabels, nodeVars
<1>4. CASE SetOn(p)
  BY <1>4, GotoFacts DEF SetOn, Jump, InCall, CallLabels, nodeVars
<1>5. CASE Branch(p)
  BY <1>5, GotoFacts DEF Branch, InCall, CallLabels, nodeVars
<1>6. CASE SavePrevious(p)
  BY <1>6, GotoFacts DEF SavePrevious, Jump, InCall, CallLabels, nodeVars
<1>7. CASE StoreLevel(p)
  BY <1>7, GotoFacts DEF StoreLevel, Jump, InCall, CallLabels, nodeVars
<1>8. CASE StoreInterval(p)
  <2>1. call[p].op \in PowerOps \/ call[p].op = "CurrentLevel" \/ call[p].op = "brightness"
    BY DEF TypeOK, ControlType, CallType, Ops, PowerOps
  <2>2. \/ Goto(p, "arm") /\ UNCHANGED call
        \/ Goto(p, "saveOldLevel") /\ UNCHANGED call
        \/ Return(p)
    BY <1>8, <2>1 DEF StoreInterval, AfterBrightness, PowerOps
  <2> QED BY <1>8, <2>2, GotoFacts, ReturnFacts DEF StoreInterval, InCall, CallLabels, nodeVars
<1>9. CASE Arm(p)
  BY <1>9, GotoFacts DEF Arm, Jump, InCall, CallLabels, nodeVars
<1>10. CASE Program(p)
  BY <1>10, GotoFacts, ReturnFacts DEF Program, InCall, CallLabels, nodeVars
<1>11. CASE SaveOldLevel(p)
  BY <1>11, GotoFacts DEF SaveOldLevel, Jump, InCall, CallLabels, nodeVars
<1>12. CASE Store(p)
  BY <1>12, ReturnFacts DEF Store, InCall, CallLabels
<1> QED BY <1>1, <1>2, <1>3, <1>4, <1>5, <1>6, <1>7, <1>8, <1>9, <1>10, <1>11, <1>12 DEF CallStep

LEMMA CallStepStart ==
  ASSUME TypeOK, CallerInv, StartInv, NEW p \in Tasks, CallStep(p)
  PROVE  StartInv'
<1>1. /\ InCall(p) /\ OthersStay(p) /\ UNCHANGED matterUp
      /\ pc'[p] \in CallLabels \cup {call[p].ret}
  BY CallStepFrame
<1>2. CASE p = "main"
  <2>1. call[p].op \in Ops
    BY DEF TypeOK, ControlType, CallType
  <2>2. call[p].ret \in {"applyPower", "applyLevel", "defaultPower", "done"}
    BY <1>1, <1>2, <2>1 DEF CallerInv, Ops
  <2>3. pc'["matter"] = pc["matter"]
    BY <1>1, <1>2 DEF OthersStay, Tasks
  <2> QED BY <1>1, <1>2, <2>2, <2>3 DEF StartInv, CallLabels
<1>3. CASE p = "slider"
  BY <1>1, <1>3 DEF StartInv, OthersStay, Tasks, InCall, CallLabels
<1>4. CASE p = "matter"
  BY <1>1, <1>4 DEF StartInv, OthersStay, Tasks, InCall, CallLabels
<1> QED BY <1>2, <1>3, <1>4 DEF Tasks

\* A step of a task outside the callback.
LEMMA OutsideSwitch ==
  ASSUME TypeOK, CoreInv, NEW p \in Tasks, ~InUpdate(p), ~InUpdate(p)', CallOk(p)',
         OthersStay(p), UNCHANGED <<chipLock, relay, attrOn, lastOnWriter, matterUp>>
  PROVE  LockInv' /\ CallInv' /\ RelayInv'
<1>1. \A q \in Tasks : (InUpdate(q)' <=> InUpdate(q)) /\ (Switching(q)' <=> Switching(q))
                       /\ (Switching(q) => call'[q] = call[q])
  BY DEF OthersStay, InUpdate, Switching, InCall
<1>2. LockInv'
  BY <1>1 DEF CoreInv, LockInv
<1>3. CallInv'
  BY DEF CoreInv, CallInv, CallOk, OthersStay
<1>4. RelayInv'
  BY <1>1 DEF CoreInv, RelayInv
<1> QED BY <1>2, <1>3, <1>4

\* The steps of app_main.
LEMMA MainStepSwitch ==
  ASSUME TypeOK, CoreInv, StartInv, MainStep
  PROVE  SwitchKept /\ StartInv'
<1>0. "main" \in Tasks /\ "main" # "slider" /\ "main" # "matter"
  BY DEF Tasks
<1>1. ASSUME OthersStay("main"), UNCHANGED switchVars,
             ~InUpdate("main"), ~InUpdate("main")', CallOk("main")',
             pc'["main"] \notin {"startMatter", "startSensor", "applyPower", "done"},
             pc'["main"] # "createNode" \/ pc["main"] = "switchInit",
             pc'["main"] # "switchInit",
             InCall("main")' =>
               \/ call'["main"].op = "OnOff" /\ call'["main"].ret = "applyPower"
               \/ call'["main"].op = "CurrentLevel" /\ call'["main"].ret = "applyLevel"
               \/ call'["main"].op = "brightness" /\ call'["main"].ret = "defaultPower"
               \/ call'["main"].op = "power" /\ call'["main"].ret = "done"
                  /\ pc["main"] = "applyPower"
      PROVE  SwitchKept /\ StartInv'
  <2>1. LockInv' /\ CallInv' /\ RelayInv'
    BY <1>0, <1>1, OutsideSwitch DEF switchVars
  <2>2. pc'["slider"] = pc["slider"] /\ call'["slider"] = call["slider"]
        /\ pc'["matter"] = pc["matter"] /\ call'["matter"] = call["matter"]
    BY <1>1 DEF OthersStay, Tasks
  <2>3. CallerInv'
    BY <1>1, <2>2 DEF CoreInv, CallerInv, InCall, switchVars
  <2>4. BootInv => BootInv'
    BY <1>1 DEF CoreInv, BootInv, switchVars
  <2>5. ShadowInv => ShadowInv'
    BY <1>1, <2>2 DEF CoreInv, ShadowInv, switchVars
  <2>6. StartInv'
    BY <1>1, <2>2 DEF StartInv, switchVars
  <2> QED BY <2>1, <2>3, <2>4, <2>5, <2>6 DEF SwitchKept, CoreInv
<1>2. CASE SwitchInit
  <2>1. pc["main"] = "switchInit" /\ pc'["main"] = "createNode" /\ OthersStay("main")
    BY <1>0, <1>2, GotoFacts DEF SwitchInit, Jump
  <2>2. UNCHANGED switchVars
    BY <1>2 DEF SwitchInit, switchVars, ioVars, outVars, nodeVars
  <2> QED BY <1>1, <2>1, <2>2 DEF InUpdate, InCall, CallLabels, CallOk
<1>3. CASE CreateNode
  <2>1. pc["main"] = "createNode" /\ pc'["main"] = "startMatter" /\ OthersStay("main")
        /\ UNCHANGED call
    BY <1>0, <1>3, GotoFacts DEF CreateNode, Jump
  <2>2. UNCHANGED <<chipLock, relay, lastOnWriter, matterUp, old_state>>
    BY <1>3 DEF CreateNode, ioVars, outVars
  <2>3. ~matterUp /\ lastOnWriter = Nobody
    BY <2>1 DEF StartInv, CoreInv, LockInv
  <2>4. \A q \in Tasks : (InUpdate(q)' <=> InUpdate(q)) /\ (Switching(q)' <=> Switching(q))
                         /\ (InCall(q)' <=> InCall(q)) /\ call'[q] = call[q]
    BY <2>1 DEF OthersStay, InUpdate, Switching, InCall, CallLabels
  <2>5. LockInv'
    BY <2>2, <2>4 DEF CoreInv, LockInv
  <2>6. CallInv'
    BY <2>1 DEF CoreInv, CallInv, CallOk, OthersStay
  <2>7. CallerInv'
    BY <2>2, <2>4, <1>0 DEF CoreInv, CallerInv, Tasks
  <2>8. RelayInv'
    BY <2>2, <2>3, <2>4 DEF CoreInv, RelayInv
  <2>9. BootInv => BootInv'
    BY <2>2, <2>3 DEF BootInv
  <2>10. ShadowInv => ShadowInv'
    BY <2>2, <2>3 DEF ShadowInv, Nobody
  <2>11. StartInv'
    BY <2>1, <2>2 DEF StartInv, OthersStay, Tasks
  <2> QED BY <2>5, <2>6, <2>7, <2>8, <2>9, <2>10, <2>11 DEF SwitchKept, CoreInv
<1>4. CASE StartMatter
  <2>1. /\ pc["main"] = "startMatter" /\ pc'["main"] = "startSensor"
        /\ pc["matter"] = "down" /\ pc'["matter"] \in {"idle", "down"}
        /\ pc'["slider"] = pc["slider"] /\ UNCHANGED call
    BY <1>4 DEF StartMatter, StartInv, TypeOK, ControlType, Tasks
  <2>2. UNCHANGED <<chipLock, relay, attrOn, lastOnWriter, old_state>>
    BY <1>4 DEF StartMatter, ioVars, outVars
  <2>3. chipLock = Free /\ lastOnWriter = Nobody
    BY <2>1 DEF StartInv, CoreInv, LockInv
  <2>4. \A q \in Tasks : (InUpdate(q)' <=> InUpdate(q)) /\ (Switching(q)' <=> Switching(q))
                         /\ (InCall(q)' <=> InCall(q)) /\ call'[q] = call[q]
    BY <2>1 DEF InUpdate, Switching, InCall, CallLabels, Tasks
  <2>5. LockInv'
    BY <2>2, <2>3, <2>4 DEF CoreInv, LockInv
  <2>6. CallInv'
    BY <2>1 DEF CoreInv, CallInv, CallOk, Tasks
  <2>7. CallerInv'
    BY <2>2, <2>4 DEF CoreInv, CallerInv, Tasks
  <2>8. RelayInv'
    BY <2>2, <2>3, <2>4 DEF CoreInv, RelayInv
  <2>9. BootInv => BootInv'
    BY <2>1, <2>4 DEF BootInv, InCall, CallLabels
  <2>10. ShadowInv => ShadowInv'
    BY <2>2, <2>3 DEF ShadowInv, Nobody
  <2>11. StartInv'
    BY <1>4, <2>1 DEF StartMatter, StartInv, TypeOK, ControlType, Tasks
  <2> QED BY <2>5, <2>6, <2>7, <2>8, <2>9, <2>10, <2>11 DEF SwitchKept, CoreInv
<1>5. CASE StartSensor
  <2>1. /\ pc["main"] = "startSensor" /\ pc'["main"] = "defaultLevel"
        /\ pc["slider"] = "none" /\ pc'["slider"] = "top"
        /\ pc'["matter"] = pc["matter"] /\ UNCHANGED call
    BY <1>5 DEF StartSensor, StartInv, TypeOK, ControlType, Tasks
  <2>2. UNCHANGED switchVars
    BY <1>5 DEF StartSensor, switchVars, nodeVars, ioVars
  <2>4. \A q \in Tasks : (InUpdate(q)' <=> InUpdate(q)) /\ (Switching(q)' <=> Switching(q))
                         /\ (InCall(q)' <=> InCall(q)) /\ call'[q] = call[q]
    BY <2>1 DEF InUpdate, Switching, InCall, CallLabels, Tasks
  <2>5. LockInv'
    BY <2>2, <2>4 DEF CoreInv, LockInv, switchVars
  <2>6. CallInv'
    BY <2>1 DEF CoreInv, CallInv, CallOk, Tasks
  <2>7. CallerInv'
    BY <2>2, <2>4 DEF CoreInv, CallerInv, Tasks, switchVars
  <2>8. RelayInv'
    BY <2>2, <2>4 DEF CoreInv, RelayInv, switchVars
  <2>9. BootInv => BootInv'
    BY <2>1, <2>4 DEF BootInv, InCall, CallLabels
  <2>10. ShadowInv => ShadowInv'
    BY <2>1, <2>2 DEF CoreInv, ShadowInv, switchVars
  <2>11. StartInv'
    BY <2>1, <2>2 DEF StartInv, switchVars
  <2> QED BY <2>5, <2>6, <2>7, <2>8, <2>9, <2>10, <2>11 DEF SwitchKept, CoreInv
<1>6. CASE DefaultLevel
  <2>1. /\ pc["main"] = "defaultLevel" /\ pc'["main"] = "lock" /\ OthersStay("main")
        /\ call'["main"].op = "CurrentLevel" /\ call'["main"].ret = "applyLevel"
    BY <1>0, <1>6, InvokeFacts DEF DefaultLevel, UpdateLevel
  <2>2. UNCHANGED switchVars
    BY <1>6 DEF DefaultLevel, switchVars, ioVars, outVars, nodeVars
  <2> QED BY <1>1, <2>1, <2>2 DEF InUpdate, InCall, CallLabels, CallOk, UpdateOps
<1>7. CASE ApplyLevel
  <2>1. /\ pc["main"] = "applyLevel" /\ pc'["main"] = "savePrevious" /\ OthersStay("main")
        /\ call'["main"].op = "brightness" /\ call'["main"].ret = "defaultPower"
    BY <1>0, <1>7, InvokeFacts DEF ApplyLevel
  <2>2. UNCHANGED switchVars
    BY <1>7 DEF ApplyLevel, switchVars, ioVars, outVars, nodeVars
  <2> QED BY <1>1, <2>1, <2>2 DEF InUpdate, InCall, CallLabels, CallOk, UpdateOps
<1>8. CASE DefaultPower
  <2>1. /\ pc["main"] = "defaultPower" /\ pc'["main"] = "lock" /\ OthersStay("main")
        /\ call'["main"].op = "OnOff" /\ call'["main"].ret = "applyPower"
    BY <1>0, <1>8, InvokeFacts DEF DefaultPower, UpdateOnOff
  <2>2. UNCHANGED switchVars
    BY <1>8 DEF DefaultPower, switchVars, ioVars, outVars, nodeVars
  <2> QED BY <1>1, <2>1, <2>2 DEF InUpdate, InCall, CallLabels, CallOk, UpdateOps
<1>9. CASE ApplyPower
  <2>1. /\ pc["main"] = "applyPower" /\ pc'["main"] = "setOn" /\ OthersStay("main")
        /\ call'["main"].op = "power" /\ call'["main"].ret = "done"
    BY <1>0, <1>9, InvokeFacts DEF ApplyPower
  <2>2. UNCHANGED switchVars
    BY <1>9 DEF ApplyPower, switchVars, ioVars, outVars, nodeVars
  <2> QED BY <1>1, <2>1, <2>2 DEF InUpdate, InCall, CallLabels, CallOk, UpdateOps, PowerOps
<1> QED BY <1>2, <1>3, <1>4, <1>5, <1>6, <1>7, <1>8, <1>9 DEF MainStep

\* The steps of sliderTask.
LEMMA SliderStepSwitch ==
  ASSUME TypeOK, CoreInv, StartInv, SliderStep
  PROVE  SwitchKept /\ StartInv'
<1>0. "slider" \in Tasks /\ "slider" # "main" /\ "slider" # "matter"
  BY DEF Tasks
<1> DEFINE own == {"afterPress", "onSent"}
<1>1. ASSUME OthersStay("slider"), UNCHANGED <<chipLock, relay, attrOn, lastOnWriter, matterUp>>,
             ~InCall("slider"), pc["slider"] # "none",
             ~InUpdate("slider")', CallOk("slider")', pc'["slider"] \notin own,
             old_state' = IF pc["slider"] \in own THEN ~old_state ELSE old_state,
             InCall("slider")' =>
               \/ /\ call'["slider"].op = "OnOff" /\ call'["slider"].ret \in own
                  /\ call'["slider"].on = ~old_state'
               \/ call'["slider"].op = "CurrentLevel" /\ call'["slider"].ret = "levelSent"
      PROVE  SwitchKept /\ StartInv'
  <2>1. LockInv' /\ CallInv' /\ RelayInv'
    BY <1>0, <1>1, OutsideSwitch DEF InUpdate
  <2>2. pc'["main"] = pc["main"] /\ call'["main"] = call["main"]
        /\ pc'["matter"] = pc["matter"] /\ call'["matter"] = call["matter"]
    BY <1>1 DEF OthersStay, Tasks
  <2>3. CallerInv'
    BY <1>1, <2>2 DEF CoreInv, CallerInv, InCall, UpdateOps
  <2>4. BootInv => BootInv'
    BY <1>1, <2>2 DEF CoreInv, BootInv, InCall
  <2>5. ShadowInv => ShadowInv'
    BY <1>1 DEF CoreInv, ShadowInv, TypeOK, NodeType, GlobalsType
  <2>6. StartInv'
    BY <1>1, <2>2 DEF StartInv
  <2> QED BY <2>1, <2>3, <2>4, <2>5, <2>6 DEF SwitchKept, CoreInv
<1> USE DEF InUpdate, InCall, CallLabels, CallOk, UpdateOps
<1>2. CASE HandlePress
  <2>1. /\ pc["slider"] = "top" /\ pc'["slider"] = "lock" /\ OthersStay("slider")
        /\ call'["slider"].op = "OnOff" /\ call'["slider"].ret = "afterPress"
        /\ call'["slider"].on = ~old_state
    BY <1>0, <1>2, InvokeFacts DEF HandlePress, UpdateOnOff
  <2> QED BY <1>1, <1>2, <2>1 DEF HandlePress, ioVars, outVars, nodeVars
<1>3. CASE NoPress
  BY <1>0, <1>1, <1>3, GotoFacts DEF NoPress, Jump, ioVars, outVars, nodeVars
<1>4. CASE AfterPress
  BY <1>0, <1>1, <1>4, GotoFacts DEF AfterPress, Jump, outVars, nodeVars
<1>5. CASE ReadTouch
  BY <1>0, <1>1, <1>5, GotoFacts DEF ReadTouch, Jump, ioVars, outVars, nodeVars
<1>6. CASE SkipTouch
  BY <1>0, <1>1, <1>6, GotoFacts DEF SkipTouch, Jump, ioVars, outVars, nodeVars
<1>7. CASE GetLevel
  BY <1>0, <1>1, <1>7, GotoFacts DEF GetLevel, Jump, outVars, nodeVars
<1>8. CASE SendLevel
  <2>1. /\ pc["slider"] = "compare" /\ pc'["slider"] = "lock" /\ OthersStay("slider")
        /\ call'["slider"].op = "CurrentLevel" /\ call'["slider"].ret = "levelSent"
    BY <1>0, <1>8, InvokeFacts DEF SendLevel, UpdateLevel
  <2> QED BY <1>1, <1>8, <2>1 DEF SendLevel, ioVars, outVars, nodeVars
<1>9. CASE SameLevel
  BY <1>0, <1>1, <1>9, GotoFacts DEF SameLevel, Jump, ioVars, outVars, nodeVars
<1>10. CASE LevelSent
  <2>1. CASE old_state
    BY <1>0, <1>1, <1>10, <2>1, GotoFacts DEF LevelSent, outVars, nodeVars
  <2>2. CASE ~old_state
    <3>1. pc["slider"] = "levelSent" /\ Invoke("slider", "OnOff", TRUE, 0, "lock", "onSent")
      BY <1>10, <2>2 DEF LevelSent, UpdateOnOff
    <3>2. /\ pc'["slider"] = "lock" /\ OthersStay("slider")
          /\ call'["slider"].op = "OnOff" /\ call'["slider"].ret = "onSent"
          /\ call'["slider"].on = TRUE
      BY <1>0, <3>1 DEF Invoke, Goto, OthersStay, TypeOK, ControlType
    <3>3. old_state' = old_state /\ TRUE = ~old_state'
      BY <1>10, <2>2 DEF LevelSent
    <3>4. call'["slider"].on = ~old_state'
      BY <3>2, <3>3
    <3> QED BY <1>1, <1>10, <3>1, <3>2, <3>3, <3>4 DEF LevelSent, outVars, nodeVars
  <2> QED BY <2>1, <2>2
<1>11. CASE OnSent
  BY <1>0, <1>1, <1>11, GotoFacts DEF OnSent, Jump, outVars, nodeVars
<1>12. CASE ShowLevel
  BY <1>0, <1>1, <1>12, GotoFacts DEF ShowLevel, ioVars, nodeVars
<1>13. CASE ShowPrevious
  BY <1>0, <1>1, <1>13, GotoFacts DEF ShowPrevious, Jump, ioVars, nodeVars
<1>14. CASE Wake
  BY <1>0, <1>1, <1>14, GotoFacts DEF Wake, Jump, ioVars, outVars, nodeVars
<1> QED BY <1>2, <1>3, <1>4, <1>5, <1>6, <1>7, <1>8, <1>9, <1>10, <1>11, <1>12, <1>13, <1>14
        DEF SliderStep

\* Interrupts, controllers, the sensor, time and resets.
LEMMA EnvironmentSwitch ==
  ASSUME TypeOK, CoreInv, StartInv, Environment
  PROVE  SwitchKept /\ StartInv'
<1>1. ASSUME UNCHANGED <<pc, call, switchVars>> PROVE SwitchKept /\ StartInv'
  BY <1>1 DEF SwitchKept, CoreInv, StartInv, LockInv, CallInv, CallOk, CallerInv, RelayInv, BootInv,
     ShadowInv, InCall, InUpdate, Switching, switchVars
<1>2. CASE ButtonEdge
  BY <1>1, <1>2 DEF ButtonEdge, switchVars, outVars, nodeVars
<1>3. CASE TouchChange
  BY <1>1, <1>3 DEF TouchChange, switchVars, ioVars, outVars, nodeVars
<1>4. CASE Tick
  BY <1>1, <1>4 DEF Tick, switchVars, ioVars, outVars, nodeVars
<1>5. CASE RemoteWrite
  <2>1. "matter" \in Tasks /\ pc["matter"] = "idle" /\ chipLock = Free /\ chipLock' = "matter"
        /\ UNCHANGED <<relay, attrOn, lastOnWriter, matterUp, old_state>>
    BY <1>5 DEF RemoteWrite, Tasks, ioVars, outVars, nodeVars
  <2>2. /\ OthersStay("matter") /\ call'["matter"].ret = "idle"
        /\ \/ pc'["matter"] = "setRelay" /\ call'["matter"].op = "OnOff"
           \/ pc'["matter"] = "savePrevious" /\ call'["matter"].op = "CurrentLevel"
    <3>1. ASSUME NEW on \in BOOLEAN, Invoke("matter", "OnOff", on, 0, "setRelay", "idle")
          PROVE  /\ OthersStay("matter") /\ call'["matter"].ret = "idle"
                 /\ pc'["matter"] = "setRelay" /\ call'["matter"].op = "OnOff"
      BY <2>1, <3>1, InvokeFacts
    <3>2. ASSUME NEW lvl \in RemoteLevels,
                 Invoke("matter", "CurrentLevel", FALSE, lvl, "savePrevious", "idle")
          PROVE  /\ OthersStay("matter") /\ call'["matter"].ret = "idle"
                 /\ pc'["matter"] = "savePrevious" /\ call'["matter"].op = "CurrentLevel"
      BY <2>1, <3>2 DEF Invoke, Goto, OthersStay, TypeOK, ControlType
    <3> QED BY <1>5, <3>1, <3>2 DEF RemoteWrite
  <2>3. InUpdate("matter")' /\ ~Switching("matter")' /\ ~Switching("matter")
    BY <2>1, <2>2 DEF InUpdate, InCall, Switching, CallLabels, UpdateOps
  <2>4. \A q \in Tasks \ {"matter"} : /\ pc'[q] = pc[q] /\ call'[q] = call[q]
                                      /\ InUpdate(q)' <=> InUpdate(q)
                                      /\ Switching(q)' <=> Switching(q)
    BY <2>2 DEF OthersStay, InUpdate, InCall, Switching
  <2>5. LockInv'
    <3>1. matterUp
      BY <2>1 DEF StartInv
    <3> QED BY <2>1, <2>3, <2>4, <3>1 DEF CoreInv, LockInv, Tasks, Free
  <2>6. CallInv'
    BY <2>2, <2>4 DEF CoreInv, CallInv, CallOk
  <2>7. CallerInv'
    BY <2>1, <2>2, <2>4 DEF CoreInv, CallerInv, InCall, Tasks, UpdateOps
  <2>8. RelayInv'
    BY <2>1, <2>3, <2>4 DEF CoreInv, RelayInv
  <2>9. BootInv => BootInv'
    BY <2>1, <2>4 DEF CoreInv, BootInv, InCall, Tasks
  <2>10. ShadowInv => ShadowInv'
    BY <2>1, <2>4 DEF CoreInv, ShadowInv, Tasks
  <2>11. StartInv'
    BY <2>1, <2>4 DEF StartInv, Tasks
  <2> QED BY <2>5, <2>6, <2>7, <2>8, <2>9, <2>10, <2>11 DEF SwitchKept, CoreInv
<1>6. CASE Reset
  <2>1. /\ pc' = PowerUpPc /\ chipLock' = Free /\ lastOnWriter' = Nobody /\ ~matterUp'
    BY <1>6 DEF Reset
  <2>2. pc'["main"] = "switchInit" /\ pc'["slider"] = "none" /\ pc'["matter"] = "down"
    BY <2>1 DEF PowerUpPc, Tasks
  <2>3. \A q \in Tasks : ~InCall(q)'
    BY <2>2 DEF InCall, CallLabels, Tasks
  <2>4. LockInv' /\ CallInv'
    BY <2>1, <2>3 DEF LockInv, CallInv, CallOk, InUpdate, InCall, CallLabels, Tasks, Free
  <2>5. CallerInv' /\ RelayInv'
    BY <2>1, <2>3 DEF CallerInv, RelayInv, Switching, InUpdate, Tasks
  <2>6. BootInv' /\ ShadowInv' /\ StartInv'
    BY <2>1, <2>2 DEF BootInv, ShadowInv, StartInv, Nobody
  <2> QED BY <2>4, <2>5, <2>6 DEF SwitchKept, CoreInv
<1> QED BY <1>2, <1>3, <1>4, <1>5, <1>6 DEF Environment

\* Every step of the device keeps the core, and the copy if it was right.
LEMMA NextSwitch ==
  ASSUME TypeOK, CoreInv, StartInv, DeviceStep
  PROVE  SwitchKept /\ StartInv'
<1>1. CASE MainStep
  BY <1>1, MainStepSwitch
<1>2. CASE SliderStep
  BY <1>2, SliderStepSwitch
<1>3. ASSUME NEW p \in Tasks, CallStep(p) PROVE SwitchKept /\ StartInv'
  BY <1>3, CallStepSwitch, CallStepStart DEF CoreInv
<1>4. CASE Environment
  BY <1>4, EnvironmentSwitch
<1> QED BY <1>1, <1>2, <1>3, <1>4 DEF DeviceStep

LEMMA InitSwitch == Init => SwitchInv /\ StartInv
<1> SUFFICES ASSUME Init PROVE SwitchInv /\ StartInv
  OBVIOUS
<1>1. pc = PowerUpPc /\ chipLock = Free /\ lastOnWriter = Nobody /\ ~matterUp
  BY DEF Init
<1>2. pc["main"] = "switchInit" /\ pc["slider"] = "none" /\ pc["matter"] = "down"
  BY <1>1 DEF PowerUpPc, Tasks
<1>3. \A q \in Tasks : ~InCall(q)
  BY <1>2 DEF InCall, CallLabels, Tasks
<1>4. LockInv /\ CallInv
  BY <1>1, <1>3 DEF LockInv, CallInv, CallOk, InUpdate, InCall, CallLabels, Tasks, Free
<1>5. CallerInv /\ RelayInv
  BY <1>1, <1>3 DEF CallerInv, RelayInv, Switching, InUpdate, Tasks
<1>6. BootInv /\ ShadowInv /\ StartInv
  BY <1>1, <1>2 DEF BootInv, ShadowInv, StartInv, Nobody
<1> QED BY <1>4, <1>5, <1>6 DEF SwitchInv, CoreInv

\* The CHIP lock serialises the callbacks, the relay is what OnOff is or is
\* about to become, and old_state mirrors the task's own writes.
THEOREM SwitchInvariant ==
  ASSUME CanReject = FALSE
  PROVE  Spec => [](SwitchInv /\ StartInv)
<1>1. Init => SwitchInv /\ StartInv
  BY InitSwitch
<1>2. TypeOK /\ SwitchInv /\ StartInv /\ [Next]_vars => (SwitchInv /\ StartInv)'
  <2> SUFFICES ASSUME TypeOK, SwitchInv, StartInv, [DeviceStep]_stepVars
               PROVE  (SwitchInv /\ StartInv)'
    BY NoReject
  <2>1. CASE DeviceStep
    BY <2>1, NextSwitch DEF SwitchInv, SwitchKept
  <2>2. CASE UNCHANGED stepVars
    BY <2>2 DEF SwitchInv, CoreInv, StartInv, LockInv, CallInv, CallOk, CallerInv, RelayInv,
       BootInv, ShadowInv, InCall, InUpdate, Switching, stepVars, ioVars, outVars, nodeVars
  <2> QED BY <2>1, <2>2
<1> QED BY <1>1, <1>2, TypeCorrect, PTL DEF Spec

-----------------------------------------------------------------------------
(* The firing delay.                                                       *)

\* set_brightness and set_power: no interleaving, not even of the unlocked
\* calls of the boot, gives the timer a delay outside the half period.
THEOREM DelayTheorem == Spec => []DelayInRange
<1>0. 0 \in Delay /\ MAX_INTERVAL \div 2 \in Delay
  BY DEF Delay, MAX_INTERVAL
<1>1. Init => DelayInRange
  BY <1>0 DEF Init, DelayInRange
<1>2. TypeOK /\ DelayInRange /\ [Next]_vars => DelayInRange'
  <2> SUFFICES ASSUME TypeOK, DelayInRange, [Next]_vars PROVE DelayInRange'
    OBVIOUS
  <2>1. ASSUME UNCHANGED <<interval, alarm_count, hwAlarm>> PROVE DelayInRange'
    BY <2>1 DEF DelayInRange
  <2>2. CASE MainStep
    BY <2>1, <2>2 DEF MainStep, SwitchInit, CreateNode, StartMatter, StartSensor, DefaultLevel,
       ApplyLevel, DefaultPower, ApplyPower, drvVars
  <2>3. CASE SliderStep
    BY <2>1, <2>3 DEF SliderStep, HandlePress, NoPress, AfterPress, ReadTouch, SkipTouch,
       GetLevel, SendLevel, SameLevel, LevelSent, OnSent, ShowLevel, ShowPrevious, Wake, drvVars
  <2>4. ASSUME NEW p \in Tasks, CallStep(p) PROVE DelayInRange'
    <3>1. CASE StoreInterval(p)
      BY <3>1, NewIntervalType DEF StoreInterval, DelayInRange
    <3>2. CASE Arm(p)
      BY <3>2 DEF Arm, DelayInRange
    <3>3. CASE Program(p)
      BY <3>3 DEF Program, DelayInRange
    <3>4. CASE ~StoreInterval(p) /\ ~Arm(p) /\ ~Program(p)
      BY <2>1, <2>4, <3>4 DEF CallStep, AcquireLock, UpdateFails, SetRelay, SetOn, Branch,
         SavePrevious, StoreLevel, SaveOldLevel, Store, drvVars
    <3> QED BY <3>1, <3>2, <3>3, <3>4
  <2>5. CASE Environment
    BY <1>0, <2>1, <2>5 DEF Environment, ButtonEdge, RemoteWrite, TouchChange, Tick, Reset,
       drvVars, DelayInRange
  <2>6. ASSUME NEW p \in Tasks, RejectUpdate(p) PROVE DelayInRange'
    BY <2>1, <2>6 DEF RejectUpdate, drvVars
  <2>7. CASE UNCHANGED vars
    BY <2>1, <2>7 DEF vars, stepVars, drvVars
  <2> QED BY <2>2, <2>3, <2>4, <2>5, <2>6, <2>7 DEF Next, DeviceStep
<1> QED BY <1>1, <1>2, TypeCorrect, PTL DEF Spec

-----------------------------------------------------------------------------
(***************************************************************************)
(* Quiet boots: when no input comes before app_main is done, the driver    *)
(* agrees with the attributes whenever no update is in progress, off means *)
(* dark, and the boot ends with the default light.  With inputs during the *)
(* boot none of this holds: app_driver_set_default calls the driver        *)
(* outside the lock.                                                       *)
(***************************************************************************)

\* The variables the quiet invariant is about, apart from the control.
quietVars == <<m_isOn, m_level, interval, alarm_count, hwAlarm, relay,
               attrOn, attrLevel, lastOnWriter, matterUp>>

\* What a task leaves pending in the driver.
Pending(p) == PowerPending(p) \/ LevelPending(p) \/ pc[p] = "storeInterval"

-----------------------------------------------------------------------------
(* Facts about the tasks.                                                  *)

\* set_brightness(0) and set_power(false): the level is 0 and the delay the
\* whole half period; the default level has a delay the timer accepts.
LEMMA DarkFacts == StoredLevel(0) = 0 /\ IntervalFor(0) = MAX_INTERVAL /\ MAX_INTERVAL # 0
BY DEF StoredLevel, IntervalFor, MAX_INTERVAL

LEMMA BootLevelFacts ==
  /\ BootLevel = MatterToPercent(DEFAULT_BRIGHTNESS)
  /\ IntervalFor(BootLevel) # 0 /\ DEFAULT_POWER = TRUE
<1>1. MatterToPercent(DEFAULT_BRIGHTNESS) = 70
  BY DEF MatterToPercent, REMAP_TO_RANGE, DEFAULT_BRIGHTNESS, MATTER_BRIGHTNESS,
         STANDARD_BRIGHTNESS
<1>2. BootLevel = 70
  BY <1>1 DEF BootLevel, StoredLevel
<1>3. IntervalFor(70) # 0
  BY DEF IntervalFor, INTENSITY2TIME, TruncDiv, Abs, MAX_INTERVAL
<1> QED BY <1>1, <1>2, <1>3 DEF DEFAULT_POWER

\* In a quiet boot at most one task is in the driver, although app_main calls
\* it outside the lock.
LEMMA OneInside ==
  ASSUME CoreInv, CalmInv, NEW p \in Tasks, NEW q \in Tasks, Inside(p), Inside(q)
  PROVE  p = q
<1>1. ASSUME NEW r \in Tasks, Inside(r), r # "main" PROVE chipLock = r
  <2>1. call[r].op \in UpdateOps
    BY <1>1 DEF CoreInv, CallerInv, Inside, Tasks
  <2> QED BY <1>1, <2>1 DEF CoreInv, LockInv, InUpdate, Inside
<1>2. ASSUME Inside("main"), NEW r \in Tasks, r # "main" PROVE ~Inside(r)
  BY <1>2 DEF CalmInv, Inside, InCall, CallLabels, Tasks
<1> QED BY <1>1, <1>2

\* A task outside the driver has nothing pending there.
LEMMA NothingPending ==
  ASSUME NEW p \in Tasks, ~Inside(p)
  PROVE  ~Pending(p) /\ RequestOk(p)
BY DEF Inside, InCall, CallLabels, Pending, PowerPending, LevelPending, RequestOk

LEMMA OthersNothingPending ==
  ASSUME CoreInv, CalmInv, NEW p \in Tasks, Inside(p), OthersStay(p)
  PROVE  \A q \in Tasks \ {p} : /\ ~Inside(q) /\ ~Pending(q)
                                /\ ~Inside(q)' /\ ~Pending(q)' /\ RequestOk(q)'
<1> SUFFICES ASSUME NEW q \in Tasks, q # p
             PROVE  /\ ~Inside(q) /\ ~Pending(q)
                    /\ ~Inside(q)' /\ ~Pending(q)' /\ RequestOk(q)'
  OBVIOUS
<1>1. ~Inside(q)
  BY OneInside
<1>2. ~Inside(q)'
  BY <1>1 DEF OthersStay, Inside, InCall
<1>3. ~Pending(q)' /\ RequestOk(q)'
  BY <1>2 DEF Inside, InCall, CallLabels, Pending, PowerPending, LevelPending, RequestOk
<1> QED BY <1>1, <1>2, <1>3, NothingPending

\* While a task other than app_main is in a call, app_main is done.
LEMMA OthersCallAfterBoot ==
  ASSUME CalmInv, NEW p \in Tasks, InCall(p), p # "main"
  PROVE  pc["main"] = "done"
BY DEF CalmInv, InCall, CallLabels, Tasks

\* The steps of a call leave the boot calm and keep the arguments.
LEMMA CallCalm ==
  ASSUME TypeOK, CoreInv, CalmInv, ArgsInv, NEW p \in Tasks, InCall(p), OthersStay(p),
         UNCHANGED <<is_pressed, touchChanged, old_state>>,
         InCall(p)' => call'[p] = call[p]
  PROVE  CalmInv' /\ ArgsInv'
<1>1. CASE p = "main"
  BY <1>1 DEF CalmInv, ArgsInv, OthersStay, InCall, CallLabels, Tasks
<1>2. CASE p # "main"
  <2>1. pc["main"] = "done" /\ pc'["main"] = "done"
    BY <1>2, OthersCallAfterBoot DEF OthersStay, Tasks
  <2> QED BY <2>1 DEF CalmInv, ArgsInv, InCall, CallLabels
<1> QED BY <1>1, <1>2

\* A task that stays in its call leaves the stage of the boot as it was.
LEMMA StagesStay ==
  ASSUME NEW p \in Tasks, OthersStay(p), InCall(p), InCall(p)', call'[p] = call[p]
  PROVE  /\ LevelStored' <=> LevelStored
         /\ LevelSet' <=> LevelSet
         /\ PowerStored' <=> PowerStored
         /\ pc'["main"] = "done" <=> pc["main"] = "done"
         /\ InCall("main")' <=> InCall("main")
         /\ pc["main"] \in {"switchInit", "createNode", "startMatter"} <=>
              pc'["main"] \in {"switchInit", "createNode", "startMatter"}
<1>1. CASE p = "main"
  BY <1>1 DEF LevelStored, LevelSet, PowerStored, InCall, CallLabels
<1>2. CASE p # "main"
  BY <1>2 DEF LevelStored, LevelSet, PowerStored, InCall, OthersStay, Tasks
<1> QED BY <1>1, <1>2

-----------------------------------------------------------------------------
(* The steps of a driver call.                                             *)

\* A step inside a call: what is left to show is about the task itself.
LEMMA InsideQuiet ==
  ASSUME TypeOK, CoreInv, QuietInv, NEW p \in Tasks, NEW l \in CallLabels \ {"lock"},
         Inside(p), Goto(p, l), UNCHANGED call,
         UNCHANGED <<is_pressed, touchChanged, old_state>>,
         UNCHANGED <<attrOn, attrLevel, lastOnWriter, matterUp>>,
         UNCHANGED relay \/ matterUp,
         RequestOk(p)',
         LevelSet /\ l # "storeInterval" => interval' = IntervalFor(m_level'),
         matterUp /\ ~LevelPending(p)' => m_level' \in {0, StoredLevel(MatterToPercent(attrLevel))},
         lastOnWriter # Nobody /\ ~PowerPending(p)'
           => m_isOn' = attrOn /\ (~attrOn => hwAlarm' = MAX_INTERVAL),
         p = "main" /\ LevelSet => m_level' = BootLevel,
         p = "main" /\ l = "program" => alarm_count' = IntervalFor(BootLevel)
  PROVE  QuietInv'
<1>1. pc'[p] = l /\ call'[p] = call[p] /\ OthersStay(p) /\ InCall(p) /\ InCall(p)'
  BY GotoFacts DEF Inside, InCall
<1>2. \A q \in Tasks \ {p} : /\ ~Inside(q) /\ ~Pending(q)
                             /\ ~Inside(q)' /\ ~Pending(q)' /\ RequestOk(q)'
  BY <1>1, OthersNothingPending DEF QuietInv
<1>3. CalmInv' /\ ArgsInv'
  BY <1>1, CallCalm DEF QuietInv
<1>4. RequestInv'
  BY <1>2 DEF RequestInv
<1>5. /\ LevelStored' <=> LevelStored
      /\ LevelSet' <=> LevelSet
      /\ PowerStored' <=> PowerStored
      /\ pc'["main"] = "done" <=> pc["main"] = "done"
      /\ pc["main"] \in {"switchInit", "createNode", "startMatter"} <=>
           pc'["main"] \in {"switchInit", "createNode", "startMatter"}
  BY <1>1, StagesStay
<1>6. LevelInv'
  <2>1. LevelSet' /\ (\A q \in Tasks : pc'[q] # "storeInterval") => interval' = IntervalFor(m_level')
    BY <1>1, <1>5
  <2>2. matterUp' /\ (\A q \in Tasks : ~LevelPending(q)')
          => m_level' \in {0, StoredLevel(MatterToPercent(attrLevel'))}
    OBVIOUS
  <2> QED BY <2>1, <2>2 DEF LevelInv
<1>7. PowerInv'
  BY DEF PowerInv
<1>8. StageInv'
  <2>1. CASE p = "main"
    <3>1. pc'["main"] = l /\ pc["main"] \in CallLabels /\ l \in CallLabels
      BY <1>1, <2>1 DEF InCall
    <3> QED BY <1>5, <2>1, <3>1 DEF StageInv, QuietInv, CallLabels
  <2>2. CASE p # "main"
    <3>1. pc["main"] = "done" /\ pc'["main"] = "done"
      BY <1>1, <2>2, OthersCallAfterBoot DEF OthersStay, Tasks, QuietInv
    <3> QED BY <1>5, <3>1 DEF StageInv, QuietInv
  <2> QED BY <2>1, <2>2
<1> QED BY <1>3, <1>4, <1>6, <1>7, <1>8 DEF QuietInv

\* What InsideQuiet needs of a driver that is not touched.
LEMMA InsideFacts ==
  ASSUME TypeOK, CoreInv, QuietInv, NEW p \in Tasks, Inside(p)
  PROVE  /\ RequestOk(p) /\ CallOk(p) /\ call[p].op \in Ops /\ call[p].on \in BOOLEAN
         /\ LevelSet /\ pc[p] # "storeInterval" => interval = IntervalFor(m_level)
         /\ matterUp /\ ~LevelPending(p) => m_level \in {0, StoredLevel(MatterToPercent(attrLevel))}
         /\ lastOnWriter # Nobody /\ ~PowerPending(p)
              => m_isOn = attrOn /\ (~attrOn => hwAlarm = MAX_INTERVAL)
         /\ p = "main" /\ LevelSet => m_level = BootLevel
         /\ p = "main" /\ call[p].op \in PowerOps => LevelSet /\ call[p].on = TRUE
         /\ p = "main" /\ call[p].op \notin PowerOps => call[p].lvl = DEFAULT_BRIGHTNESS
         /\ call[p].op \notin UpdateOps => p = "main"
         /\ InUpdate(p) => matterUp
<1>1. \A q \in Tasks \ {p} : ~Pending(q)
  <2> SUFFICES ASSUME NEW q \in Tasks, q # p PROVE ~Pending(q)
    OBVIOUS
  <2>1. ~Inside(q)
    BY OneInside DEF QuietInv
  <2> QED BY <2>1, NothingPending
<1>2. RequestOk(p) /\ CallOk(p) /\ call[p].op \in Ops /\ call[p].on \in BOOLEAN
  BY DEF QuietInv, RequestInv, CoreInv, CallInv, TypeOK, ControlType, CallType
<1>3. LevelSet /\ pc[p] # "storeInterval" => interval = IntervalFor(m_level)
  BY <1>1 DEF Pending, QuietInv, LevelInv
<1>4. matterUp /\ ~LevelPending(p) => m_level \in {0, StoredLevel(MatterToPercent(attrLevel))}
  BY <1>1 DEF Pending, QuietInv, LevelInv
<1>5. lastOnWriter # Nobody /\ ~PowerPending(p)
        => m_isOn = attrOn /\ (~attrOn => hwAlarm = MAX_INTERVAL)
  BY <1>1 DEF Pending, QuietInv, PowerInv
<1>6. p = "main" /\ LevelSet => m_level = BootLevel
  BY DEF QuietInv, StageInv, Inside, InCall, CallLabels
<1>7. /\ p = "main" /\ call[p].op \in PowerOps => LevelSet /\ call[p].on = TRUE
      /\ p = "main" /\ call[p].op \notin PowerOps => call[p].lvl = DEFAULT_BRIGHTNESS
  BY BootLevelFacts DEF QuietInv, ArgsInv, Inside, LevelSet
<1>8. call[p].op \notin UpdateOps => p = "main"
  BY DEF CoreInv, CallerInv, Inside, Tasks
<1>9. InUpdate(p) => matterUp
  BY DEF CoreInv, LockInv, Tasks, Free
<1> QED BY <1>2, <1>3, <1>4, <1>5, <1>6, <1>7, <1>8, <1>9

\* The steps that stay in the call.
LEMMA InsideStepQuiet ==
  ASSUME TypeOK, CoreInv, QuietInv, NEW p \in Tasks,
         \/ SetRelay(p) \/ SetOn(p) \/ Branch(p) \/ SavePrevious(p) \/ StoreLevel(p)
         \/ Arm(p) \/ SaveOldLevel(p)
  PROVE  QuietInv'
<1>0. Inside(p)
  BY DEF SetRelay, SetOn, Branch, SavePrevious, StoreLevel, Arm, SaveOldLevel, Jump,
         Inside, InCall, CallLabels
<1> DEFINE lvls == {0, StoredLevel(MatterToPercent(attrLevel))}
<1>1. /\ RequestOk(p) /\ CallOk(p) /\ call[p].op \in Ops /\ call[p].on \in BOOLEAN
      /\ LevelSet /\ pc[p] # "storeInterval" => interval = IntervalFor(m_level)
      /\ matterUp /\ ~LevelPending(p) => m_level \in lvls
      /\ lastOnWriter # Nobody /\ ~PowerPending(p)
           => m_isOn = attrOn /\ (~attrOn => hwAlarm = MAX_INTERVAL)
      /\ p = "main" /\ LevelSet => m_level = BootLevel
      /\ p = "main" /\ call[p].op \in PowerOps => LevelSet /\ call[p].on = TRUE
      /\ p = "main" /\ call[p].op \notin PowerOps => call[p].lvl = DEFAULT_BRIGHTNESS
      /\ call[p].op \notin UpdateOps => p = "main"
      /\ InUpdate(p) => matterUp
  BY <1>0, InsideFacts
<1>2. Brightness(p)' = Brightness(p) \/ call' # call
  BY DEF Brightness
<1> HIDE DEF lvls
<1> USE DEF CallLabels
<1>3. CASE SetRelay(p)
  <2>1. pc[p] = "setRelay" /\ Goto(p, "setOn") /\ UNCHANGED call /\ pc'[p] = "setOn"
    BY <1>3, GotoFacts DEF SetRelay, Jump
  <2>2. matterUp
    BY <1>0, <1>1, <2>1 DEF CallOk, Inside, InUpdate, UpdateOps
  <2>3. ~LevelPending(p) /\ ~PowerPending(p) /\ ~LevelPending(p)' /\ ~PowerPending(p)'
        /\ RequestOk(p)'
    BY <2>1 DEF LevelPending, PowerPending, RequestOk
  <2> QED BY <1>0, <1>1, <1>3, <2>1, <2>2, <2>3, InsideQuiet
          DEF SetRelay, drvVars, ioVars, touchVars, nodeVars, lvls
<1>4. CASE SetOn(p)
  <2>1. pc[p] = "setOn" /\ Goto(p, "branch") /\ UNCHANGED call /\ pc'[p] = "branch"
        /\ m_isOn' = call[p].on /\ call'[p] = call[p] /\ call[p].op \in PowerOps
    BY <1>1, <1>4, GotoFacts DEF SetOn, Jump, CallOk
  <2>2. ~LevelPending(p) /\ ~LevelPending(p)' /\ PowerPending(p)' /\ RequestOk(p)'
    BY <2>1 DEF LevelPending, PowerPending, RequestOk
  <2> QED BY <1>0, <1>1, <1>4, <2>1, <2>2, InsideQuiet
          DEF SetOn, ioVars, outVars, touchVars, nodeVars, lvls
<1>5. CASE Branch(p)
  <2>1. PICK on \in {m_isOn, call[p].on} : Goto(p, IF on THEN "arm" ELSE "savePrevious")
    BY <1>5 DEF Branch
  <2>2. pc[p] = "branch" /\ UNCHANGED call /\ call[p].op \in PowerOps /\ call'[p] = call[p]
    BY <1>1, <1>5 DEF Branch, CallOk
  <2>3. PowerPending(p) /\ m_isOn = call[p].on /\ on = call[p].on
    BY <1>1, <2>1, <2>2 DEF PowerPending, RequestOk
  <2>4. pc'[p] = IF call[p].on THEN "arm" ELSE "savePrevious"
    BY <2>1, <2>2, <2>3, GotoFacts
  <2>5. UNCHANGED <<drvVars, ioVars, outVars, touchVars, nodeVars>>
    BY <1>5 DEF Branch
  <2>6. ~LevelPending(p) /\ ~LevelPending(p)' /\ PowerPending(p)' /\ RequestOk(p)'
    BY <2>2, <2>3, <2>4, <2>5 DEF LevelPending, PowerPending, RequestOk, drvVars, PowerOps
  <2>7. pc'[p] \in CallLabels \ {"lock", "program", "storeInterval"} /\ Goto(p, pc'[p])
    BY <2>1, <2>3, <2>4
  <2> QED BY <1>0, <1>1, <2>2, <2>5, <2>6, <2>7, InsideQuiet
          DEF drvVars, ioVars, outVars, touchVars, nodeVars, lvls
<1>6. CASE SavePrevious(p)
  <2>1. /\ pc[p] = "savePrevious" /\ Goto(p, "storeLevel") /\ UNCHANGED call
        /\ pc'[p] = "storeLevel" /\ call'[p] = call[p]
    BY <1>6, GotoFacts DEF SavePrevious, Jump
  <2>2. UNCHANGED <<m_isOn, m_level, interval, alarm_count, hwAlarm>>
    BY <1>6 DEF SavePrevious
  <2>3. ~LevelPending(p) /\ ~LevelPending(p)' /\ (PowerPending(p)' <=> PowerPending(p))
        /\ RequestOk(p)'
    BY <1>1, <2>1, <2>2 DEF LevelPending, PowerPending, RequestOk
  <2> QED BY <1>0, <1>1, <1>6, <2>1, <2>2, <2>3, InsideQuiet
          DEF SavePrevious, ioVars, outVars, touchVars, nodeVars, lvls
<1>7. CASE StoreLevel(p)
  <2>1. /\ pc[p] = "storeLevel" /\ Goto(p, "storeInterval") /\ UNCHANGED call
        /\ pc'[p] = "storeInterval" /\ call'[p] = call[p]
    BY <1>7, GotoFacts DEF StoreLevel, Jump
  <2>2. UNCHANGED <<m_isOn, interval, alarm_count, hwAlarm>> /\ m_level' = StoredLevel(Brightness(p))
    BY <1>7 DEF StoreLevel
  <2>3. RequestOk(p)' /\ (PowerPending(p)' <=> PowerPending(p)) /\ ~LevelPending(p)
    BY <1>1, <1>2, <2>1, <2>2 DEF LevelPending, PowerPending, RequestOk
  <2>4. matterUp /\ ~LevelPending(p)' => m_level' \in lvls
    <3>1. CASE call[p].op \in PowerOps
      BY <2>2, <3>1, DarkFacts DEF Brightness, lvls
    <3>2. CASE call[p].op = "CurrentLevel"
      BY <2>1, <3>2 DEF LevelPending
    <3>3. CASE call[p].op = "brightness"
      <4>1. p = "main" /\ LevelStored
        BY <1>0, <1>1, <3>3 DEF UpdateOps, LevelStored, Inside
      <4>2. matterUp => attrLevel = DEFAULT_BRIGHTNESS
        BY <4>1 DEF QuietInv, StageInv
      <4> QED BY <1>1, <2>2, <3>3, <4>1, <4>2 DEF Brightness, PowerOps, lvls
    <3> QED BY <1>1, <3>1, <3>2, <3>3 DEF Ops, PowerOps
  <2>5. p = "main" /\ LevelSet => m_level' = BootLevel
    <3>1. p = "main" => call[p].op \notin PowerOps
      BY <1>1, <2>1 DEF RequestOk
    <3>2. p = "main" => ~LevelSet
      BY <2>1, <3>1 DEF LevelSet
    <3> QED BY <3>2
  <2> QED BY <1>0, <1>1, <1>7, <2>1, <2>2, <2>3, <2>4, <2>5, InsideQuiet
          DEF StoreLevel, ioVars, outVars, touchVars, nodeVars, lvls
<1>8. CASE Arm(p)
  <2>1. /\ pc[p] = "arm" /\ Goto(p, "program") /\ UNCHANGED call /\ call[p].op \in PowerOps
        /\ pc'[p] = "program" /\ call'[p] = call[p]
    BY <1>1, <1>8, GotoFacts DEF Arm, Jump, CallOk
  <2>2. UNCHANGED <<m_isOn, m_level, interval, hwAlarm>> /\ alarm_count' = interval
    BY <1>8 DEF Arm
  <2>3. RequestOk(p)' /\ PowerPending(p)' /\ ~LevelPending(p) /\ ~LevelPending(p)'
    BY <1>1, <2>1, <2>2 DEF LevelPending, PowerPending, RequestOk
  <2>4. p = "main" => alarm_count' = IntervalFor(BootLevel)
    BY <1>1, <2>1, <2>2
  <2> QED BY <1>0, <1>1, <1>8, <2>1, <2>2, <2>3, <2>4, InsideQuiet
          DEF Arm, ioVars, outVars, touchVars, nodeVars, lvls
<1>9. CASE SaveOldLevel(p)
  <2>1. /\ pc[p] = "saveOldLevel" /\ Goto(p, "store") /\ UNCHANGED call
        /\ pc'[p] = "store" /\ call'[p] = call[p] /\ call[p].op = "CurrentLevel"
    BY <1>1, <1>9, GotoFacts DEF SaveOldLevel, Jump, CallOk
  <2>2. UNCHANGED <<m_isOn, m_level, interval, alarm_count, hwAlarm>>
    BY <1>9 DEF SaveOldLevel, drvVars
  <2>3. RequestOk(p)' /\ LevelPending(p)' /\ ~PowerPending(p) /\ ~PowerPending(p)'
    BY <1>1, <1>2, <2>1, <2>2 DEF LevelPending, PowerPending, RequestOk, PowerOps
  <2> QED BY <1>0, <1>1, <1>9, <2>1, <2>2, <2>3, InsideQuiet
          DEF SaveOldLevel, outVars, touchVars, nodeVars, lvls
<1> QED BY <1>3, <1>4, <1>5, <1>6, <1>7, <1>8, <1>9

\* A step that ends a call: what is left to show is that the driver agrees
\* with the attributes again and, for app_main, the stage it has reached.
LEMMA ReturnQuiet ==
  ASSUME TypeOK, CoreInv, QuietInv, NEW p \in Tasks, InCall(p), Return(p),
         \A q \in Tasks \ {p} : ~Inside(q),
         UNCHANGED <<is_pressed, touchChanged, old_state, relay, matterUp>>,
         LevelSet' => interval' = IntervalFor(m_level'),
         matterUp => m_level' \in {0, StoredLevel(MatterToPercent(attrLevel'))},
         lastOnWriter' # Nobody => m_isOn' = attrOn' /\ (~attrOn' => hwAlarm' = MAX_INTERVAL),
         p = "main" =>
           /\ matterUp => attrLevel' = DEFAULT_BRIGHTNESS
           /\ matterUp /\ call[p].ret = "applyPower" => attrOn'
           /\ call[p].ret \in {"applyPower", "defaultPower"} => m_level' = BootLevel
  PROVE  QuietInv'
<1>1. pc'[p] = call[p].ret /\ OthersStay(p) /\ ~InCall(p)'
  BY ReturnFacts
<1>2. \A q \in Tasks : ~Inside(q)'
  BY <1>1 DEF OthersStay, Inside, InCall
<1>3. \A q \in Tasks : ~Pending(q)' /\ RequestOk(q)'
  BY <1>2 DEF Inside, InCall, CallLabels, Pending, PowerPending, LevelPending, RequestOk
<1>4. CalmInv' /\ ArgsInv'
  BY <1>1, CallCalm DEF QuietInv
<1>5. RequestInv'
  BY <1>3 DEF RequestInv
<1>6. LevelInv'
  <2>1. matterUp' => m_level' \in {0, StoredLevel(MatterToPercent(attrLevel'))}
    OBVIOUS
  <2> QED BY <2>1 DEF LevelInv
<1>7. PowerInv'
  BY DEF PowerInv
<1>8. StageInv'
  <2>1. CASE p = "main"
    <3>1. call[p].op \in Ops
      BY DEF TypeOK, ControlType, CallType
    <3>2. pc'["main"] \in {"applyPower", "applyLevel", "defaultPower", "done"}
          /\ pc'["main"] = call[p].ret
      BY <1>1, <2>1, <3>1 DEF CoreInv, CallerInv, Ops
    <3>3. ~InCall("main")'
      BY <1>1, <2>1
    <3> QED BY <2>1, <3>2, <3>3 DEF StageInv, QuietInv, LevelStored, LevelSet, PowerStored
  <2>2. CASE p # "main"
    <3>1. pc["main"] = "done" /\ pc'["main"] = "done"
      BY <1>1, <2>2, OthersCallAfterBoot DEF OthersStay, Tasks, QuietInv
    <3>2. ~LevelStored' /\ ~PowerStored'
      BY <3>1 DEF LevelStored, PowerStored, InCall, CallLabels
    <3> QED BY <3>1, <3>2 DEF StageInv, QuietInv
  <2> QED BY <2>1, <2>2
<1> QED BY <1>4, <1>5, <1>6, <1>7, <1>8 DEF QuietInv

LEMMA OthersOutside ==
  ASSUME CoreInv, QuietInv, NEW p \in Tasks, Inside(p)
  PROVE  \A q \in Tasks \ {p} : ~Inside(q)
BY OneInside DEF QuietInv

\* A waiting task: while the lock is free, nobody is in the driver.
LEMMA WaitingQuiet ==
  ASSUME TypeOK, CoreInv, QuietInv, NEW p \in Tasks, pc[p] = "lock", chipLock = Free
  PROVE  \A q \in Tasks : ~Inside(q) /\ ~Pending(q)
<1> SUFFICES ASSUME NEW q \in Tasks PROVE ~Inside(q)
  BY NothingPending
<1>1. CASE q = "main"
  <2>1. Inside("main") => p = "main"
    BY OthersCallAfterBoot DEF QuietInv, Inside, InCall, CallLabels
  <2> QED BY <1>1, <2>1 DEF Inside
<1>2. CASE q # "main"
  <2>1. Inside(q) => call[q].op \in UpdateOps
    BY <1>2 DEF CoreInv, CallerInv, Inside, Tasks
  <2> QED BY <2>1 DEF CoreInv, LockInv, InUpdate, Inside, Tasks, Free
<1> QED BY <1>1, <1>2

LEMMA AcquireLockQuiet ==
  ASSUME TypeOK, CoreInv, QuietInv, NEW p \in Tasks, AcquireLock(p)
  PROVE  QuietInv'
<1>1. pc[p] = "lock" /\ chipLock = Free /\ call[p].op \in UpdateOps
  BY DEF AcquireLock, CoreInv, CallInv, CallOk
<1>2. pc'[p] = (IF call[p].op = "OnOff" THEN "setRelay" ELSE "savePrevious")
      /\ call'[p] = call[p] /\ OthersStay(p) /\ InCall(p) /\ InCall(p)'
  BY <1>1, GotoFacts DEF AcquireLock, InCall, CallLabels
<1>3. UNCHANGED <<is_pressed, touchChanged, old_state>> /\ UNCHANGED quietVars
  BY DEF AcquireLock, drvVars, ioVars, outVars, nodeVars, touchVars, quietVars
<1>4. \A q \in Tasks : ~Inside(q) /\ ~Pending(q)
  BY <1>1, WaitingQuiet
<1>5. \A q \in Tasks : ~Pending(q)' /\ RequestOk(q)'
  <2> SUFFICES ASSUME NEW q \in Tasks PROVE ~Pending(q)' /\ RequestOk(q)'
    OBVIOUS
  <2>1. CASE q = p
    BY <1>1, <1>2, <2>1 DEF Pending, PowerPending, LevelPending, RequestOk, UpdateOps, PowerOps
  <2>2. CASE q # p
    <3>1. ~Inside(q)'
      BY <1>2, <1>4, <2>2 DEF OthersStay, Inside, InCall
    <3> QED BY <3>1 DEF Inside, InCall, CallLabels, Pending, PowerPending, LevelPending, RequestOk
  <2> QED BY <2>1, <2>2
<1>6. CalmInv' /\ ArgsInv'
  BY <1>2, <1>3, CallCalm DEF QuietInv
<1>7. /\ LevelStored' <=> LevelStored
      /\ LevelSet' <=> LevelSet
      /\ PowerStored' <=> PowerStored
      /\ pc'["main"] = "done" <=> pc["main"] = "done"
      /\ pc["main"] \in {"switchInit", "createNode", "startMatter"} <=>
           pc'["main"] \in {"switchInit", "createNode", "startMatter"}
  BY <1>2, StagesStay
<1>8. LevelInv'
  <2>1. LevelSet => interval = IntervalFor(m_level)
    BY <1>4 DEF QuietInv, LevelInv, Pending
  <2>2. matterUp => m_level \in {0, StoredLevel(MatterToPercent(attrLevel))}
    BY <1>4 DEF QuietInv, LevelInv, Pending
  <2> QED BY <1>3, <1>7, <2>1, <2>2 DEF LevelInv, quietVars
<1>9. PowerInv'
  BY <1>3, <1>4 DEF QuietInv, PowerInv, Pending, quietVars
<1>10. StageInv'
  <2>1. pc'["main"] # "program"
    <3>1. pc'["main"] = pc["main"] \/ pc'["main"] \in {"setRelay", "savePrevious"}
      BY <1>2 DEF OthersStay, Tasks
    <3>2. pc["main"] # "program"
      BY <1>4 DEF Inside, InCall, CallLabels, Tasks
    <3> QED BY <3>1, <3>2
  <2> QED BY <1>3, <1>7, <2>1 DEF QuietInv, StageInv, quietVars
<1> QED BY <1>5, <1>6, <1>8, <1>9, <1>10 DEF QuietInv, RequestInv

LEMMA UpdateFailsQuiet ==
  ASSUME TypeOK, CoreInv, QuietInv, NEW p \in Tasks, UpdateFails(p)
  PROVE  QuietInv'
<1>1. pc[p] = "lock" /\ ~matterUp /\ chipLock = Free /\ lastOnWriter = Nobody
  BY DEF UpdateFails, CoreInv, LockInv
<1>2. InCall(p) /\ call[p].op \in UpdateOps
  BY <1>1 DEF InCall, CallLabels, CoreInv, CallInv, CallOk
<1>3. UNCHANGED <<is_pressed, touchChanged, old_state>> /\ UNCHANGED quietVars
  BY DEF UpdateFails, drvVars, ioVars, outVars, nodeVars, touchVars, quietVars
<1>4. \A q \in Tasks : ~Inside(q) /\ ~Pending(q)
  BY <1>1, WaitingQuiet
<1>5. pc'[p] = call[p].ret /\ OthersStay(p) /\ ~InCall(p)'
  BY ReturnFacts DEF UpdateFails
<1>6. p = "main" /\ call[p].ret = "applyPower" => LevelSet
  BY <1>2 DEF CoreInv, CallerInv, LevelSet, UpdateOps, PowerOps
<1>7. p = "main" => call[p].ret \in {"applyPower", "applyLevel"}
  BY <1>2 DEF CoreInv, CallerInv, UpdateOps
<1>8. LevelSet' => LevelSet
  <2>1. CASE p = "main"
    BY <1>5, <1>6, <1>7, <2>1 DEF LevelSet
  <2>2. CASE p # "main"
    BY <1>5, <2>2 DEF LevelSet, OthersStay, InCall, Tasks
  <2> QED BY <2>1, <2>2
<1>9. LevelSet => interval = IntervalFor(m_level)
  BY <1>4 DEF QuietInv, LevelInv, Pending
<1>10. p = "main" /\ LevelSet => m_level = BootLevel
  BY <1>2 DEF QuietInv, StageInv, InCall, CallLabels
<1> QED BY <1>1, <1>2, <1>3, <1>4, <1>6, <1>7, <1>8, <1>9, <1>10, ReturnQuiet
        DEF UpdateFails, quietVars

LEMMA StoreIntervalQuiet ==
  ASSUME TypeOK, CoreInv, QuietInv, NEW p \in Tasks, StoreInterval(p)
  PROVE  QuietInv'
<1>0. pc[p] = "storeInterval" /\ Inside(p) /\ InCall(p)
  BY DEF StoreInterval, Inside, InCall, CallLabels
<1> DEFINE lvls == {0, StoredLevel(MatterToPercent(attrLevel))}
<1>1. /\ RequestOk(p) /\ CallOk(p) /\ call[p].op \in Ops /\ call[p].on \in BOOLEAN
      /\ matterUp /\ ~LevelPending(p) => m_level \in lvls
      /\ lastOnWriter # Nobody /\ ~PowerPending(p)
           => m_isOn = attrOn /\ (~attrOn => hwAlarm = MAX_INTERVAL)
      /\ p = "main" /\ LevelSet => m_level = BootLevel
      /\ p = "main" /\ call[p].op \notin PowerOps => call[p].lvl = DEFAULT_BRIGHTNESS
      /\ call[p].op \notin UpdateOps => p = "main"
  BY <1>0, InsideFacts
<1>2. m_level = StoredLevel(Brightness(p))
  BY <1>0, <1>1 DEF RequestOk
<1>3. interval' = IntervalFor(m_level) /\ UNCHANGED <<m_isOn, m_level, alarm_count, hwAlarm>>
  BY <1>2 DEF StoreInterval
<1>4. UNCHANGED <<is_pressed, touchChanged, old_state, relay>>
      /\ UNCHANGED <<attrOn, attrLevel, lastOnWriter, matterUp>>
  BY DEF StoreInterval, ioVars, outVars, nodeVars, touchVars
<1> HIDE DEF lvls
<1>5. CASE call[p].op \in PowerOps
  <2>1. Goto(p, "arm") /\ UNCHANGED call
    BY <1>5 DEF StoreInterval, AfterBrightness, PowerOps
  <2>2. pc'[p] = "arm" /\ call'[p] = call[p]
    BY <2>1, GotoFacts
  <2>3. interval' = MAX_INTERVAL
    BY <1>2, <1>3, <1>5, DarkFacts DEF Brightness
  <2>4. ~LevelPending(p) /\ ~LevelPending(p)' /\ PowerPending(p) /\ PowerPending(p)' /\ RequestOk(p)'
    BY <1>0, <1>1, <1>3, <1>5, <2>2, <2>3 DEF LevelPending, PowerPending, RequestOk, PowerOps
  <2> QED BY <1>0, <1>1, <1>3, <1>4, <2>1, <2>4, InsideQuiet DEF CallLabels, lvls
<1>6. CASE call[p].op = "CurrentLevel"
  <2>1. Goto(p, "saveOldLevel") /\ UNCHANGED call
    BY <1>6 DEF StoreInterval, AfterBrightness, PowerOps
  <2>2. pc'[p] = "saveOldLevel" /\ call'[p] = call[p]
    BY <2>1, GotoFacts
  <2>3. Brightness(p)' = Brightness(p)
    BY <2>2 DEF Brightness
  <2>4. LevelPending(p)' /\ ~PowerPending(p) /\ ~PowerPending(p)' /\ RequestOk(p)'
    BY <1>2, <1>3, <1>6, <2>2, <2>3 DEF LevelPending, PowerPending, RequestOk, PowerOps
  <2> QED BY <1>0, <1>1, <1>3, <1>4, <2>1, <2>4, InsideQuiet DEF CallLabels, lvls
<1>7. CASE call[p].op = "brightness"
  <2>1. Return(p)
    BY <1>7 DEF StoreInterval, AfterBrightness, PowerOps
  <2>2. p = "main" /\ call[p].ret = "defaultPower" /\ LevelStored
    BY <1>0, <1>1, <1>7 DEF UpdateOps, CoreInv, CallerInv, LevelStored
  <2>3. m_level = BootLevel
    BY <1>1, <1>2, <1>7, <2>2 DEF Brightness, BootLevel, PowerOps
  <2>4. matterUp => attrLevel = DEFAULT_BRIGHTNESS
    BY <2>2 DEF QuietInv, StageInv
  <2>5. ~LevelPending(p) /\ ~PowerPending(p)
    BY <1>7 DEF LevelPending, PowerPending, PowerOps
  <2>6. \A q \in Tasks \ {p} : ~Inside(q)
    BY <1>0, OthersOutside
  <2> QED BY <1>0, <1>1, <1>3, <1>4, <2>1, <2>2, <2>3, <2>4, <2>5, <2>6, ReturnQuiet DEF lvls
<1> QED BY <1>1, <1>5, <1>6, <1>7 DEF Ops, PowerOps

LEMMA ProgramQuiet ==
  ASSUME TypeOK, CoreInv, QuietInv, NEW p \in Tasks, Program(p)
  PROVE  QuietInv'
<1>0. pc[p] = "program" /\ Inside(p) /\ InCall(p)
  BY DEF Program, Inside, InCall, CallLabels
<1> DEFINE lvls == {0, StoredLevel(MatterToPercent(attrLevel))}
<1>1. /\ RequestOk(p) /\ CallOk(p) /\ call[p].op \in Ops /\ call[p].on \in BOOLEAN
      /\ LevelSet /\ pc[p] # "storeInterval" => interval = IntervalFor(m_level)
      /\ matterUp /\ ~LevelPending(p) => m_level \in lvls
      /\ p = "main" /\ LevelSet => m_level = BootLevel
      /\ p = "main" /\ call[p].op \in PowerOps => LevelSet /\ call[p].on = TRUE
      /\ call[p].op \notin UpdateOps => p = "main"
  BY <1>0, InsideFacts
<1>2. UNCHANGED <<m_isOn, m_level, interval, alarm_count>>
      /\ hwAlarm' \in IF alarm_count = 0 THEN {0, hwAlarm} ELSE {alarm_count}
  BY DEF Program
<1>3. UNCHANGED <<is_pressed, touchChanged, old_state, relay>>
      /\ UNCHANGED <<attrOn, attrLevel, lastOnWriter, matterUp>>
  BY DEF Program, ioVars, outVars, nodeVars, touchVars
<1>4. ~call[p].on => hwAlarm' = MAX_INTERVAL
  BY <1>0, <1>1, <1>2, DarkFacts DEF RequestOk
<1>5. call[p].op \in PowerOps /\ m_isOn = call[p].on /\ ~LevelPending(p)
  BY <1>0, <1>1 DEF CallOk, RequestOk, PowerPending, LevelPending
<1> HIDE DEF lvls
<1>6. CASE call[p].op = "OnOff"
  <2>1. Goto(p, "store") /\ UNCHANGED call
    BY <1>6 DEF Program
  <2>2. pc'[p] = "store" /\ call'[p] = call[p]
    BY <2>1, GotoFacts
  <2>3. ~LevelPending(p)' /\ PowerPending(p)' /\ RequestOk(p)'
    BY <1>2, <1>4, <1>5, <1>6, <2>2 DEF LevelPending, PowerPending, RequestOk
  <2> QED BY <1>0, <1>1, <1>2, <1>3, <1>5, <2>1, <2>3, InsideQuiet DEF CallLabels, lvls
<1>7. CASE call[p].op = "power"
  <2>1. Return(p)
    BY <1>7 DEF Program
  <2>2. p = "main" /\ call[p].ret = "done" /\ PowerStored /\ LevelStored /\ LevelSet
    BY <1>0, <1>1, <1>5, <1>7 DEF UpdateOps, CoreInv, CallerInv, PowerStored, LevelStored
  <2>3. matterUp => attrLevel = DEFAULT_BRIGHTNESS /\ attrOn
    BY <2>2 DEF QuietInv, StageInv
  <2>4. lastOnWriter # Nobody => m_isOn = attrOn /\ attrOn
    BY <1>1, <1>5, <2>2, <2>3 DEF CoreInv, LockInv, TypeOK, NodeType
  <2>5. \A q \in Tasks \ {p} : ~Inside(q)
    BY <1>0, OthersOutside
  <2> QED BY <1>0, <1>1, <1>2, <1>3, <1>5, <2>1, <2>2, <2>3, <2>4, <2>5, ReturnQuiet DEF lvls
<1> QED BY <1>5, <1>6, <1>7 DEF PowerOps

LEMMA StoreQuiet ==
  ASSUME TypeOK, CoreInv, QuietInv, NEW p \in Tasks, Store(p)
  PROVE  QuietInv'
<1>0. pc[p] = "store" /\ Inside(p) /\ InCall(p) /\ Return(p)
  BY DEF Store, Inside, InCall, CallLabels
<1> DEFINE lvls == {0, StoredLevel(MatterToPercent(attrLevel))}
<1>1. /\ RequestOk(p) /\ CallOk(p) /\ call[p].op \in Ops /\ call[p].on \in BOOLEAN
      /\ LevelSet /\ pc[p] # "storeInterval" => interval = IntervalFor(m_level)
      /\ matterUp /\ ~LevelPending(p) => m_level \in lvls
      /\ lastOnWriter # Nobody /\ ~PowerPending(p)
           => m_isOn = attrOn /\ (~attrOn => hwAlarm = MAX_INTERVAL)
      /\ p = "main" /\ LevelSet => m_level = BootLevel
      /\ p = "main" /\ call[p].op \in PowerOps => LevelSet /\ call[p].on = TRUE
      /\ p = "main" /\ call[p].op \notin PowerOps => call[p].lvl = DEFAULT_BRIGHTNESS
  BY <1>0, InsideFacts
<1>2. UNCHANGED <<m_isOn, m_level, interval, hwAlarm>>
      /\ UNCHANGED <<is_pressed, touchChanged, old_state, relay, matterUp>>
  BY DEF Store, drvVars, ioVars, outVars, touchVars
<1>3. \A q \in Tasks \ {p} : ~Inside(q)
  BY <1>0, OthersOutside
<1>4. pc'[p] = call[p].ret /\ OthersStay(p) /\ ~InCall(p)'
  BY <1>0, ReturnFacts
<1> HIDE DEF lvls
<1>5. CASE call[p].op = "OnOff"
  <2>1. attrOn' = call[p].on /\ lastOnWriter' = p /\ UNCHANGED attrLevel
    BY <1>5 DEF Store
  <2>2. m_isOn = call[p].on /\ (~call[p].on => hwAlarm = MAX_INTERVAL) /\ ~LevelPending(p)
    BY <1>0, <1>1, <1>5 DEF RequestOk, PowerPending, LevelPending, PowerOps
  <2>3. p = "main" => LevelSet /\ LevelStored /\ call[p].on = TRUE
    BY <1>0, <1>1, <1>5 DEF PowerOps, LevelStored
  <2>4. p = "main" /\ matterUp => attrLevel = DEFAULT_BRIGHTNESS
    BY <2>3 DEF QuietInv, StageInv
  <2>5. LevelSet' => LevelSet
    BY <1>4, <2>3 DEF LevelSet, OthersStay, InCall, Tasks
  <2> QED BY <1>0, <1>1, <1>2, <1>3, <2>1, <2>2, <2>3, <2>4, <2>5, ReturnQuiet DEF lvls
<1>6. CASE call[p].op = "CurrentLevel"
  <2>1. attrLevel' = call[p].lvl /\ UNCHANGED <<attrOn, lastOnWriter>>
    BY <1>6 DEF Store
  <2>2. m_level = StoredLevel(MatterToPercent(call[p].lvl)) /\ ~PowerPending(p)
    BY <1>0, <1>1, <1>6 DEF RequestOk, PowerPending, LevelPending, PowerOps, Brightness
  <2>3. p = "main" => call[p].ret = "applyLevel" /\ call[p].lvl = DEFAULT_BRIGHTNESS
    BY <1>0, <1>1, <1>6 DEF PowerOps, CoreInv, CallerInv
  <2>4. LevelSet' => LevelSet
    BY <1>4, <2>3 DEF LevelSet, OthersStay, InCall, Tasks
  <2> QED BY <1>0, <1>1, <1>2, <1>3, <2>1, <2>2, <2>3, <2>4, ReturnQuiet
<1> QED BY <1>0, <1>1, <1>5, <1>6 DEF CallOk, UpdateOps

LEMMA CallStepQuiet ==
  ASSUME TypeOK, CoreInv, QuietInv, NEW p \in Tasks, CallStep(p)
  PROVE  QuietInv'
BY AcquireLockQuiet, UpdateFailsQuiet, InsideStepQuiet, StoreIntervalQuiet, ProgramQuiet,
   StoreQuiet DEF CallStep

-----------------------------------------------------------------------------
(* The other steps.                                                        *)

\* A step while nobody is in the driver and nobody enters it with something
\* pending, which touches neither the driver nor the node.
LEMMA UntouchedQuiet ==
  ASSUME QuietInv, UNCHANGED quietVars, CalmInv', ArgsInv',
         \A q \in Tasks : PowerPending(q)' <=> PowerPending(q),
         \A q \in Tasks : LevelPending(q)' <=> LevelPending(q),
         \A q \in Tasks : pc'[q] = "storeInterval" <=> pc[q] = "storeInterval",
         \A q \in Tasks : RequestOk(q)',
         LevelSet' => LevelSet, LevelStored' => LevelStored, PowerStored' => PowerStored,
         LevelSet' /\ pc'["main"] # "done" => pc["main"] # "done",
         pc'["main"] = "program" => pc["main"] = "program",
         pc'["main"] \in {"switchInit", "createNode", "startMatter"}
           => pc["main"] \in {"switchInit", "createNode", "startMatter"}
  PROVE  QuietInv'
<1>1. LevelInv'
  <2>1. LevelSet' /\ (\A q \in Tasks : pc'[q] # "storeInterval") => interval' = IntervalFor(m_level')
    BY DEF QuietInv, LevelInv, quietVars
  <2>2. matterUp' /\ (\A q \in Tasks : ~LevelPending(q)')
          => m_level' \in {0, StoredLevel(MatterToPercent(attrLevel'))}
    BY DEF QuietInv, LevelInv, quietVars
  <2> QED BY <2>1, <2>2 DEF LevelInv
<1>2. PowerInv'
  BY DEF QuietInv, PowerInv, quietVars
<1>3. StageInv'
  BY DEF QuietInv, StageInv, quietVars
<1> QED BY <1>1, <1>2, <1>3 DEF QuietInv, RequestInv

LEMMA MainStepQuiet ==
  ASSUME TypeOK, CoreInv, StartInv, QuietInv, MainStep
  PROVE  QuietInv'
<1> DEFINE early == {"switchInit", "createNode", "startMatter"}
<1>0. "main" \in Tasks /\ "main" # "slider" /\ "main" # "matter"
  BY DEF Tasks
<1>1. /\ pc["main"] \in {"switchInit", "createNode", "startMatter", "startSensor",
                          "defaultLevel", "applyLevel", "defaultPower", "applyPower"}
      /\ ~InCall("main") /\ pc["main"] # "done"
  BY DEF MainStep, SwitchInit, CreateNode, StartMatter, StartSensor, DefaultLevel, ApplyLevel,
         DefaultPower, ApplyPower, Jump, InCall, CallLabels
<1>2. \A q \in Tasks : ~Inside(q)
  BY <1>1 DEF QuietInv, CalmInv, Inside, InCall, CallLabels, Tasks
<1>3. \A q \in Tasks : ~Pending(q)
  BY <1>2, NothingPending
<1>4. ASSUME OthersStay("main"), UNCHANGED <<is_pressed, touchChanged, old_state>>,
             UNCHANGED quietVars, ~Pending("main")', RequestOk("main")', ArgsInv',
             LevelSet' => LevelSet, LevelStored' => LevelStored, PowerStored' => PowerStored,
             pc'["main"] # "program", pc'["main"] \in early => pc["main"] \in early
      PROVE  QuietInv'
  <2>1. \A q \in Tasks : ~Pending(q)' /\ RequestOk(q)'
    <3> SUFFICES ASSUME NEW q \in Tasks, q # "main" PROVE ~Pending(q)' /\ RequestOk(q)'
      BY <1>4
    <3>1. ~Inside(q)'
      BY <1>2, <1>4 DEF OthersStay, Inside, InCall
    <3> QED BY <3>1 DEF Inside, InCall, CallLabels, Pending, PowerPending, LevelPending, RequestOk
  <2>2. CalmInv'
    BY <1>1, <1>4 DEF QuietInv, CalmInv, OthersStay, Tasks
  <2>3. \A q \in Tasks : /\ PowerPending(q)' <=> PowerPending(q)
                         /\ LevelPending(q)' <=> LevelPending(q)
                         /\ pc'[q] = "storeInterval" <=> pc[q] = "storeInterval"
    BY <1>3, <2>1 DEF Pending
  <2> QED BY <1>1, <1>4, <2>1, <2>2, <2>3, UntouchedQuiet
<1> USE DEF LevelSet, LevelStored, PowerStored, ArgsInv, InCall, CallLabels,
            Pending, PowerPending, LevelPending, RequestOk, PowerOps
<1>5. CASE SwitchInit
  <2>1. pc["main"] = "switchInit" /\ pc'["main"] = "createNode" /\ OthersStay("main")
    BY <1>0, <1>5, GotoFacts DEF SwitchInit, Jump
  <2>2. UNCHANGED <<is_pressed, touchChanged, old_state>> /\ UNCHANGED quietVars
    BY <1>5 DEF SwitchInit, drvVars, ioVars, outVars, nodeVars, touchVars, quietVars
  <2> QED BY <1>4, <2>1, <2>2
<1>6. CASE DefaultLevel
  <2>1. /\ pc["main"] = "defaultLevel" /\ pc'["main"] = "lock" /\ OthersStay("main")
        /\ call'["main"].op = "CurrentLevel" /\ call'["main"].lvl = DEFAULT_BRIGHTNESS
    BY <1>0, <1>6 DEF DefaultLevel, UpdateLevel, Invoke, Goto, OthersStay, TypeOK, ControlType
  <2>2. UNCHANGED <<is_pressed, touchChanged, old_state>> /\ UNCHANGED quietVars
    BY <1>6 DEF DefaultLevel, drvVars, ioVars, outVars, nodeVars, touchVars, quietVars
  <2> QED BY <1>4, <2>1, <2>2
<1>7. CASE ApplyLevel
  <2>1. /\ pc["main"] = "applyLevel" /\ pc'["main"] = "savePrevious" /\ OthersStay("main")
        /\ call'["main"].op = "brightness" /\ call'["main"].lvl = DEFAULT_BRIGHTNESS
    BY <1>0, <1>7 DEF ApplyLevel, Invoke, Goto, OthersStay, TypeOK, ControlType
  <2>2. UNCHANGED <<is_pressed, touchChanged, old_state>> /\ UNCHANGED quietVars
    BY <1>7 DEF ApplyLevel, drvVars, ioVars, outVars, nodeVars, touchVars, quietVars
  <2> QED BY <1>4, <2>1, <2>2
<1>8. CASE DefaultPower
  <2>1. /\ pc["main"] = "defaultPower" /\ pc'["main"] = "lock" /\ OthersStay("main")
        /\ call'["main"].op = "OnOff" /\ call'["main"].on = DEFAULT_POWER
    BY <1>0, <1>8, InvokeFacts DEF DefaultPower, UpdateOnOff
  <2>2. UNCHANGED <<is_pressed, touchChanged, old_state>> /\ UNCHANGED quietVars
    BY <1>8 DEF DefaultPower, drvVars, ioVars, outVars, nodeVars, touchVars, quietVars
  <2> QED BY <1>4, <2>1, <2>2
<1>9. CASE ApplyPower
  <2>1. /\ pc["main"] = "applyPower" /\ pc'["main"] = "setOn" /\ OthersStay("main")
        /\ call'["main"].op = "power" /\ call'["main"].on = DEFAULT_POWER
    BY <1>0, <1>9, InvokeFacts DEF ApplyPower
  <2>2. UNCHANGED <<is_pressed, touchChanged, old_state>> /\ UNCHANGED quietVars
    BY <1>9 DEF ApplyPower, drvVars, ioVars, outVars, nodeVars, touchVars, quietVars
  <2> QED BY <1>4, <2>1, <2>2
<1>10. CASE CreateNode \/ StartMatter \/ StartSensor
  <2>1. /\ pc["main"] \in {"createNode", "startMatter", "startSensor"}
        /\ pc'["main"] \in {"startMatter", "startSensor", "defaultLevel"} /\ UNCHANGED call
        /\ pc["main"] = "startSensor" => pc'["main"] = "defaultLevel"
        /\ pc'["slider"] \in {pc["slider"], "top"}
        /\ pc'["matter"] \in {pc["matter"], "down", "idle"}
    BY <1>10 DEF CreateNode, StartMatter, StartSensor, Jump, Goto, TypeOK, ControlType, Tasks
  <2>2. UNCHANGED <<is_pressed, touchChanged, old_state, relay, lastOnWriter>>
        /\ UNCHANGED <<m_isOn, m_level, interval, alarm_count, hwAlarm>>
    BY <1>10 DEF CreateNode, StartMatter, StartSensor, drvVars, ioVars, outVars, nodeVars, touchVars
  <2>3. \A q \in Tasks : ~Inside(q)'
    BY <1>2, <2>1 DEF Inside, Tasks
  <2>4. \A q \in Tasks : RequestOk(q)'
    BY <2>3 DEF Inside
  <2>5. CalmInv' /\ ArgsInv'
    BY <1>1, <2>1, <2>2 DEF QuietInv, CalmInv
  <2>6. ~LevelSet' /\ ~LevelStored' /\ ~PowerStored'
    BY <2>1
  <2>7. CASE CreateNode
    <3>1. ~matterUp /\ ~matterUp' /\ lastOnWriter = Nobody /\ m_level = 0 /\ ~relay
      BY <2>1, <2>7 DEF CreateNode, Jump, StartInv, CoreInv, LockInv, QuietInv, StageInv
    <3> QED BY <2>1, <2>2, <2>4, <2>5, <2>6, <3>1
            DEF QuietInv, RequestInv, LevelInv, PowerInv, StageInv
  <2>8. CASE StartMatter
    <3>1. lastOnWriter = Nobody /\ m_level = 0 /\ ~relay
      BY <2>1, <2>8 DEF StartMatter, StartInv, CoreInv, LockInv, QuietInv, StageInv
    <3> QED BY <2>1, <2>2, <2>4, <2>5, <2>6, <3>1
            DEF QuietInv, RequestInv, LevelInv, PowerInv, StageInv
  <2>9. CASE StartSensor
    <3>1. UNCHANGED <<attrOn, attrLevel, matterUp>> /\ pc'["main"] = "defaultLevel"
      BY <2>1, <2>9 DEF StartSensor, nodeVars
    <3>2. matterUp => m_level \in {0, StoredLevel(MatterToPercent(attrLevel))}
      BY <1>3 DEF QuietInv, LevelInv
    <3>3. PowerInv'
      BY <1>3, <2>2, <3>1 DEF QuietInv, PowerInv
    <3>4. matterUp' => m_level' \in {0, StoredLevel(MatterToPercent(attrLevel'))}
      BY <2>2, <3>1, <3>2
    <3>5. LevelInv'
      BY <2>6, <3>4 DEF LevelInv
    <3>6. StageInv'
      BY <2>2, <2>6, <3>1 DEF QuietInv, StageInv
    <3> QED BY <2>4, <2>5, <3>3, <3>5, <3>6 DEF QuietInv, RequestInv
  <2> QED BY <1>10, <2>7, <2>8, <2>9
<1> QED BY <1>5, <1>6, <1>7, <1>8, <1>9, <1>10 DEF MainStep

\* A step of another task than app_main that starts and ends with nothing
\* pending.
LEMMA OtherTaskQuiet ==
  ASSUME QuietInv, NEW p \in Tasks, p # "main", OthersStay(p), UNCHANGED quietVars, CalmInv',
         ~Inside(p), ~Pending(p)', RequestOk(p)'
  PROVE  QuietInv'
<1>1. pc'["main"] = pc["main"] /\ call'["main"] = call["main"]
  BY DEF OthersStay, Tasks
<1>2. /\ LevelSet' => LevelSet
      /\ LevelStored' => LevelStored
      /\ PowerStored' => PowerStored
  BY <1>1 DEF LevelSet, LevelStored, PowerStored, InCall
<1>3. ArgsInv'
  BY <1>1 DEF QuietInv, ArgsInv, InCall
<1>4. \A q \in Tasks : /\ PowerPending(q)' <=> PowerPending(q)
                       /\ LevelPending(q)' <=> LevelPending(q)
                       /\ pc'[q] = "storeInterval" <=> pc[q] = "storeInterval"
                       /\ RequestOk(q)'
  <2> SUFFICES ASSUME NEW q \in Tasks
               PROVE  /\ PowerPending(q)' <=> PowerPending(q)
                      /\ LevelPending(q)' <=> LevelPending(q)
                      /\ pc'[q] = "storeInterval" <=> pc[q] = "storeInterval"
                      /\ RequestOk(q)'
    OBVIOUS
  <2>1. CASE q = p
    BY <2>1, NothingPending DEF Pending
  <2>2. CASE q # p
    <3>1. pc'[q] = pc[q] /\ call'[q] = call[q]
      BY <2>2 DEF OthersStay
    <3>2. Brightness(q)' = Brightness(q)
      BY <3>1 DEF Brightness
    <3> QED BY <3>1, <3>2 DEF QuietInv, RequestInv, RequestOk, PowerPending, LevelPending, quietVars
  <2> QED BY <2>1, <2>2
<1> QED BY <1>1, <1>2, <1>3, <1>4, UntouchedQuiet

\* One poll of sliderTask: a level or power change only starts an update.
LEMMA SliderStepQuiet ==
  ASSUME TypeOK, QuietInv, SliderStep
  PROVE  QuietInv'
<1>0. "slider" \in Tasks /\ "slider" # "main"
  BY DEF Tasks
<1> DEFINE polling == {"none", "top", "touch", "front", "raw", "sleep"}
<1>1. ASSUME OthersStay("slider"), UNCHANGED quietVars,
             ~Inside("slider"), ~Inside("slider")',
             pc["slider"] \in polling /\ ~is_pressed /\ ~touchChanged
               => /\ pc'["slider"] \in polling
                  /\ UNCHANGED <<is_pressed, touchChanged, old_state>>
      PROVE  QuietInv'
  <2>1. pc'["main"] = pc["main"] /\ pc'["matter"] = pc["matter"]
    BY <1>1 DEF OthersStay, Tasks
  <2>2. CalmInv'
    BY <1>1, <2>1 DEF QuietInv, CalmInv
  <2>3. ~Pending("slider")' /\ RequestOk("slider")'
    BY <1>1 DEF Inside, InCall, CallLabels, Pending, PowerPending, LevelPending, RequestOk
  <2> QED BY <1>0, <1>1, <2>2, <2>3, OtherTaskQuiet
<1> USE DEF Inside, InCall, CallLabels, quietVars
<1>2. CASE HandlePress
  BY <1>0, <1>1, <1>2, InvokeFacts
     DEF HandlePress, UpdateOnOff, drvVars, ioVars, outVars, nodeVars, touchVars
<1>3. CASE NoPress
  BY <1>0, <1>1, <1>3, GotoFacts DEF NoPress, Jump, drvVars, ioVars, outVars, nodeVars, touchVars
<1>4. CASE AfterPress
  BY <1>0, <1>1, <1>4, GotoFacts DEF AfterPress, Jump, drvVars, outVars, nodeVars
<1>5. CASE ReadTouch
  BY <1>0, <1>1, <1>5, GotoFacts DEF ReadTouch, Jump, drvVars, outVars, nodeVars
<1>6. CASE SkipTouch
  BY <1>0, <1>1, <1>6, GotoFacts DEF SkipTouch, Jump, drvVars, ioVars, outVars, nodeVars, touchVars
<1>7. CASE GetLevel
  BY <1>0, <1>1, <1>7, GotoFacts DEF GetLevel, Jump, outVars, nodeVars
<1>8. CASE SendLevel
  BY <1>0, <1>1, <1>8, InvokeFacts DEF SendLevel, UpdateLevel, drvVars, outVars, nodeVars
<1>9. CASE SameLevel
  BY <1>0, <1>1, <1>9, GotoFacts DEF SameLevel, Jump, drvVars, outVars, nodeVars
<1>10. CASE LevelSent
  <2>1. pc["slider"] = "levelSent" /\ UNCHANGED quietVars
    BY <1>10 DEF LevelSent, drvVars, outVars, nodeVars
  <2>2. OthersStay("slider") /\ pc'["slider"] \in {"front", "lock"}
    <3>1. CASE old_state
      BY <1>0, <1>10, <3>1, GotoFacts DEF LevelSent
    <3>2. CASE ~old_state
      <4>1. Invoke("slider", "OnOff", TRUE, 0, "lock", "onSent")
        BY <1>10, <3>2 DEF LevelSent, UpdateOnOff
      <4> QED BY <1>0, <4>1 DEF Invoke, Goto, OthersStay, TypeOK, ControlType
    <3> QED BY <3>1, <3>2
  <2> QED BY <1>1, <2>1, <2>2
<1>11. CASE OnSent
  BY <1>0, <1>1, <1>11, GotoFacts DEF OnSent, Jump, drvVars, outVars, nodeVars
<1>12. CASE ShowLevel
  <2>1. pc["slider"] = "front" /\ pc'["slider"] \in {"raw", "sleep"} /\ OthersStay("slider")
    BY <1>0, <1>12, GotoFacts DEF ShowLevel
  <2> QED BY <1>1, <1>12, <2>1 DEF ShowLevel, drvVars, ioVars, nodeVars, touchVars
<1>13. CASE ShowPrevious
  BY <1>0, <1>1, <1>13, GotoFacts DEF ShowPrevious, Jump, drvVars, ioVars, nodeVars, touchVars
<1>14. CASE Wake
  BY <1>0, <1>1, <1>14, GotoFacts DEF Wake, Jump, drvVars, ioVars, outVars, nodeVars, touchVars
<1> QED BY <1>2, <1>3, <1>4, <1>5, <1>6, <1>7, <1>8, <1>9, <1>10, <1>11, <1>12, <1>13, <1>14
        DEF SliderStep

\* The state after power-up.
LEMMA PowerUpQuiet ==
  ASSUME pc = PowerUpPc, ~is_pressed, ~touchChanged, old_state, m_level = 0, ~relay, ~matterUp,
         lastOnWriter = Nobody
  PROVE  QuietInv
<1>1. pc["main"] = "switchInit" /\ pc["slider"] = "none" /\ pc["matter"] = "down"
  BY DEF PowerUpPc, Tasks
<1>2. \A q \in Tasks : RequestOk(q)
  <2>1. \A q \in Tasks : ~Inside(q)
    BY <1>1 DEF Inside, InCall, CallLabels, Tasks
  <2> QED BY <2>1, NothingPending
<1>3. ~LevelSet /\ ~LevelStored /\ ~PowerStored /\ ~InCall("main")
  BY <1>1 DEF LevelSet, LevelStored, PowerStored, InCall, CallLabels
<1> QED BY <1>1, <1>2, <1>3
        DEF QuietInv, CalmInv, ArgsInv, RequestInv, LevelInv, PowerInv, StageInv

LEMMA InitQuiet == Init => QuietInv
BY PowerUpQuiet DEF Init

\* Inputs come after the boot; a reset starts over.
LEMMA EnvironmentQuiet ==
  ASSUME InputsDuringBoot = FALSE, TypeOK, CoreInv, QuietInv, Environment
  PROVE  QuietInv'
<1>1. ASSUME UNCHANGED <<pc, call>>, UNCHANGED quietVars, CalmInv' PROVE QuietInv'
  <2>1. "slider" \in Tasks /\ "slider" # "main"
    BY DEF Tasks
  <2>2. \A q \in Tasks : RequestOk(q)' /\ (Pending(q)' <=> Pending(q))
    BY <1>1 DEF QuietInv, RequestInv, RequestOk, Pending, PowerPending, LevelPending, Brightness,
       quietVars
  <2>3. ArgsInv' /\ (LevelSet' <=> LevelSet) /\ (LevelStored' <=> LevelStored)
        /\ (PowerStored' <=> PowerStored)
    BY <1>1 DEF QuietInv, ArgsInv, LevelSet, LevelStored, PowerStored, InCall
  <2>4. \A q \in Tasks : /\ PowerPending(q)' <=> PowerPending(q)
                         /\ LevelPending(q)' <=> LevelPending(q)
    BY <1>1 DEF PowerPending, LevelPending
  <2> QED BY <1>1, <2>2, <2>3, <2>4, UntouchedQuiet
<1>2. CASE ButtonEdge
  <2>1. pc["main"] = "done" /\ UNCHANGED <<pc, call>> /\ UNCHANGED quietVars
    BY <1>2 DEF ButtonEdge, Input, drvVars, outVars, nodeVars, quietVars
  <2> QED BY <1>1, <2>1 DEF CalmInv
<1>3. CASE TouchChange
  <2>1. pc["main"] = "done" /\ UNCHANGED <<pc, call>> /\ UNCHANGED quietVars
    BY <1>3 DEF TouchChange, Input, drvVars, outVars, nodeVars, quietVars
  <2> QED BY <1>1, <2>1 DEF CalmInv
<1>4. CASE Tick
  <2>1. UNCHANGED <<pc, call>> /\ UNCHANGED quietVars /\ UNCHANGED <<is_pressed, old_state, touchChanged>>
    BY <1>4 DEF Tick, drvVars, ioVars, outVars, nodeVars, touchVars, quietVars
  <2> QED BY <1>1, <2>1 DEF QuietInv, CalmInv
<1>5. CASE RemoteWrite
  <2>1. /\ pc["main"] = "done" /\ pc["matter"] = "idle" /\ "matter" \in Tasks /\ "matter" # "main"
        /\ UNCHANGED quietVars
    BY <1>5 DEF RemoteWrite, Input, Tasks, drvVars, outVars, nodeVars, quietVars
  <2>2. ASSUME NEW on \in BOOLEAN, Invoke("matter", "OnOff", on, 0, "setRelay", "idle")
        PROVE  OthersStay("matter") /\ pc'["matter"] = "setRelay"
    BY <2>1, <2>2, InvokeFacts
  <2>3. ASSUME NEW lvl \in RemoteLevels,
               Invoke("matter", "CurrentLevel", FALSE, lvl, "savePrevious", "idle")
        PROVE  /\ OthersStay("matter") /\ call'["matter"].op = "CurrentLevel"
               /\ pc'["matter"] = "savePrevious"
    BY <2>1, <2>3 DEF Invoke, Goto, OthersStay, TypeOK, ControlType
  <2>4. OthersStay("matter") /\ ~Pending("matter")' /\ RequestOk("matter")'
    BY <1>5, <2>2, <2>3 DEF RemoteWrite, Pending, PowerPending, LevelPending, RequestOk, PowerOps
  <2>5. ~Inside("matter")
    BY <2>1 DEF Inside, InCall, CallLabels
  <2>6. CalmInv'
    BY <2>1, <2>4 DEF CalmInv, OthersStay, Tasks
  <2> QED BY <2>1, <2>4, <2>5, <2>6, OtherTaskQuiet
<1>6. CASE Reset
  <2>1. /\ pc' = PowerUpPc /\ ~is_pressed' /\ ~touchChanged' /\ old_state' /\ m_level' = 0
        /\ ~relay' /\ ~matterUp' /\ lastOnWriter' = Nobody
    BY <1>6 DEF Reset
  <2>2. pc'["main"] = "switchInit" /\ pc'["slider"] = "none" /\ pc'["matter"] = "down"
    BY <2>1 DEF PowerUpPc, Tasks
  <2>3. \A q \in Tasks : RequestOk(q)'
    BY <2>2 DEF RequestOk, PowerPending, LevelPending, Tasks
  <2>4. ~LevelSet' /\ ~LevelStored' /\ ~PowerStored' /\ ~InCall("main")'
    BY <2>2 DEF LevelSet, LevelStored, PowerStored, InCall, CallLabels
  <2> QED BY <2>1, <2>2, <2>3, <2>4
          DEF QuietInv, CalmInv, ArgsInv, RequestInv, LevelInv, PowerInv, StageInv
<1> QED BY <1>2, <1>3, <1>4, <1>5, <1>6 DEF Environment

-----------------------------------------------------------------------------
(* The theorems.                                                           *)

LEMMA NextQuiet ==
  ASSUME InputsDuringBoot = FALSE, TypeOK, SwitchInv, StartInv, QuietInv, [DeviceStep]_stepVars
  PROVE  QuietInv'
<1>0. CoreInv
  BY DEF SwitchInv
<1>1. CASE MainStep
  BY <1>0, <1>1, MainStepQuiet
<1>2. CASE SliderStep
  BY <1>2, SliderStepQuiet
<1>3. ASSUME NEW p \in Tasks, CallStep(p) PROVE QuietInv'
  BY <1>0, <1>3, CallStepQuiet
<1>4. CASE Environment
  BY <1>0, <1>4, EnvironmentQuiet
<1>5. CASE UNCHANGED stepVars
  BY <1>5 DEF stepVars, drvVars, ioVars, outVars, nodeVars, touchVars, QuietInv, CalmInv, ArgsInv,
     RequestInv, RequestOk, LevelInv, PowerInv, StageInv, PowerPending, LevelPending, Brightness,
     LevelSet, LevelStored, PowerStored, InCall
<1> QED BY <1>1, <1>2, <1>3, <1>4, <1>5 DEF DeviceStep

\* app_driver_set_default calls the driver outside the lock; in a quiet boot
\* nobody else is there, and the driver's state stays what the requests made it.
THEOREM QuietInvariant ==
  ASSUME InputsDuringBoot = FALSE, CanReject = FALSE
  PROVE  Spec => []QuietInv
<1>1. TypeOK /\ SwitchInv /\ StartInv /\ QuietInv /\ [Next]_vars => QuietInv'
  BY NextQuiet, NoReject
<1> QED BY <1>1, InitQuiet, TypeCorrect, SwitchInvariant, PTL DEF Spec

\* No update in progress: nobody is in the driver.
LEMMA SettledQuiet ==
  ASSUME TypeOK, SwitchInv, QuietInv, Settled
  PROVE  \A q \in Tasks : ~Pending(q)
<1> SUFFICES ASSUME NEW q \in Tasks, Inside(q) PROVE FALSE
  BY NothingPending
<1>1. q # "main"
  BY DEF Settled, Inside, InCall, CallLabels
<1>2. call[q].op \in UpdateOps
  BY <1>1 DEF SwitchInv, CoreInv, CallerInv, Inside, Tasks
<1> QED BY <1>2 DEF SwitchInv, CoreInv, LockInv, InUpdate, Inside, Settled, Tasks, Free

\* set_power(false): after a quiet boot, off is dark, whatever level writes
\* follow.
THEOREM OffIsDarkTheorem ==
  ASSUME InputsDuringBoot = FALSE, CanReject = FALSE
  PROVE  Spec => []OffIsDark
<1>1. TypeOK /\ SwitchInv /\ QuietInv => OffIsDark
  <2> SUFFICES ASSUME TypeOK, SwitchInv, QuietInv, Settled, ~attrOn
               PROVE  ~relay /\ ~m_isOn /\ hwAlarm = MAX_INTERVAL
    BY DEF OffIsDark
  <2>1. \A q \in Tasks : ~Pending(q)
    BY SettledQuiet
  <2>2. lastOnWriter # Nobody
    BY DEF SwitchInv, BootInv, Settled
  <2>3. m_isOn = attrOn /\ hwAlarm = MAX_INTERVAL
    BY <2>1, <2>2 DEF QuietInv, PowerInv, Pending
  <2>4. relay = attrOn
    <3>1. \A q \in Tasks : ~Switching(q)
      BY DEF SwitchInv, CoreInv, LockInv, Settled, Switching, Tasks, Free
    <3> QED BY <2>2, <3>1 DEF SwitchInv, CoreInv, RelayInv
  <2> QED BY <2>3, <2>4
<1> QED BY <1>1, TypeCorrect, SwitchInvariant, QuietInvariant, PTL

\* set_brightness: after a quiet boot, the driver's level is the attribute's or
\* 0, and the interval is the one of that level.
THEOREM LevelTheorem ==
  ASSUME InputsDuringBoot = FALSE, CanReject = FALSE
  PROVE  Spec => []LevelFollowsAttribute
<1>1. TypeOK /\ SwitchInv /\ QuietInv => LevelFollowsAttribute
  <2> SUFFICES ASSUME TypeOK, SwitchInv, QuietInv, Settled
               PROVE  /\ m_level \in {0, StoredLevel(MatterToPercent(attrLevel))}
                      /\ interval = IntervalFor(m_level)
    BY DEF LevelFollowsAttribute
  <2>1. \A q \in Tasks : ~Pending(q)
    BY SettledQuiet
  <2>2. LevelSet /\ matterUp
    BY DEF LevelSet, Settled
  <2> QED BY <2>1, <2>2 DEF QuietInv, LevelInv, Pending
<1> QED BY <1>1, TypeCorrect, SwitchInvariant, QuietInvariant, PTL

\* The boot ends with the return of set_power.
LEMMA BootEnd ==
  ASSUME TypeOK, CoreInv, StartInv, [DeviceStep]_stepVars, pc["main"] # "done", pc'["main"] = "done"
  PROVE  Program("main") /\ call["main"].op = "power"
<1>0. "main" \in Tasks
  BY DEF Tasks
<1>1. CASE MainStep
  <2>1. \/ \E l \in {"createNode", "startMatter"} : Goto("main", l)
        \/ pc'["main"] \in {"startSensor", "defaultLevel", "lock", "savePrevious", "setOn"}
    BY <1>1 DEF MainStep, SwitchInit, CreateNode, StartMatter, StartSensor, DefaultLevel,
       ApplyLevel, DefaultPower, ApplyPower, UpdateLevel, UpdateOnOff, Invoke, Goto, Jump,
       TypeOK, ControlType, Tasks
  <2>2. pc'["main"] # "done"
    BY <1>0, <2>1 DEF Goto, TypeOK, ControlType
  <2> QED BY <2>2
<1>2. CASE SliderStep
  <2>1. pc'["main"] = pc["main"]
    BY <1>2 DEF SliderStep, HandlePress, NoPress, AfterPress, ReadTouch, SkipTouch, GetLevel,
       SendLevel, SameLevel, LevelSent, OnSent, ShowLevel, ShowPrevious, Wake, UpdateLevel,
       UpdateOnOff, Invoke, Goto, Jump, TypeOK, ControlType, Tasks
  <2> QED BY <2>1
<1>3. ASSUME NEW p \in Tasks, CallStep(p)
      PROVE  Program("main") /\ call["main"].op = "power"
  <2>1. p = "main"
    BY <1>0, <1>3, CallStepFrame DEF OthersStay
  <2>2. InCall("main") /\ call["main"].ret = "done" /\ call["main"].op \in Ops
    BY <1>0, <1>3, <2>1, CallStepFrame DEF CallLabels, TypeOK, ControlType, CallType
  <2>3. call["main"].op = "power"
    BY <2>2 DEF CoreInv, CallerInv, Ops
  <2>4. CASE UpdateFails("main") \/ AcquireLock("main") \/ SetRelay("main") \/ SaveOldLevel("main")
             \/ Store("main")
    BY <1>0, <2>3, <2>4 DEF UpdateFails, AcquireLock, SetRelay, SaveOldLevel, Store, Jump,
       CoreInv, CallInv, CallOk, UpdateOps
  <2>5. CASE SetOn("main") \/ Branch("main") \/ SavePrevious("main") \/ StoreLevel("main")
             \/ Arm("main")
    <3>1. pc'["main"] \in CallLabels
      BY <1>0, <2>5, GotoFacts DEF SetOn, Branch, SavePrevious, StoreLevel, Arm, Jump, CallLabels
    <3> QED BY <3>1 DEF CallLabels
  <2>6. CASE StoreInterval("main")
    <3>1. Goto("main", "arm") /\ UNCHANGED call
      BY <2>3, <2>6 DEF StoreInterval, AfterBrightness, PowerOps
    <3> QED BY <1>0, <3>1, GotoFacts
  <2> QED BY <1>3, <2>1, <2>3, <2>4, <2>5, <2>6 DEF CallStep
<1>4. CASE Environment
  <2>1. pc'["main"] = pc["main"] \/ pc' = PowerUpPc
    BY <1>4 DEF Environment, ButtonEdge, RemoteWrite, TouchChange, Tick, Reset, Invoke, Goto,
       TypeOK, ControlType, Tasks
  <2> QED BY <2>1 DEF PowerUpPc, Tasks
<1>5. CASE UNCHANGED stepVars
  BY <1>5 DEF stepVars
<1> QED BY <1>1, <1>2, <1>3, <1>4, <1>5 DEF DeviceStep

\* app_driver_set_default: wherever an earlier reset hit and whatever the
\* persisted attributes were, a quiet boot ends with the default light; with a
\* node that failed to start the relay stays open.
THEOREM BootTheorem ==
  ASSUME InputsDuringBoot = FALSE, CanReject = FALSE
  PROVE  Spec => BootAppliesDefaults
<1> DEFINE Defaults ==
      pc["main"] # "done" /\ pc'["main"] = "done"
       => /\ relay' = matterUp
          /\ matterUp => attrOn' /\ attrLevel' = DEFAULT_BRIGHTNESS /\ old_state'
          /\ m_isOn' /\ hwAlarm' = IntervalFor(MatterToPercent(DEFAULT_BRIGHTNESS))
<1>1. TypeOK /\ SwitchInv /\ StartInv /\ QuietInv /\ [Next]_vars => [Defaults]_vars
  <2> SUFFICES ASSUME TypeOK, SwitchInv, StartInv, QuietInv, [DeviceStep]_stepVars,
                      pc["main"] # "done", pc'["main"] = "done"
               PROVE  /\ relay' = matterUp
                      /\ matterUp => attrOn' /\ attrLevel' = DEFAULT_BRIGHTNESS /\ old_state'
                      /\ m_isOn' /\ hwAlarm' = IntervalFor(MatterToPercent(DEFAULT_BRIGHTNESS))
    BY NoReject
  <2>1. Program("main") /\ call["main"].op = "power" /\ "main" \in Tasks
    BY BootEnd DEF SwitchInv, Tasks
  <2>2. pc["main"] = "program" /\ InCall("main") /\ Inside("main")
    BY <2>1 DEF Program, Inside, InCall, CallLabels
  <2>3. LevelStored /\ PowerStored
    BY <2>1, <2>2 DEF LevelStored, PowerStored
  <2>4. alarm_count = IntervalFor(BootLevel) /\ (matterUp => attrOn /\ attrLevel = DEFAULT_BRIGHTNESS)
        /\ (~matterUp => ~relay)
    BY <2>2, <2>3 DEF QuietInv, StageInv
  <2>5. hwAlarm' = IntervalFor(MatterToPercent(DEFAULT_BRIGHTNESS))
    BY <2>1, <2>4, BootLevelFacts DEF Program
  <2>6. m_isOn
    <3>1. PowerPending("main") /\ RequestOk("main")
      BY <2>1, <2>2 DEF PowerPending, PowerOps, QuietInv, RequestInv
    <3>2. call["main"].on = TRUE
      BY <2>1, <2>2, BootLevelFacts DEF QuietInv, ArgsInv, PowerOps
    <3> QED BY <3>1, <3>2 DEF RequestOk
  <2>7. matterUp => relay
    <3> SUFFICES ASSUME matterUp PROVE relay
      OBVIOUS
    <3>1. lastOnWriter # Nobody
      BY <2>1, <2>2 DEF SwitchInv, BootInv
    <3>2. \A q \in Tasks : ~Switching(q)
      <4> SUFFICES ASSUME NEW q \in Tasks, Switching(q) PROVE FALSE
        OBVIOUS
      <4>1. Inside(q)
        BY DEF Switching, InUpdate, Inside
      <4>2. q = "main"
        BY <2>1, <2>2, <4>1, OneInside DEF SwitchInv, QuietInv
      <4> QED BY <2>1, <4>2 DEF Switching
    <3> QED BY <2>4, <3>1, <3>2 DEF SwitchInv, CoreInv, RelayInv
  <2>8. old_state
    BY <2>2 DEF QuietInv, CalmInv
  <2>9. relay = matterUp
    BY <2>4, <2>7 DEF TypeOK, OutputType, NodeType
  <2> QED BY <2>1, <2>4, <2>5, <2>6, <2>8, <2>9 DEF Program, ioVars, outVars, nodeVars
<1> QED BY <1>1, TypeCorrect, SwitchInvariant, QuietInvariant, PTL DEF Spec, BootAppliesDefaults

-----------------------------------------------------------------------------
(* A rejected update keeps the core of the switching invariant.            *)

\* The rejected task was waiting outside the callback and goes back to its
\* caller: it was not switching and is not now.
LEMMA RejectFacts ==
  ASSUME TypeOK, NEW p \in Tasks, RejectUpdate(p)
  PROVE  /\ pc[p] = "lock" /\ pc'[p] = call[p].ret /\ OthersStay(p) /\ ~InCall(p)'
         /\ UNCHANGED switchVars
         /\ \A q \in Tasks : /\ InUpdate(q)' <=> InUpdate(q)
                             /\ Switching(q)' <=> Switching(q)
                             /\ InCall(q)' => InCall(q) /\ pc'[q] = pc[q] /\ call'[q] = call[q]
                             /\ Switching(q) => call'[q] = call[q]
<1>1. pc[p] = "lock" /\ UNCHANGED switchVars
  BY DEF RejectUpdate, switchVars, nodeVars, outVars, ioVars
<1>2. pc'[p] = call[p].ret /\ OthersStay(p) /\ ~InCall(p)'
  BY ReturnFacts DEF RejectUpdate
<1> QED BY <1>1, <1>2 DEF OthersStay, InUpdate, Switching, InCall

LEMMA RejectCore ==
  ASSUME TypeOK, CoreInv, StartInv, NEW p \in Tasks, RejectUpdate(p)
  PROVE  CoreInv' /\ StartInv'
<1>1. /\ pc[p] = "lock" /\ pc'[p] = call[p].ret /\ OthersStay(p) /\ ~InCall(p)'
      /\ UNCHANGED switchVars
  BY RejectFacts
<1>2. \A q \in Tasks : /\ InUpdate(q)' <=> InUpdate(q)
                       /\ Switching(q)' <=> Switching(q)
                       /\ InCall(q)' => InCall(q) /\ pc'[q] = pc[q] /\ call'[q] = call[q]
                       /\ Switching(q) => call'[q] = call[q]
  BY RejectFacts
<1>3. LockInv'
  BY <1>1, <1>2 DEF CoreInv, LockInv, switchVars
<1>4. CallInv'
  BY <1>2 DEF CoreInv, CallInv, CallOk, InCall, CallLabels
<1>5. CallerInv'
  BY <1>1, <1>2 DEF CoreInv, CallerInv, switchVars, Tasks
<1>6. RelayInv'
  BY <1>1, <1>2 DEF CoreInv, RelayInv, switchVars
<1>7. StartInv'
  <2>1. matterUp /\ matterUp'
    BY <1>1 DEF RejectUpdate, switchVars
  <2>2. pc["main"] \notin {"switchInit", "createNode", "startMatter"}
    BY <2>1 DEF StartInv
  <2>3. CASE p = "main"
    <3>1. call[p].op \in UpdateOps
      BY <1>1 DEF CoreInv, CallInv, CallOk
    <3>2. pc'["main"] \in {"applyPower", "applyLevel"}
      BY <1>1, <2>3, <3>1 DEF CoreInv, CallerInv, InCall, CallLabels, UpdateOps
    <3> QED BY <2>1, <3>2 DEF StartInv
  <2>4. CASE p # "main"
    <3>1. pc'["main"] = pc["main"]
      BY <1>1, <2>4 DEF OthersStay, Tasks
    <3>2. CASE p = "slider"
      BY <1>1, <2>1, <2>2, <3>1, <3>2 DEF StartInv
    <3>3. CASE p = "matter"
      BY <1>1, <2>1, <2>2, <3>1, <3>3 DEF StartInv, OthersStay, Tasks
    <3> QED BY <2>4, <3>2, <3>3 DEF Tasks
  <2> QED BY <2>3, <2>4
<1> QED BY <1>3, <1>4, <1>5, <1>6, <1>7 DEF CoreInv

-----------------------------------------------------------------------------
(* The copy of the power state.                                            *)

\* Whatever the copy was, after the task's own update of OnOff it is one
\* toggle away from the attribute.
LEMMA SliderStoreShadow ==
  ASSUME TypeOK, CoreInv, SliderStores
  PROVE  ShadowInv'
<1>1. pc["slider"] = "store" /\ call["slider"].op = "OnOff" /\ "slider" \in Tasks
  BY DEF SliderStores, SliderOnOff, Tasks
<1>2. pc'["slider"] = call["slider"].ret
  BY <1>1, ReturnFacts DEF SliderStores, Store
<1>3. call["slider"].ret \in {"afterPress", "onSent"} /\ call["slider"].on = ~old_state
  BY <1>1 DEF CoreInv, CallerInv, InCall, CallLabels
<1>4. attrOn' = call["slider"].on /\ old_state' = old_state
  BY <1>1 DEF SliderStores, Store, ioVars
<1> QED BY <1>2, <1>3, <1>4 DEF ShadowInv, TypeOK, GlobalsType

\* A rejected update of the level, or of another task, leaves the copy alone.
LEMMA RejectShadow ==
  ASSUME TypeOK, CoreInv, ShadowInv, NEW p \in Tasks, RejectUpdate(p),
         ~(p = "slider" /\ SliderOnOff)
  PROVE  ShadowInv'
<1>1. /\ pc[p] = "lock" /\ pc'[p] = call[p].ret /\ OthersStay(p)
      /\ UNCHANGED switchVars
  BY RejectFacts
<1>2. CASE p = "slider"
  <2>1. call[p].op = "CurrentLevel"
    BY <1>1, <1>2 DEF SliderOnOff, CoreInv, CallInv, CallOk, UpdateOps
  <2>2. pc'["slider"] = "levelSent"
    BY <1>1, <1>2, <2>1 DEF CoreInv, CallerInv, InCall, CallLabels
  <2> QED BY <1>1, <1>2, <2>2 DEF ShadowInv, switchVars
<1>3. CASE p # "slider"
  BY <1>1, <1>3 DEF ShadowInv, switchVars, OthersStay, Tasks
<1> QED BY <1>2, <1>3

RejectsInv == TypeOK /\ CoreInv /\ StartInv /\ HealInv

LEMMA RejectsInvInit == Init => RejectsInv
<1> SUFFICES ASSUME Init PROVE RejectsInv
  OBVIOUS
<1>1. TypeOK /\ SwitchInv /\ StartInv
  BY InitType, InitSwitch
<1> QED BY <1>1 DEF Init, RejectsInv, HealInv, SwitchInv

LEMMA RejectsInvStep ==
  ASSUME RejectsInv, [Next]_vars
  PROVE  RejectsInv'
<1> USE DEF RejectsInv
<1>1. CASE DeviceStep /\ missed' = (missed /\ ~SliderStores)
  <2>1. TypeOK'
    BY <1>1, NextType
  <2>2. SwitchKept /\ StartInv'
    BY <1>1, NextSwitch
  <2>3. HealInv'
    <3>1. CASE SliderStores
      BY <1>1, <3>1, SliderStoreShadow DEF HealInv
    <3>2. CASE ~SliderStores
      BY <1>1, <2>2, <3>2 DEF HealInv, SwitchKept
    <3> QED BY <3>1, <3>2
  <2> QED BY <2>1, <2>2, <2>3 DEF SwitchKept
<1>2. ASSUME NEW p \in Tasks, RejectUpdate(p) PROVE RejectsInv'
  <2>1. TypeOK' /\ CoreInv' /\ StartInv'
    BY <1>2, RejectType, RejectCore
  <2>2. HealInv'
    <3>1. CASE p = "slider" /\ SliderOnOff
      BY <1>2, <3>1 DEF HealInv, RejectUpdate
    <3>2. CASE ~(p = "slider" /\ SliderOnOff)
      BY <1>2, <3>2, RejectShadow DEF HealInv, RejectUpdate
    <3> QED BY <3>1, <3>2
  <2> QED BY <2>1, <2>2
<1>3. CASE UNCHANGED vars
  <2>1. UNCHANGED stepVars /\ UNCHANGED missed
    BY <1>3 DEF vars
  <2>2. TypeOK'
    BY <2>1, UnchangedTypes DEF stepVars, TypeOK, ControlType
  <2>3. CoreInv' /\ StartInv' /\ (ShadowInv => ShadowInv')
    BY <2>1 DEF CoreInv, StartInv, LockInv, CallInv, CallOk, CallerInv, RelayInv,
       ShadowInv, InCall, InUpdate, Switching, stepVars, ioVars, outVars, nodeVars
  <2> QED BY <2>1, <2>2, <2>3 DEF HealInv
<1> QED BY <1>1, <1>2, <1>3 DEF Next

\* With a rejecting node, the core of the switching invariant still holds, and
\* so does its part on the copy unless the task's last update was rejected.
THEOREM RejectsInvariant == Spec => []RejectsInv
<1>1. RejectsInv /\ [Next]_vars => RejectsInv'
  BY RejectsInvStep
<1> QED BY <1>1, RejectsInvInit, PTL DEF Spec

\* app_driver_attribute_update: once the boot has powered the light, the relay
\* pin agrees with the OnOff attribute whenever no update is in progress; with a
\* rejecting node, once an update of OnOff has gone through.
THEOREM RelayTheorem == Spec => []RelayFollowsOnOff
<1>1. CoreInv /\ lastOnWriter # Nobody /\ Settled => relay = attrOn
  <2> SUFFICES ASSUME CoreInv, lastOnWriter # Nobody, Settled PROVE relay = attrOn
    OBVIOUS
  <2>1. \A p \in Tasks : ~Switching(p)
    BY DEF CoreInv, LockInv, Settled, Switching, Tasks, Free
  <2> QED BY <2>1 DEF CoreInv, RelayInv
<1>2. CASE CanReject
  <2>1. RejectsInv => RelayFollowsOnOff
    BY <1>1, <1>2 DEF RejectsInv, RelayFollowsOnOff
  <2> QED BY <2>1, RejectsInvariant, PTL
<1>3. CASE ~CanReject
  <2>1. SwitchInv /\ StartInv => RelayFollowsOnOff
    <3>1. SwitchInv /\ Settled => lastOnWriter # Nobody
      BY DEF SwitchInv, BootInv, Settled
    <3> QED BY <1>1, <3>1 DEF SwitchInv, RelayFollowsOnOff
  <2>2. CanReject = FALSE
    BY <1>3, ConstantsAssumption DEF ConstantsAssumption
  <2>3. Spec => [](SwitchInv /\ StartInv)
    BY <2>2, SwitchInvariant
  <2> QED BY <2>1, <2>3, PTL
<1> QED BY <1>2, <1>3

\* sliderTask: whatever updates a node rejects, the copy of the power state is
\* right again once an update of the task goes through.
THEOREM ShadowHealsTheorem == Spec => []ShadowHeals
<1>1. RejectsInv => ShadowHeals
  BY DEF RejectsInv, HealInv, ShadowInv, ShadowHeals
<1> QED BY <1>1, RejectsInvariant, PTL

-----------------------------------------------------------------------------
(* The refinement of PowerSwitch, step by step.                            *)

\* A step that neither begins nor ends a switch and leaves relay, attribute
\* and writer alone is no step of PowerSwitch.
SwitchIdle ==
  /\ UNCHANGED <<relay, attrOn, lastOnWriter>>
  /\ \A q \in Tasks : Switching(q)' <=> Switching(q)

LEMMA IdleStutters ==
  ASSUME SwitchIdle
  PROVE  UNCHANGED Power!vars
<1>1. (\E p \in Tasks : Switching(p))' = (\E p \in Tasks : Switching(p))
  BY DEF SwitchIdle
<1>2. (lastOnWriter # Nobody)' = (lastOnWriter # Nobody)
  BY DEF SwitchIdle
<1> QED BY <1>1, <1>2 DEF SwitchIdle, Power!vars

\* A step of a task inside the callback, after SetRelay, or of a direct call.
LEMMA InsideIdle ==
  ASSUME TypeOK, NEW p \in Tasks, NEW l \in CallLabels \ {"lock", "setRelay"},
         InCall(p), pc[p] \notin {"lock", "setRelay"}, Goto(p, l), UNCHANGED call,
         UNCHANGED <<relay, attrOn, lastOnWriter>>
  PROVE  SwitchIdle
<1>1. pc'[p] = l /\ call'[p] = call[p] /\ OthersStay(p)
  BY GotoFacts
<1> QED BY <1>1 DEF SwitchIdle, OthersStay, InUpdate, Switching, InCall

\* A step of a task that was not switching and is not afterwards.
LEMMA OutsideIdle ==
  ASSUME NEW p \in Tasks, OthersStay(p), ~Switching(p), ~Switching(p)',
         UNCHANGED <<relay, attrOn, lastOnWriter>>
  PROVE  SwitchIdle
BY DEF SwitchIdle, OthersStay, InUpdate, Switching, InCall

\* SetRelay is PowerSwitch's Switch.
LEMMA SetRelaySwitches ==
  ASSUME TypeOK, CoreInv, NEW p \in Tasks, SetRelay(p)
  PROVE  Power!Switch
<1>1. pc[p] = "setRelay" /\ call[p].op = "OnOff" /\ relay' = call[p].on
  BY DEF SetRelay, Jump, CoreInv, CallInv, CallOk
<1>2. pc'[p] = "setOn" /\ call'[p] = call[p] /\ OthersStay(p)
  BY GotoFacts DEF SetRelay, Jump
<1>3. InUpdate(p) /\ ~Switching(p) /\ Switching(p)'
  BY <1>1, <1>2 DEF InUpdate, Switching, InCall, CallLabels, UpdateOps
<1>4. ~(\E q \in Tasks : Switching(q))
  BY <1>3 DEF CoreInv, LockInv, Switching
<1>5. (\E q \in Tasks : Switching(q))' = TRUE
  BY <1>3
<1>6. relay' \in BOOLEAN
  BY <1>1 DEF TypeOK, ControlType, CallType
<1>7. UNCHANGED attrOn /\ (lastOnWriter # Nobody)' = (lastOnWriter # Nobody)
  BY DEF SetRelay, nodeVars
<1> QED BY <1>4, <1>5, <1>6, <1>7 DEF Power!Switch

\* The store of an OnOff update is PowerSwitch's Commit.
LEMMA StoreCommits ==
  ASSUME TypeOK, CoreInv, NEW p \in Tasks, Store(p), call[p].op = "OnOff"
  PROVE  Power!Commit
<1>1. pc[p] = "store" /\ Switching(p) /\ chipLock = p
  BY DEF Store, CoreInv, LockInv, InUpdate, Switching, InCall, CallLabels, UpdateOps
<1>2. OthersStay(p) /\ ~InCall(p)'
  BY ReturnFacts DEF Store
<1>3. (\E q \in Tasks : Switching(q))' = FALSE
  BY <1>1, <1>2 DEF CoreInv, LockInv, OthersStay, InUpdate, Switching, InCall
<1>4. attrOn' = relay /\ UNCHANGED relay
  BY <1>1 DEF Store, CoreInv, RelayInv, outVars
<1>5. (lastOnWriter # Nobody)' = TRUE
  BY DEF Store, Tasks, Nobody
<1> QED BY <1>1, <1>3, <1>4, <1>5 DEF Power!Commit

LEMMA CallStepRefines ==
  ASSUME TypeOK, CoreInv, NEW p \in Tasks, CallStep(p)
  PROVE  [Power!Next]_Power!vars
<1>0. call[p].op \in Ops
  BY DEF TypeOK, ControlType, CallType
<1>1. CASE AcquireLock(p)
  <2>1. pc[p] = "lock" /\ call[p].op \in UpdateOps
    BY <1>1 DEF AcquireLock, CoreInv, CallInv, CallOk
  <2>2. pc'[p] = (IF call[p].op = "OnOff" THEN "setRelay" ELSE "savePrevious")
        /\ call'[p] = call[p] /\ OthersStay(p)
    BY <1>1, GotoFacts DEF AcquireLock
  <2>3. ~Switching(p) /\ ~Switching(p)'
    BY <2>1, <2>2 DEF InUpdate, Switching
  <2> QED BY <1>1, <2>2, <2>3, OutsideIdle, IdleStutters DEF AcquireLock, outVars, nodeVars
<1>2. CASE UpdateFails(p)
  <2>1. OthersStay(p) /\ ~Switching(p) /\ ~Switching(p)'
    BY <1>2, ReturnFacts DEF UpdateFails, Switching, InUpdate
  <2> QED BY <1>2, <2>1, OutsideIdle, IdleStutters DEF UpdateFails, outVars, nodeVars
<1>3. CASE SetRelay(p)
  BY <1>3, SetRelaySwitches DEF Power!Next
<1>4. CASE SetOn(p)
  BY <1>4, InsideIdle, IdleStutters DEF SetOn, Jump, InCall, CallLabels, outVars, nodeVars
<1>5. CASE Branch(p)
  BY <1>5, InsideIdle, IdleStutters DEF Branch, InCall, CallLabels, outVars, nodeVars
<1>6. CASE SavePrevious(p)
  BY <1>6, InsideIdle, IdleStutters DEF SavePrevious, Jump, InCall, CallLabels, outVars, nodeVars
<1>7. CASE StoreLevel(p)
  BY <1>7, InsideIdle, IdleStutters DEF StoreLevel, Jump, InCall, CallLabels, outVars, nodeVars
<1>8. CASE StoreInterval(p)
  <2>1. InCall(p) /\ pc[p] \notin {"lock", "setRelay"} /\ UNCHANGED <<relay, attrOn, lastOnWriter>>
    BY <1>8 DEF StoreInterval, InCall, CallLabels, outVars, nodeVars
  <2>2. CASE call[p].op \in PowerOps
    <3>1. Goto(p, "arm") /\ UNCHANGED call
      BY <1>8, <2>2 DEF StoreInterval, AfterBrightness, PowerOps
    <3> QED BY <2>1, <3>1, InsideIdle, IdleStutters DEF CallLabels
  <2>3. CASE call[p].op = "CurrentLevel"
    <3>1. Goto(p, "saveOldLevel") /\ UNCHANGED call
      BY <1>8, <2>3 DEF StoreInterval, AfterBrightness, PowerOps
    <3> QED BY <2>1, <3>1, InsideIdle, IdleStutters DEF CallLabels
  <2>4. CASE call[p].op = "brightness"
    <3>1. Return(p)
      BY <1>8, <2>4 DEF StoreInterval, AfterBrightness, PowerOps
    <3>2. OthersStay(p) /\ ~Switching(p) /\ ~Switching(p)'
      BY <2>4, <3>1, ReturnFacts DEF Switching, InUpdate
    <3> QED BY <2>1, <3>2, OutsideIdle, IdleStutters
  <2> QED BY <1>0, <2>2, <2>3, <2>4 DEF Ops, PowerOps
<1>9. CASE Arm(p)
  BY <1>9, InsideIdle, IdleStutters DEF Arm, Jump, InCall, CallLabels, outVars, nodeVars
<1>10. CASE Program(p)
  <2>1. InCall(p) /\ pc[p] \notin {"lock", "setRelay"} /\ UNCHANGED <<relay, attrOn, lastOnWriter>>
    BY <1>10 DEF Program, InCall, CallLabels, outVars, nodeVars
  <2>2. CASE call[p].op = "OnOff"
    BY <1>10, <2>1, <2>2, InsideIdle, IdleStutters DEF Program, CallLabels
  <2>3. CASE call[p].op # "OnOff"
    <3>1. OthersStay(p) /\ ~Switching(p) /\ ~Switching(p)'
      BY <1>10, <2>3, ReturnFacts DEF Program, Switching, InUpdate
    <3> QED BY <2>1, <3>1, OutsideIdle, IdleStutters
  <2> QED BY <2>2, <2>3
<1>11. CASE SaveOldLevel(p)
  BY <1>11, InsideIdle, IdleStutters DEF SaveOldLevel, Jump, InCall, CallLabels, outVars, nodeVars
<1>12. CASE Store(p)
  <2>1. CASE call[p].op = "OnOff"
    BY <1>12, <2>1, StoreCommits DEF Power!Next
  <2>2. CASE call[p].op # "OnOff"
    <3>1. OthersStay(p) /\ ~Switching(p) /\ ~Switching(p)'
      BY <1>12, <2>2, ReturnFacts DEF Store, Switching, InUpdate
    <3> QED BY <1>12, <2>2, <3>1, OutsideIdle, IdleStutters DEF Store, outVars
  <2> QED BY <2>1, <2>2
<1> QED BY <1>1, <1>2, <1>3, <1>4, <1>5, <1>6, <1>7, <1>8, <1>9, <1>10, <1>11, <1>12 DEF CallStep

\* A call that waits for the lock, or a direct call, is not a switch yet.
LEMMA InvokeIdle ==
  ASSUME TypeOK, NEW p \in Tasks, NEW op, NEW on, NEW lvl, NEW start, NEW ret,
         start = "lock" \/ op \notin UpdateOps,
         Invoke(p, op, on, lvl, start, ret), ~InCall(p),
         UNCHANGED <<relay, attrOn, lastOnWriter>>
  PROVE  SwitchIdle
<1>1. pc'[p] = start /\ OthersStay(p) /\ call'[p].op = op
  BY InvokeFacts
<1>2. ~Switching(p) /\ ~Switching(p)'
  BY <1>1 DEF Switching, InUpdate
<1> QED BY <1>1, <1>2, OutsideIdle

\* A jump outside the driver calls.
LEMMA JumpIdle ==
  ASSUME TypeOK, NEW p \in Tasks, NEW l, l \notin CallLabels, Goto(p, l), UNCHANGED call,
         ~InCall(p), UNCHANGED <<relay, attrOn, lastOnWriter>>
  PROVE  SwitchIdle
<1>1. pc'[p] = l /\ OthersStay(p)
  BY GotoFacts
<1>2. ~Switching(p) /\ ~Switching(p)'
  BY <1>1 DEF Switching, InUpdate, InCall
<1> QED BY <1>1, <1>2, OutsideIdle

\* The boot: a created node restores the attribute, nothing else is visible.
LEMMA MainStepRefines ==
  ASSUME TypeOK, CoreInv, StartInv, MainStep
  PROVE  [Power!Next]_Power!vars
<1>0. "main" \in Tasks
  BY DEF Tasks
<1>1. CASE SwitchInit
  BY <1>0, <1>1, JumpIdle, IdleStutters
     DEF SwitchInit, Jump, InCall, CallLabels, outVars, nodeVars
<1>2. CASE CreateNode
  <2>1. pc["main"] = "createNode" /\ pc'["main"] = "startMatter" /\ OthersStay("main")
    BY <1>0, <1>2, GotoFacts DEF CreateNode, Jump
  <2>2. UNCHANGED <<relay, lastOnWriter>>
    BY <1>2 DEF CreateNode, outVars
  <2>3. ~matterUp /\ chipLock = Free /\ lastOnWriter = Nobody
    BY <2>1 DEF StartInv, CoreInv, LockInv
  <2>4. ~Switching("main") /\ ~Switching("main")'
    BY <2>1 DEF Switching, InUpdate, InCall, CallLabels
  <2>5. CASE attrOn' = DEFAULT_POWER
    <3>1. ~(\E q \in Tasks : Switching(q))
      BY <2>3 DEF CoreInv, LockInv, Switching, Tasks, Free
    <3>2. (\E q \in Tasks : Switching(q))' = (\E q \in Tasks : Switching(q))
      BY <2>1, <2>4 DEF OthersStay, Switching, InUpdate, InCall
    <3>3. (lastOnWriter # Nobody)' = (lastOnWriter # Nobody) /\ ~(lastOnWriter # Nobody)
      BY <2>2, <2>3
    <3> QED BY <2>2, <2>5, <3>1, <3>2, <3>3 DEF Power!Next, Power!Restore
  <2>6. CASE UNCHANGED attrOn
    BY <1>0, <2>1, <2>2, <2>4, <2>6, OutsideIdle, IdleStutters
  <2> QED BY <1>2, <2>5, <2>6 DEF CreateNode
<1>3. CASE StartMatter
  <2>1. /\ pc["main"] = "startMatter" /\ pc'["main"] = "startSensor"
        /\ pc["matter"] = "down" /\ pc'["matter"] \in {"idle", "down"}
        /\ pc'["slider"] = pc["slider"] /\ UNCHANGED call
    BY <1>3 DEF StartMatter, StartInv, TypeOK, ControlType, Tasks
  <2>2. SwitchIdle
    BY <1>3, <2>1 DEF StartMatter, SwitchIdle, Switching, InUpdate, InCall, CallLabels, Tasks,
       outVars
  <2> QED BY <2>2, IdleStutters
<1>4. CASE StartSensor
  <2>1. /\ pc["main"] = "startSensor" /\ pc'["main"] = "defaultLevel"
        /\ pc["slider"] = "none" /\ pc'["slider"] = "top"
        /\ pc'["matter"] = pc["matter"] /\ UNCHANGED call
    BY <1>4 DEF StartSensor, StartInv, TypeOK, ControlType, Tasks
  <2>2. SwitchIdle
    BY <1>4, <2>1 DEF StartSensor, SwitchIdle, Switching, InUpdate, InCall, CallLabels, Tasks,
       nodeVars
  <2> QED BY <2>2, IdleStutters
<1>5. CASE DefaultLevel
  BY <1>0, <1>5, InvokeIdle, IdleStutters
     DEF DefaultLevel, UpdateLevel, InCall, CallLabels, outVars, nodeVars
<1>6. CASE ApplyLevel
  BY <1>0, <1>6, InvokeIdle, IdleStutters
     DEF ApplyLevel, UpdateOps, InCall, CallLabels, outVars, nodeVars
<1>7. CASE DefaultPower
  BY <1>0, <1>7, InvokeIdle, IdleStutters
     DEF DefaultPower, UpdateOnOff, InCall, CallLabels, outVars, nodeVars
<1>8. CASE ApplyPower
  BY <1>0, <1>8, InvokeIdle, IdleStutters
     DEF ApplyPower, UpdateOps, InCall, CallLabels, outVars, nodeVars
<1> QED BY <1>1, <1>2, <1>3, <1>4, <1>5, <1>6, <1>7, <1>8 DEF MainStep

\* Between its updates sliderTask does nothing PowerSwitch can see.
LEMMA SliderStepIdle ==
  ASSUME TypeOK, SliderStep
  PROVE  SwitchIdle
<1>0. "slider" \in Tasks
  BY DEF Tasks
<1> USE DEF InCall, CallLabels
<1>1. CASE HandlePress
  BY <1>0, <1>1, InvokeIdle DEF HandlePress, UpdateOnOff, outVars, nodeVars
<1>2. CASE NoPress
  BY <1>0, <1>2, JumpIdle DEF NoPress, Jump, outVars, nodeVars
<1>3. CASE AfterPress
  BY <1>0, <1>3, JumpIdle DEF AfterPress, Jump, outVars, nodeVars
<1>4. CASE ReadTouch
  BY <1>0, <1>4, JumpIdle DEF ReadTouch, Jump, outVars, nodeVars
<1>5. CASE SkipTouch
  BY <1>0, <1>5, JumpIdle DEF SkipTouch, Jump, outVars, nodeVars
<1>6. CASE GetLevel
  BY <1>0, <1>6, JumpIdle DEF GetLevel, Jump, outVars, nodeVars
<1>7. CASE SendLevel
  BY <1>0, <1>7, InvokeIdle DEF SendLevel, UpdateLevel, outVars, nodeVars
<1>8. CASE SameLevel
  BY <1>0, <1>8, JumpIdle DEF SameLevel, Jump, outVars, nodeVars
<1>9. CASE LevelSent
  <2>1. CASE old_state
    BY <1>0, <1>9, <2>1, JumpIdle DEF LevelSent, outVars, nodeVars
  <2>2. CASE ~old_state
    <3>1. Invoke("slider", "OnOff", TRUE, 0, "lock", "onSent") /\ pc["slider"] = "levelSent"
      BY <1>9, <2>2 DEF LevelSent, UpdateOnOff
    <3>2. OthersStay("slider") /\ pc'["slider"] = "lock"
      BY <1>0, <3>1 DEF Invoke, Goto, OthersStay, TypeOK, ControlType
    <3>3. ~Switching("slider") /\ ~Switching("slider")'
      BY <3>1, <3>2 DEF Switching, InUpdate
    <3> QED BY <1>0, <1>9, <3>2, <3>3, OutsideIdle DEF LevelSent, outVars, nodeVars
  <2> QED BY <2>1, <2>2
<1>10. CASE OnSent
  BY <1>0, <1>10, JumpIdle DEF OnSent, Jump, outVars, nodeVars
<1>11. CASE ShowLevel
  BY <1>0, <1>11, JumpIdle DEF ShowLevel, nodeVars
<1>12. CASE ShowPrevious
  BY <1>0, <1>12, JumpIdle DEF ShowPrevious, Jump, nodeVars
<1>13. CASE Wake
  BY <1>0, <1>13, JumpIdle DEF Wake, Jump, outVars, nodeVars
<1> QED BY <1>1, <1>2, <1>3, <1>4, <1>5, <1>6, <1>7, <1>8, <1>9, <1>10, <1>11, <1>12, <1>13
        DEF SliderStep

\* Of the environment only a reset is visible: it is a power cycle.
LEMMA EnvironmentRefines ==
  ASSUME TypeOK, CoreInv, Environment
  PROVE  [Power!Next]_Power!vars
<1>1. ASSUME UNCHANGED <<pc, call, relay, attrOn, lastOnWriter>> PROVE UNCHANGED Power!vars
  <2>1. SwitchIdle
    BY <1>1 DEF SwitchIdle, Switching, InUpdate, InCall
  <2> QED BY <2>1, IdleStutters
<1>2. CASE ButtonEdge \/ TouchChange \/ Tick
  BY <1>1, <1>2 DEF ButtonEdge, TouchChange, Tick, outVars, nodeVars
<1>3. CASE RemoteWrite
  <2>1. pc["matter"] = "idle" /\ "matter" \in Tasks /\ UNCHANGED <<relay, attrOn, lastOnWriter>>
    BY <1>3 DEF RemoteWrite, Tasks, outVars, nodeVars
  <2>2. ASSUME NEW on \in BOOLEAN, Invoke("matter", "OnOff", on, 0, "setRelay", "idle")
        PROVE  OthersStay("matter") /\ pc'["matter"] = "setRelay"
    BY <2>1, <2>2, InvokeFacts
  <2>3. ASSUME NEW lvl \in RemoteLevels,
               Invoke("matter", "CurrentLevel", FALSE, lvl, "savePrevious", "idle")
        PROVE  OthersStay("matter") /\ call'["matter"].op = "CurrentLevel"
    BY <2>1, <2>3 DEF Invoke, Goto, OthersStay, TypeOK, ControlType
  <2>4. OthersStay("matter") /\ ~Switching("matter")'
    BY <1>3, <2>2, <2>3 DEF RemoteWrite, Switching
  <2>5. ~Switching("matter")
    BY <2>1 DEF Switching, InUpdate, InCall, CallLabels
  <2> QED BY <2>1, <2>4, <2>5, OutsideIdle, IdleStutters
<1>4. CASE Reset
  <2>1. pc'["main"] = "switchInit" /\ pc'["slider"] = "none" /\ pc'["matter"] = "down"
    BY <1>4 DEF Reset, PowerUpPc, Tasks
  <2>2. (\E q \in Tasks : Switching(q))' = FALSE
    BY <2>1 DEF Switching, InUpdate, InCall, CallLabels, Tasks
  <2>3. relay' = FALSE /\ UNCHANGED attrOn /\ (lastOnWriter # Nobody)' = FALSE
    BY <1>4 DEF Reset
  <2> QED BY <2>2, <2>3 DEF Power!Next, Power!PowerCycle
<1> QED BY <1>2, <1>3, <1>4 DEF Environment

LEMMA NextRefines ==
  ASSUME RejectsInv, [Next]_vars
  PROVE  [Power!Next]_Power!vars
<1> USE DEF RejectsInv
<1>1. CASE MainStep
  BY <1>1, MainStepRefines
<1>2. CASE SliderStep
  BY <1>2, SliderStepIdle, IdleStutters
<1>3. ASSUME NEW p \in Tasks, CallStep(p) PROVE [Power!Next]_Power!vars
  BY <1>3, CallStepRefines
<1>4. CASE Environment
  BY <1>4, EnvironmentRefines
<1>5. ASSUME NEW p \in Tasks, RejectUpdate(p) PROVE [Power!Next]_Power!vars
  <2>1. SwitchIdle
    BY <1>5, RejectFacts DEF SwitchIdle, switchVars
  <2> QED BY <2>1, IdleStutters
<1>6. CASE UNCHANGED vars
  <2>1. SwitchIdle
    BY <1>6 DEF SwitchIdle, vars, stepVars, outVars, nodeVars, Switching, InUpdate, InCall
  <2> QED BY <2>1, IdleStutters
<1> QED BY <1>1, <1>2, <1>3, <1>4, <1>5, <1>6 DEF Next, DeviceStep

LEMMA InitRefines == Init => Power!Init
<1> SUFFICES ASSUME Init PROVE Power!Init
  OBVIOUS
<1>1. relay = FALSE /\ attrOn \in BOOLEAN /\ (lastOnWriter # Nobody) = FALSE
  BY DefaultsType DEF Init
<1>2. (\E p \in Tasks : Switching(p)) = FALSE
  BY DEF Init, PowerUpPc, Switching, InUpdate, InCall, CallLabels, Tasks
<1> QED BY <1>1, <1>2 DEF Power!Init

\* app_driver_attribute_update: whatever the tasks, controllers, resets and
\* rejected updates do, the firmware switches the light the way PowerSwitch
\* says: one relay move and one attribute store at a time.
THEOREM PowerSwitchTheorem == Spec => ImplementsPowerSwitch
<1>1. RejectsInv /\ [Next]_vars => [Power!Next]_Power!vars
  BY NextRefines
<1> QED BY <1>1, InitRefines, RejectsInvariant, PTL DEF Spec, ImplementsPowerSwitch, Power!Spec
=============================================================================
