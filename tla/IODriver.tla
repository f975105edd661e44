------------------------------ MODULE IODriver ------------------------------
(***************************************************************************)
(* The firmware's tasks and interrupt handlers around the slider driver.   *)
(*                                                                         *)
(*   main    app_main: boots the device, then writes the default level     *)
(*           and power (app_driver_set_default)                            *)
(*   slider  sliderTask: polls the button flag and the touch sensor,       *)
(*           updates the Matter attributes and the indicator LEDs          *)
(*   matter  the CHIP task: writes of remote controllers (external)        *)
(*   button  buttonCb, an interrupt handler                                *)
(*                                                                         *)
(* esp_matter::attribute::update runs, under the CHIP stack lock, the      *)
(* PRE_UPDATE callback app_attribute_update_cb in the calling task and     *)
(* then stores the value.  Every access to a variable that another task    *)
(* can reach is a step of its own; app_driver_set_default also calls the   *)
(* driver outside the lock.                                                *)
(***************************************************************************)
EXTENDS SliderMath

CONSTANTS
  DEBOUNCE_TIME,        \* ticks a button edge must be away from the last one
  DEBOUNCE_TIME_TOUCH,  \* ticks between two handled touch changes
  POLL_TICKS,           \* ticks of the vTaskDelay that ends a poll
  TouchMasks,           \* results of CAP1298::getNewTouches: sets of electrodes
  RemoteLevels,         \* CurrentLevel values controllers write
  InputsDuringBoot,     \* may users and controllers act before app_main returns?
  CanReset,             \* may the device lose power or be reset?
  CanReject,            \* may a running node reject an update?
  MaxInputs             \* bound on the inputs of a behaviour; 0: no bound

ASSUME ConstantsAssumption ==
  /\ DEBOUNCE_TIME \in Nat
  /\ DEBOUNCE_TIME_TOUCH \in Nat
  /\ POLL_TICKS \in Nat
  /\ TouchMasks \subseteq SUBSET Electrode
  /\ RemoteLevels \subseteq UInt8
  /\ InputsDuringBoot \in BOOLEAN
  /\ CanReset \in BOOLEAN
  /\ CanReject \in BOOLEAN
  /\ MaxInputs \in Nat

VARIABLES
  \* SliderDriver members; hwAlarm is what the timer was last programmed with
  m_isOn, m_level, m_previous_level, interval, alarm_count, hwAlarm,
  \* IODriver globals; since... is tick_now - old_tick_..., saturated
  is_pressed, old_state, level, old_level, sinceBtn, sinceTouch,
  \* outputs: relay pin, colour of the front LED, level on the indicator
  relay, frontLed, shownLevel,
  \* the Matter node (external)
  attrOn, attrLevel, chipLock, nodeOk, matterUp,
  \* the touch sensor (external)
  touchChanged, newTouches,
  \* control: program counters, the driver call in progress, the poll delay
  pc, call, sleepLeft,
  \* history: the task that last stored the OnOff attribute; inputs so far;
  \* the slider task's last OnOff update was rejected
  lastOnWriter, inputs, missed

drvVars   == <<m_isOn, m_level, m_previous_level, interval, alarm_count, hwAlarm>>
ioVars    == <<is_pressed, old_state, level, old_level>>
outVars   == <<relay, frontLed, shownLevel>>
nodeVars  == <<attrOn, attrLevel, nodeOk, matterUp, lastOnWriter>>
timeVars  == <<sinceBtn, sinceTouch, sleepLeft>>
touchVars == <<touchChanged, newTouches>>
stepVars  == <<drvVars, ioVars, outVars, nodeVars, timeVars, touchVars, chipLock, pc, call, inputs>>
vars      == <<stepVars, missed>>

Tasks   == {"main", "slider", "matter"}
Free    == "free"
Nobody  == "nobody"

MainLabels   == {"switchInit", "createNode", "startMatter", "startSensor",
                 "defaultLevel", "applyLevel", "defaultPower", "applyPower", "done"}
SliderLabels == {"none", "top", "afterPress", "touch", "getLevel", "compare",
                 "levelSent", "onSent", "front", "raw", "sleep"}
MatterLabels == {"down", "idle"}
CallLabels   == {"lock", "setRelay", "setOn", "branch", "savePrevious", "storeLevel",
                 "storeInterval", "arm", "program", "saveOldLevel", "store"}

Labels       == MainLabels \cup SliderLabels \cup MatterLabels \cup CallLabels

\* OnOff and CurrentLevel: attribute::update; power and brightness: the
\* direct calls app_driver_light_set_power and ..._set_brightness.
Ops      == {"OnOff", "CurrentLevel", "power", "brightness"}
PowerOps == {"OnOff", "power"}
CallType == [op : Ops, on : BOOLEAN, lvl : UInt8, ret : MainLabels \cup SliderLabels \cup MatterLabels]

IdleCall == [op |-> "OnOff", on |-> FALSE, lvl |-> 0, ret |-> "done"]

Goto(p, label) == pc' = [pc EXCEPT ![p] = label]
Jump(p, from, to) == pc[p] = from /\ Goto(p, to)

Invoke(p, op, on, lvl, start, ret) ==
  /\ call' = [call EXCEPT ![p] = [op |-> op, on |-> on, lvl |-> lvl, ret |-> ret]]
  /\ Goto(p, start)

\* Back to the caller; the arguments of the call are dead.
Return(p) ==
  /\ Goto(p, call[p].ret)
  /\ call' = [call EXCEPT ![p] = IdleCall]

UpdateOnOff(p, on, ret)  == Invoke(p, "OnOff", on, 0, "lock", ret)
UpdateLevel(p, lvl, ret) == Invoke(p, "CurrentLevel", FALSE, lvl, "lock", ret)

\* User and controller inputs; quiet boots have none before app_main is done.
Input ==
  /\ InputsDuringBoot \/ pc["main"] = "done"
  /\ MaxInputs = 0 \/ inputs < MaxInputs
  /\ inputs' = IF MaxInputs = 0 THEN 0 ELSE inputs + 1

-----------------------------------------------------------------------------
(* Power-up: the static SliderDriver object is constructed (slider is zero *)
(* initialised, the timer programmed with MAX_INTERVAL / 2), the globals   *)
(* take their initial values and the persisted attributes survive.         *)

PowerUpPc  == [p \in Tasks |-> CASE p = "main"   -> "switchInit"
                                 [] p = "slider" -> "none"
                                 [] p = "matter" -> "down"]

Init ==
  /\ m_isOn = FALSE /\ m_level = 0 /\ m_previous_level = 0 /\ interval = 0
  /\ alarm_count = MAX_INTERVAL \div 2 /\ hwAlarm = MAX_INTERVAL \div 2
  /\ is_pressed = FALSE /\ old_state = TRUE /\ level = 0 /\ old_level = 0
  /\ sinceBtn = 0 /\ sinceTouch = 0 /\ sleepLeft = 0
  /\ relay = FALSE /\ frontLed = FALSE /\ shownLevel = 0
  /\ attrOn = DEFAULT_POWER /\ attrLevel = DEFAULT_BRIGHTNESS
  /\ nodeOk = FALSE /\ matterUp = FALSE /\ lastOnWriter = Nobody /\ inputs = 0
  /\ missed = FALSE
  /\ touchChanged = FALSE /\ newTouches = {}
  /\ chipLock = Free /\ pc = PowerUpPc /\ call = [p \in Tasks |-> IdleCall]

Reset ==
  /\ CanReset
  /\ m_isOn' = FALSE /\ m_level' = 0 /\ m_previous_level' = 0 /\ interval' = 0
  /\ alarm_count' = MAX_INTERVAL \div 2 /\ hwAlarm' = MAX_INTERVAL \div 2
  /\ is_pressed' = FALSE /\ old_state' = TRUE /\ level' = 0 /\ old_level' = 0
  /\ sinceBtn' = 0 /\ sinceTouch' = 0 /\ sleepLeft' = 0
  /\ relay' = FALSE /\ frontLed' = FALSE /\ shownLevel' = 0
  /\ UNCHANGED <<attrOn, attrLevel, inputs>>
  /\ nodeOk' = FALSE /\ matterUp' = FALSE /\ lastOnWriter' = Nobody
  /\ touchChanged' = FALSE /\ newTouches' = {}
  /\ chipLock' = Free /\ pc' = PowerUpPc /\ call' = [p \in Tasks |-> IdleCall]

-----------------------------------------------------------------------------
(* app_main.  Errors of node creation and of esp_matter::start are only    *)
(* logged: the boot goes on.                                               *)

\* nvs_flash_init and app_driver_switch_init: buttonCb is installed.
SwitchInit ==
  /\ Jump("main", "switchInit", "createNode")
  /\ UNCHANGED <<drvVars, ioVars, outVars, nodeVars, timeVars, touchVars, chipLock, call>>

\* node::create and configureSwitch: the endpoint gets its default values,
\* unless the stack restores persisted ones.
CreateNode ==
  /\ Jump("main", "createNode", "startMatter")
  /\ nodeOk' \in BOOLEAN
  /\ \/ attrOn' = DEFAULT_POWER /\ attrLevel' = DEFAULT_BRIGHTNESS
     \/ UNCHANGED <<attrOn, attrLevel>>
  /\ UNCHANGED <<drvVars, ioVars, outVars, timeVars, touchVars, chipLock, call,
                 matterUp, lastOnWriter>>

\* esp_matter::start: from here on the CHIP task serves controllers.
StartMatter ==
  /\ pc["main"] = "startMatter"
  /\ \E ok \in BOOLEAN :
       /\ matterUp' = (nodeOk /\ ok)
       /\ pc' = [pc EXCEPT !["main"] = "startSensor",
                           !["matter"] = IF nodeOk /\ ok THEN "idle" ELSE "down"]
  /\ UNCHANGED <<drvVars, ioVars, outVars, timeVars, touchVars, chipLock, call,
                 attrOn, attrLevel, nodeOk, lastOnWriter>>

\* app_driver_start_sensor: slider.start() clears the level LEDs and always
\* reports success, so the task is created.
StartSensor ==
  /\ pc["main"] = "startSensor"
  /\ shownLevel' = 0
  /\ pc' = [pc EXCEPT !["main"] = "defaultLevel", !["slider"] = "top"]
  /\ UNCHANGED <<drvVars, ioVars, nodeVars, timeVars, touchVars, chipLock, call,
                 relay, frontLed>>

\* Mutant of DefaultLevel: only the power is set.
DefaultLevelSkipped ==
  /\ pc["main"] = "defaultLevel"
  /\ UpdateOnOff("main", DEFAULT_POWER, "applyPower")
  /\ UNCHANGED <<drvVars, ioVars, outVars, nodeVars, timeVars, touchVars, chipLock>>

\* app_driver_set_default: level first, then power, each through the
\* attribute and once more on the driver itself.
DefaultLevel ==
  /\ pc["main"] = "defaultLevel"
  /\ UpdateLevel("main", DEFAULT_BRIGHTNESS, "applyLevel")
  /\ UNCHANGED <<drvVars, ioVars, outVars, nodeVars, timeVars, touchVars, chipLock>>

ApplyLevel ==
  /\ pc["main"] = "applyLevel"
  /\ Invoke("main", "brightness", FALSE, DEFAULT_BRIGHTNESS, "savePrevious", "defaultPower")
  /\ UNCHANGED <<drvVars, ioVars, outVars, nodeVars, timeVars, touchVars, chipLock>>

DefaultPower ==
  /\ pc["main"] = "defaultPower"
  /\ UpdateOnOff("main", DEFAULT_POWER, "applyPower")
  /\ UNCHANGED <<drvVars, ioVars, outVars, nodeVars, timeVars, touchVars, chipLock>>

ApplyPower ==
  /\ pc["main"] = "applyPower"
  /\ Invoke("main", "power", DEFAULT_POWER, 0, "setOn", "done")
  /\ UNCHANGED <<drvVars, ioVars, outVars, nodeVars, timeVars, touchVars, chipLock>>

-----------------------------------------------------------------------------
(* A driver call of task p: attribute::update with its callback            *)
(* app_driver_attribute_update, or a direct set_power / set_brightness.    *)

\* Mutant of Brightness: the Matter level passed on unscaled.
UnscaledBrightness(p) == IF call[p].op \in PowerOps THEN 0 ELSE call[p].lvl

\* The argument of set_brightness: 0 inside set_power(false).
Brightness(p) ==
  IF call[p].op \in PowerOps THEN 0 ELSE MatterToPercent(call[p].lvl)

\* Mutant of AcquireLock: the lock is not waited for.
LockIgnored(p) ==
  /\ pc[p] = "lock"
  /\ matterUp
  /\ chipLock' = p
  /\ Goto(p, IF call[p].op = "OnOff" THEN "setRelay" ELSE "savePrevious")
  /\ UNCHANGED <<drvVars, ioVars, outVars, nodeVars, timeVars, touchVars, call>>

\* Take the CHIP stack lock and enter the callback.
AcquireLock(p) ==
  /\ pc[p] = "lock"
  /\ matterUp
  /\ chipLock = Free
  /\ chipLock' = p
  /\ Goto(p, IF call[p].op = "OnOff" THEN "setRelay" ELSE "savePrevious")
  /\ UNCHANGED <<drvVars, ioVars, outVars, nodeVars, timeVars, touchVars, call>>

\* Without a running node the update fails; no caller looks at the result.
UpdateFails(p) ==
  /\ pc[p] = "lock"
  /\ ~matterUp
  /\ Return(p)
  /\ UNCHANGED <<drvVars, ioVars, outVars, nodeVars, timeVars, touchVars, chipLock>>

SetRelay(p) ==
  /\ Jump(p, "setRelay", "setOn")
  /\ relay' = call[p].on
  /\ UNCHANGED <<drvVars, ioVars, nodeVars, timeVars, touchVars, chipLock, call,
                 frontLed, shownLevel>>

\* set_power: m_isOn is stored, then tested.  An unlocked call may see its
\* own value or one stored meanwhile by another task.
SetOn(p) ==
  /\ Jump(p, "setOn", "branch")
  /\ m_isOn' = call[p].on
  /\ UNCHANGED <<m_level, m_previous_level, interval, alarm_count, hwAlarm,
                 ioVars, outVars, nodeVars, timeVars, touchVars, chipLock, call>>

Branch(p) ==
  /\ pc[p] = "branch"
  /\ \E on \in {m_isOn, call[p].on} : Goto(p, IF on THEN "arm" ELSE "savePrevious")
  /\ UNCHANGED <<drvVars, ioVars, outVars, nodeVars, timeVars, touchVars, chipLock, call>>

\* set_brightness
SavePrevious(p) ==
  /\ Jump(p, "savePrevious", "storeLevel")
  /\ m_previous_level' = m_level
  /\ UNCHANGED <<m_isOn, m_level, interval, alarm_count, hwAlarm,
                 ioVars, outVars, nodeVars, timeVars, touchVars, chipLock, call>>

StoreLevel(p) ==
  /\ Jump(p, "storeLevel", "storeInterval")
  /\ m_level' = StoredLevel(Brightness(p))
  /\ UNCHANGED <<m_isOn, m_previous_level, interval, alarm_count, hwAlarm,
                 ioVars, outVars, nodeVars, timeVars, touchVars, chipLock, call>>

\* The end of set_brightness: back in set_power, the callback, or app_main.
AfterBrightness(p) ==
  CASE call[p].op \in PowerOps      -> Goto(p, "arm") /\ UNCHANGED call
    [] call[p].op = "CurrentLevel"  -> Goto(p, "saveOldLevel") /\ UNCHANGED call
    [] call[p].op = "brightness"    -> Return(p)

\* Mutant of StoreInterval: the timer reprogrammed by every level change.
StoreIntervalAndArm(p) ==
  /\ pc[p] = "storeInterval"
  /\ AfterBrightness(p)
  /\ \E lvl \in {m_level, StoredLevel(Brightness(p))} : interval' = IntervalFor(lvl)
  /\ alarm_count' = interval' /\ hwAlarm' = interval'
  /\ UNCHANGED <<m_isOn, m_level, m_previous_level,
                 ioVars, outVars, nodeVars, timeVars, touchVars, chipLock>>

\* m_level is re-read; again an unlocked call may see another task's value.
StoreInterval(p) ==
  /\ pc[p] = "storeInterval"
  /\ AfterBrightness(p)
  /\ \E lvl \in {m_level, StoredLevel(Brightness(p))} : interval' = IntervalFor(lvl)
  /\ UNCHANGED <<m_isOn, m_level, m_previous_level, alarm_count, hwAlarm,
                 ioVars, outVars, nodeVars, timeVars, touchVars, chipLock>>

\* The end of set_power: alarm_count, then gptimer_set_alarm_action.
Arm(p) ==
  /\ Jump(p, "arm", "program")
  /\ alarm_count' = interval
  /\ UNCHANGED <<m_isOn, m_level, m_previous_level, interval, hwAlarm,
                 ioVars, outVars, nodeVars, timeVars, touchVars, chipLock, call>>

\* With auto-reload to 0 an alarm at 0 is one the timer may refuse; the result
\* is not looked at.
Program(p) ==
  /\ pc[p] = "program"
  /\ IF call[p].op = "OnOff" THEN Goto(p, "store") /\ UNCHANGED call ELSE Return(p)
  /\ hwAlarm' \in IF alarm_count = 0 THEN {0, hwAlarm} ELSE {alarm_count}
  /\ UNCHANGED <<m_isOn, m_level, m_previous_level, interval, alarm_count,
                 ioVars, outVars, nodeVars, timeVars, touchVars, chipLock>>

\* The end of the LevelControl callback.
SaveOldLevel(p) ==
  /\ Jump(p, "saveOldLevel", "store")
  /\ old_level' = call[p].lvl
  /\ UNCHANGED <<drvVars, outVars, nodeVars, timeVars, touchVars, chipLock, call,
                 is_pressed, old_state, level>>

\* Mutant of Store: an update of OnOff that changes nothing returns early, with
\* the lock.
StoreReturnsEarly(p) ==
  /\ pc[p] = "store"
  /\ Return(p)
  /\ IF call[p].op = "OnOff"
     THEN /\ attrOn' = call[p].on /\ lastOnWriter' = p
          /\ UNCHANGED attrLevel
     ELSE /\ attrLevel' = call[p].lvl
          /\ UNCHANGED <<attrOn, lastOnWriter>>
  /\ chipLock' = IF call[p].op = "OnOff" /\ attrOn = call[p].on THEN p ELSE Free
  /\ UNCHANGED <<drvVars, ioVars, outVars, timeVars, touchVars, nodeOk, matterUp>>

\* The stack stores the value, releases the lock and update returns.
Store(p) ==
  /\ pc[p] = "store"
  /\ Return(p)
  /\ IF call[p].op = "OnOff"
     THEN /\ attrOn' = call[p].on /\ lastOnWriter' = p
          /\ UNCHANGED attrLevel
     ELSE /\ attrLevel' = call[p].lvl
          /\ UNCHANGED <<attrOn, lastOnWriter>>
  /\ chipLock' = Free
  /\ UNCHANGED <<drvVars, ioVars, outVars, timeVars, touchVars, nodeOk, matterUp>>

-----------------------------------------------------------------------------
(* One poll of sliderTask.                                                 *)

\* Mutant of HandlePress: the copy is sent instead of its opposite.
HandlePressRepeats ==
  /\ pc["slider"] = "top" /\ is_pressed
  /\ UpdateOnOff("slider", old_state, "afterPress")
  /\ UNCHANGED <<drvVars, ioVars, outVars, nodeVars, timeVars, touchVars, chipLock>>

HandlePress ==
  /\ pc["slider"] = "top" /\ is_pressed
  /\ UpdateOnOff("slider", ~old_state, "afterPress")
  /\ UNCHANGED <<drvVars, ioVars, outVars, nodeVars, timeVars, touchVars, chipLock>>

NoPress ==
  /\ ~is_pressed
  /\ Jump("slider", "top", "touch")
  /\ UNCHANGED <<drvVars, ioVars, outVars, nodeVars, timeVars, touchVars, chipLock, call>>

\* Mutant of AfterPress: the toggle of old_state forgotten.
PressNotMirrored ==
  /\ Jump("slider", "afterPress", "touch")
  /\ is_pressed' = FALSE
  /\ UNCHANGED <<drvVars, outVars, nodeVars, timeVars, touchVars, chipLock, call,
                 old_state, level, old_level>>

\* old_state is private to the task, so its toggle and the clearing of the
\* flag are one step; an edge in between is lost like one just before.
AfterPress ==
  /\ Jump("slider", "afterPress", "touch")
  /\ old_state' = ~old_state
  /\ is_pressed' = FALSE
  /\ UNCHANGED <<drvVars, outVars, nodeVars, timeVars, touchVars, chipLock, call,
                 level, old_level>>

\* newTouches (touchStatusChanged), the debounce, and updateTouchStatus,
\* which reads and clears the sensor.
ReadTouch ==
  /\ touchChanged /\ sinceTouch > DEBOUNCE_TIME_TOUCH
  /\ Jump("slider", "touch", "getLevel")
  /\ sinceTouch' = 0
  /\ touchChanged' = FALSE
  /\ newTouches' \in TouchMasks
  /\ UNCHANGED <<drvVars, ioVars, outVars, nodeVars, chipLock, call, sinceBtn, sleepLeft>>

SkipTouch ==
  /\ ~(touchChanged /\ sinceTouch > DEBOUNCE_TIME_TOUCH)
  /\ Jump("slider", "touch", "front")
  /\ UNCHANGED <<drvVars, ioVars, outVars, nodeVars, timeVars, touchVars, chipLock, call>>

\* level = slider.getLevel(254)
GetLevel ==
  /\ Jump("slider", "getLevel", "compare")
  /\ IF newTouches = {}
     THEN level' = m_previous_level /\ UNCHANGED m_previous_level
     ELSE level' = TouchLevel(newTouches) /\ m_previous_level' = TouchLevel(newTouches)
  /\ UNCHANGED <<m_isOn, m_level, interval, alarm_count, hwAlarm, outVars, nodeVars,
                 timeVars, touchVars, chipLock, call, is_pressed, old_state, old_level>>

SendLevel ==
  /\ pc["slider"] = "compare" /\ level # old_level
  /\ UpdateLevel("slider", level, "levelSent")
  /\ UNCHANGED <<drvVars, ioVars, outVars, nodeVars, timeVars, touchVars, chipLock>>

SameLevel ==
  /\ level = old_level
  /\ Jump("slider", "compare", "front")
  /\ UNCHANGED <<drvVars, ioVars, outVars, nodeVars, timeVars, touchVars, chipLock, call>>

LevelSent ==
  /\ pc["slider"] = "levelSent"
  /\ old_level' = level
  /\ IF old_state
     THEN Goto("slider", "front") /\ UNCHANGED call
     ELSE UpdateOnOff("slider", TRUE, "onSent")
  /\ UNCHANGED <<drvVars, outVars, nodeVars, timeVars, touchVars, chipLock,
                 is_pressed, old_state, level>>

OnSent ==
  /\ Jump("slider", "onSent", "front")
  /\ old_state' = ~old_state
  /\ UNCHANGED <<drvVars, outVars, nodeVars, timeVars, touchVars, chipLock, call,
                 is_pressed, level, old_level>>

\* set_front_led, then set_level_led(old_state ? getLevelRaw() : 0);
\* getLevelRaw reads m_level and, when that is 0, m_previous_level.
ShowLevel ==
  /\ pc["slider"] = "front"
  /\ frontLed' = old_state
  /\ IF old_state /\ m_level = 0
     THEN Goto("slider", "raw") /\ UNCHANGED <<shownLevel, sleepLeft>>
     ELSE /\ shownLevel' = (IF old_state THEN m_level ELSE 0)
          /\ sleepLeft' = POLL_TICKS
          /\ Goto("slider", "sleep")
  /\ UNCHANGED <<drvVars, ioVars, nodeVars, touchVars, chipLock, call, relay,
                 sinceBtn, sinceTouch>>

ShowPrevious ==
  /\ Jump("slider", "raw", "sleep")
  /\ shownLevel' = m_previous_level
  /\ sleepLeft' = POLL_TICKS
  /\ UNCHANGED <<drvVars, ioVars, nodeVars, touchVars, chipLock, call, relay, frontLed,
                 sinceBtn, sinceTouch>>

\* Mutant of Wake: the flag is cleared before each poll.
WakeForgets ==
  /\ sleepLeft = 0
  /\ Jump("slider", "sleep", "top")
  /\ is_pressed' = FALSE
  /\ UNCHANGED <<drvVars, outVars, nodeVars, timeVars, touchVars, chipLock, call,
                 old_state, level, old_level>>

Wake ==
  /\ sleepLeft = 0
  /\ Jump("slider", "sleep", "top")
  /\ UNCHANGED <<drvVars, ioVars, outVars, nodeVars, timeVars, touchVars, chipLock, call>>

-----------------------------------------------------------------------------
(* Interrupts, controllers, the sensor and time.                           *)

\* buttonCb, on a rising edge of the button pin
ButtonEdge ==
  /\ Input /\ pc["main"] # "switchInit"
  /\ is_pressed' = (is_pressed \/ sinceBtn > DEBOUNCE_TIME)
  /\ sinceBtn' = 0
  /\ UNCHANGED <<drvVars, outVars, nodeVars, touchVars, chipLock, pc, call,
                 old_state, level, old_level, sinceTouch, sleepLeft>>

\* A controller's write, processed by the CHIP task under its lock.
RemoteWrite ==
  /\ Input
  /\ pc["matter"] = "idle" /\ chipLock = Free
  /\ chipLock' = "matter"
  /\ \/ \E on \in BOOLEAN : Invoke("matter", "OnOff", on, 0, "setRelay", "idle")
     \/ \E lvl \in RemoteLevels :
          Invoke("matter", "CurrentLevel", FALSE, lvl, "savePrevious", "idle")
  /\ UNCHANGED <<drvVars, ioVars, outVars, nodeVars, timeVars, touchVars>>

\* An electrode is touched or released.
TouchChange ==
  /\ Input /\ ~touchChanged
  /\ touchChanged' = TRUE
  /\ UNCHANGED <<drvVars, ioVars, outVars, nodeVars, timeVars, chipLock, pc, call, newTouches>>

Saturate(ticks, bound) == IF ticks < bound THEN ticks + 1 ELSE ticks

Tick ==
  /\ sinceBtn' = Saturate(sinceBtn, DEBOUNCE_TIME + 1)
  /\ sinceTouch' = Saturate(sinceTouch, DEBOUNCE_TIME_TOUCH + 1)
  /\ sleepLeft' = (IF sleepLeft > 0 THEN sleepLeft - 1 ELSE 0)
  /\ UNCHANGED <<drvVars, ioVars, outVars, nodeVars, touchVars, chipLock, pc, call, inputs>>

-----------------------------------------------------------------------------
MainStep ==
  /\ \/ SwitchInit \/ CreateNode \/ StartMatter \/ StartSensor
     \/ DefaultLevel \/ ApplyLevel \/ DefaultPower \/ ApplyPower
  /\ UNCHANGED inputs

CallStep(p) ==
  /\ \/ AcquireLock(p) \/ UpdateFails(p) \/ SetRelay(p) \/ SetOn(p)
     \/ Branch(p) \/ SavePrevious(p) \/ StoreLevel(p) \/ StoreInterval(p)
     \/ Arm(p) \/ Program(p) \/ SaveOldLevel(p) \/ Store(p)
  /\ UNCHANGED inputs

SliderStep ==
  /\ \/ HandlePress \/ NoPress \/ AfterPress \/ ReadTouch \/ SkipTouch
     \/ GetLevel \/ SendLevel \/ SameLevel \/ LevelSent \/ OnSent
     \/ ShowLevel \/ ShowPrevious \/ Wake
  /\ UNCHANGED inputs

Environment == ButtonEdge \/ RemoteWrite \/ TouchChange \/ Tick \/ Reset

DeviceStep == MainStep \/ SliderStep \/ (\E p \in Tasks : CallStep(p)) \/ Environment

SliderOnOff == call["slider"].op = "OnOff"

\* The stack may reject an update before it calls back (a type or constraint
\* check, external).  No caller looks at the result of attribute::update:
\* sliderTask toggles its copy old_state all the same.
RejectUpdate(p) ==
  /\ CanReject /\ matterUp /\ chipLock = Free
  /\ pc[p] = "lock"
  /\ Return(p)
  /\ missed' = (missed \/ (p = "slider" /\ SliderOnOff))
  /\ UNCHANGED <<drvVars, ioVars, outVars, nodeVars, timeVars, touchVars, chipLock, inputs>>

\* The slider task's OnOff update goes through.
SliderStores == pc["slider"] = "store" /\ SliderOnOff /\ Store("slider")

Next ==
  \/ DeviceStep /\ missed' = (missed /\ ~SliderStores)
  \/ \E p \in Tasks : RejectUpdate(p)

Spec == Init /\ [][Next]_vars

\* The scheduler runs every ready task and ticks keep coming.  The CHIP task
\* gives its lock up whenever it waits for events, so a task that waits for the
\* lock gets it in the end: strong fairness, for the two tasks that can wait.
Fairness ==
  /\ WF_stepVars(MainStep)
  /\ WF_stepVars(SliderStep)
  /\ WF_stepVars(Tick)
  /\ \A p \in Tasks : WF_stepVars(CallStep(p))
  /\ \A p \in {"main", "slider"} : SF_stepVars(AcquireLock(p) /\ UNCHANGED inputs)

FairSpec == Spec /\ Fairness

-----------------------------------------------------------------------------
(* Properties.                                                             *)

DriverType ==
  /\ m_isOn \in BOOLEAN /\ m_level \in Percent /\ m_previous_level \in UInt8
  /\ interval \in Int /\ alarm_count \in Int /\ hwAlarm \in Int

GlobalsType ==
  /\ is_pressed \in BOOLEAN /\ old_state \in BOOLEAN
  /\ level \in UInt8 /\ old_level \in UInt8

OutputType == relay \in BOOLEAN /\ frontLed \in BOOLEAN /\ shownLevel \in UInt8

NodeType ==
  /\ attrOn \in BOOLEAN /\ attrLevel \in UInt8
  /\ nodeOk \in BOOLEAN /\ matterUp \in BOOLEAN
  /\ lastOnWriter \in Tasks \cup {Nobody}

TimeType ==
  /\ sinceBtn \in 0 .. DEBOUNCE_TIME + 1 /\ sinceTouch \in 0 .. DEBOUNCE_TIME_TOUCH + 1
  /\ sleepLeft \in 0 .. POLL_TICKS

SensorType == touchChanged \in BOOLEAN /\ newTouches \in SUBSET Electrode

ControlType ==
  /\ pc \in [Tasks -> Labels] /\ call \in [Tasks -> CallType]
  /\ chipLock \in Tasks \cup {Free} /\ inputs \in Nat

\* Every driver member, global, attribute and local of the tasks keeps the type
\* the code relies on; in particular m_level is a percentage, which set_brightness
\* does not check.
TypeOK ==
  /\ DriverType /\ GlobalsType /\ OutputType /\ NodeType
  /\ TimeType /\ SensorType /\ ControlType

\* The boot is over, the node runs and no attribute update is in progress.
Settled == pc["main"] = "done" /\ matterUp /\ chipLock = Free

\* set_brightness and set_power: whatever the interleaving, even of the
\* unlocked calls of the boot, the firing delay kept in interval and given
\* to the timer stays within one mains half period (alarm_count is unsigned:
\* a negative interval would never fire).
DelayInRange == interval \in Delay /\ alarm_count \in Delay /\ hwAlarm \in Delay

\* app_driver_attribute_update: once the boot has powered the light, the relay
\* pin agrees with the OnOff attribute whenever no update is in progress,
\* whichever of the three tasks wrote last.  (A boot whose update of OnOff is
\* rejected leaves the relay open, whatever the restored attribute says, until
\* the first update that goes through.)
RelayFollowsOnOff == Settled /\ (CanReject => lastOnWriter # Nobody) => relay = attrOn

\* set_power(false): while the OnOff attribute is off the relay is open, the
\* driver is off and the timer fires only at the end of the half period, no
\* matter how many level writes follow.
OffIsDark == Settled /\ ~attrOn => ~relay /\ ~m_isOn /\ hwAlarm = MAX_INTERVAL

\* set_brightness: the driver's level is the CurrentLevel attribute in percent,
\* or 0 after a power-off, and the interval is the one of that level.
LevelFollowsAttribute ==
  Settled => /\ m_level \in {0, StoredLevel(MatterToPercent(attrLevel))}
             /\ interval = IntervalFor(m_level)

\* sliderTask: its copy old_state of the power state is right as long as the
\* task itself was the last to write the OnOff attribute; after a rejected
\* update it is wrong only until the task's next update that goes through (the
\* press after the lost one does nothing visible, the one after that toggles
\* again).
ShadowHeals ==
  lastOnWriter = "slider" /\ ~missed /\ pc["slider"] \notin {"afterPress", "onSent"}
    => old_state = attrOn

\* app_driver_set_default: a boot without inputs ends with the default light,
\* wherever an earlier reset hit and whatever the persisted attributes were;
\* if the node failed to start the relay stays open.
BootAppliesDefaults ==
  [][pc["main"] # "done" /\ pc'["main"] = "done"
       => /\ relay' = matterUp
          /\ matterUp => attrOn' /\ attrLevel' = DEFAULT_BRIGHTNESS /\ old_state'
          /\ m_isOn' /\ hwAlarm' = IntervalFor(MatterToPercent(DEFAULT_BRIGHTNESS))]_vars

\* buttonCb and sliderTask: a press accepted at any time, also in the middle of
\* a poll, of the boot or while the task waits for the CHIP lock, makes the task
\* put relay and attribute at the opposite of its copy of the power state.  That
\* toggles the light when the copy is right (ShadowHeals); after a controller's
\* write it may repeat what is there.  Left out is a press that comes after the
\* task has stored the attribute and before it clears the flag (line 68): it
\* is lost.
PressSwitches ==
  is_pressed /\ matterUp /\ pc["slider"] # "afterPress"
    ~> /\ pc["slider"] = "afterPress" /\ lastOnWriter = "slider"
       /\ attrOn = ~old_state /\ relay = attrOn

\* sliderTask: a change of the touch sensor is always read in the end; the
\* debounce only delays it.
TouchIsRead == touchChanged ~> ~touchChanged

\* buttonCb and sliderTask: presses and touch changes are served although
\* controllers keep taking the CHIP lock the task needs.
InputsAreServed == PressSwitches /\ TouchIsRead

\* app_main, app_driver_set_default: the boot always finishes, with or without a
\* working node, although presses, slides and controllers already make the
\* other tasks take the CHIP lock it needs twice.
BootFinishes == <>(pc["main"] = "done")

-----------------------------------------------------------------------------
(* The inductive invariant behind RelayFollowsOnOff and                    *)
(* ShadowHeals.                                                            *)

UpdateOps == {"OnOff", "CurrentLevel"}

\* Task p is in a driver call, waiting or not; it is inside the callback.
InCall(p)   == pc[p] \in CallLabels
InUpdate(p) == InCall(p) /\ pc[p] # "lock" /\ call[p].op \in UpdateOps

\* Task p has switched the relay and not yet stored the attribute.
Switching(p) == InUpdate(p) /\ call[p].op = "OnOff" /\ pc[p] # "setRelay"

\* A task is inside the callback exactly while it holds the CHIP lock, which
\* only a running node has.
LockInv ==
  /\ \A p \in Tasks : InUpdate(p) <=> chipLock = p
  /\ chipLock # Free \/ lastOnWriter # Nobody => matterUp

\* Which part of which call a program counter can be in.
CallOk(p) ==
  /\ pc[p] \in {"lock", "store"} => call[p].op \in UpdateOps
  /\ pc[p] = "setRelay" => call[p].op = "OnOff"
  /\ pc[p] = "saveOldLevel" => call[p].op = "CurrentLevel"
  /\ pc[p] \in {"setOn", "branch", "arm", "program"} => call[p].op \in PowerOps

CallInv == \A p \in Tasks : CallOk(p)

\* Who calls what, and where the call returns to.
CallerInv ==
  /\ InCall("matter") => call["matter"].op \in UpdateOps /\ call["matter"].ret = "idle"
  /\ InCall("slider") => /\ call["slider"].op \in UpdateOps
                         /\ call["slider"].op = "OnOff" =>
                              /\ call["slider"].ret \in {"afterPress", "onSent"}
                              /\ call["slider"].on = ~old_state
                         /\ call["slider"].op = "CurrentLevel" => call["slider"].ret = "levelSent"
  /\ InCall("main") => /\ call["main"].op = "OnOff" => call["main"].ret = "applyPower"
                       /\ call["main"].op = "CurrentLevel" => call["main"].ret = "applyLevel"
                       /\ call["main"].op = "brightness" => call["main"].ret = "defaultPower"
                       /\ call["main"].op = "power" => call["main"].ret = "done"

\* The relay is what the attribute is or is about to become.
RelayInv ==
  /\ \A p \in Tasks : Switching(p) => relay = call[p].on
  /\ lastOnWriter # Nobody /\ (\A p \in Tasks : ~Switching(p)) => relay = attrOn

\* Until app_main starts them, neither the node nor sliderTask runs.
StartInv ==
  /\ ~matterUp => pc["matter"] = "down"
  /\ pc["main"] \in {"switchInit", "createNode", "startMatter"} => ~matterUp
  /\ pc["main"] \in {"switchInit", "createNode", "startMatter", "startSensor"}
       => pc["slider"] = "none"

\* Once app_main has passed its update of OnOff, a running node has stored it.
BootInv ==
  /\ matterUp
  /\ \/ pc["main"] \in {"applyPower", "done"}
     \/ InCall("main") /\ call["main"].op = "power"
  => lastOnWriter # Nobody

\* After its own update the task still has to toggle its copy.
ShadowInv ==
  lastOnWriter = "slider" =>
    old_state = IF pc["slider"] \in {"afterPress", "onSent"} THEN ~attrOn ELSE attrOn

\* The part that also holds when the node rejects updates.
CoreInv == LockInv /\ CallInv /\ CallerInv /\ RelayInv

HealInv == missed \in BOOLEAN /\ (~missed => ShadowInv)

SwitchInv == CoreInv /\ BootInv /\ ShadowInv

Power == INSTANCE PowerSwitch WITH
           Default <- DEFAULT_POWER, attr <- attrOn,
           busy <- \E p \in Tasks : Switching(p), synced <- (lastOnWriter # Nobody)

\* app_driver_attribute_update: whatever the tasks, resets and rejected updates
\* do, switching the light is one relay move and one attribute store at a time.
ImplementsPowerSwitch == Power!Spec

-----------------------------------------------------------------------------
(* The inductive invariant behind OffIsDark, LevelFollowsAttribute and     *)
(* BootAppliesDefaults: what holds in addition when no input comes before  *)
(* app_main is done (InputsDuringBoot = FALSE).                            *)

\* Task p is in the driver, as opposed to waiting for the lock.
Inside(p) == InCall(p) /\ pc[p] # "lock"

\* Until then sliderTask finds nothing to do and the CHIP task is idle.
CalmInv ==
  pc["main"] # "done" =>
    /\ ~is_pressed /\ ~touchChanged /\ old_state
    /\ pc["slider"] \in {"none", "top", "touch", "front", "raw", "sleep"}
    /\ pc["matter"] \in {"down", "idle"}

\* app_main only applies the defaults.
ArgsInv ==
  InCall("main") => IF call["main"].op \in PowerOps THEN call["main"].on = DEFAULT_POWER
                                                    ELSE call["main"].lvl = DEFAULT_BRIGHTNESS

\* Task p has stored m_isOn and not yet returned from set_power, or not yet
\* stored the attribute; the same for m_level.
PowerPending(p) ==
  /\ call[p].op \in PowerOps
  /\ pc[p] \in {"branch", "savePrevious", "storeLevel", "storeInterval", "arm", "program", "store"}

LevelPending(p) ==
  call[p].op = "CurrentLevel" /\ pc[p] \in {"storeInterval", "saveOldLevel", "store"}

\* How far the driver is with task p's request.
RequestOk(p) ==
  /\ PowerPending(p) => m_isOn = call[p].on
  /\ pc[p] = "storeInterval" \/ LevelPending(p) => m_level = StoredLevel(Brightness(p))
  /\ call[p].op \in PowerOps /\ pc[p] \in {"savePrevious", "storeLevel", "storeInterval"}
       => ~call[p].on
  /\ pc[p] = "arm" /\ ~call[p].on => interval = MAX_INTERVAL
  /\ pc[p] = "program" /\ ~call[p].on => alarm_count = MAX_INTERVAL
  /\ pc[p] = "store" /\ call[p].op = "OnOff" /\ ~call[p].on => hwAlarm = MAX_INTERVAL

RequestInv == \A p \in Tasks : RequestOk(p)

\* How far app_main is: the level attribute is stored, the driver's level is
\* set, the power attribute is stored.
LevelStored == \/ pc["main"] \in {"applyLevel", "defaultPower", "applyPower"}
               \/ InCall("main") /\ call["main"].op # "CurrentLevel"
LevelSet    == \/ pc["main"] \in {"defaultPower", "applyPower", "done"}
               \/ InCall("main") /\ call["main"].op \in PowerOps
PowerStored == \/ pc["main"] = "applyPower"
               \/ InCall("main") /\ call["main"].op = "power"

\* Between requests the driver agrees with the attributes.
LevelInv ==
  /\ LevelSet /\ (\A p \in Tasks : pc[p] # "storeInterval") => interval = IntervalFor(m_level)
  /\ matterUp /\ (\A p \in Tasks : ~LevelPending(p))
       => m_level \in {0, StoredLevel(MatterToPercent(attrLevel))}

PowerInv ==
  lastOnWriter # Nobody /\ (\A p \in Tasks : ~PowerPending(p))
    => m_isOn = attrOn /\ (~attrOn => hwAlarm = MAX_INTERVAL)

BootLevel == StoredLevel(MatterToPercent(DEFAULT_BRIGHTNESS))

\* What the boot has reached so far.
StageInv ==
  /\ pc["main"] \in {"switchInit", "createNode", "startMatter"} => m_level = 0
  /\ ~matterUp => ~relay
  /\ matterUp /\ LevelStored => attrLevel = DEFAULT_BRIGHTNESS
  /\ matterUp /\ PowerStored => attrOn
  /\ LevelSet /\ pc["main"] # "done" => m_level = BootLevel
  /\ pc["main"] = "program" => alarm_count = IntervalFor(BootLevel)

QuietInv == CalmInv /\ ArgsInv /\ RequestInv /\ LevelInv /\ PowerInv /\ StageInv

-----------------------------------------------------------------------------
(* What comments of the code say and the code does not do.                 *)

\* "Fade the light with the light driver" (LevelControl callback): while the
\* light is on, the timer fires with the delay of the CurrentLevel attribute.
LevelTakesEffect ==
  Settled /\ attrOn
    => hwAlarm = IntervalFor(StoredLevel(MatterToPercent(attrLevel)))

\* "if actual state is off, change it to on" (sliderTask after a level
\* change): when the OnOff attribute is off the task will switch it on.
SlideTurnsOn == Settled /\ pc["slider"] = "levelSent" /\ ~attrOn => ~old_state

\* "Check if there are new touches" (newTouches guards the level update): a
\* level is only sent for newly touched electrodes.
LevelOnlyFromNewTouches ==
  pc["slider"] = "lock" /\ call["slider"].op = "CurrentLevel" => newTouches # {}

\* "Save the level for the next iteration" (LevelControl callback): the next
\* poll compares with the level last written.
OldLevelIsSaved == Settled /\ pc["slider"] = "top" => old_level = attrLevel

\* "Update the front led and the indicator led" (set_level_led): the indicator
\* bar has eight LEDs, so it shows at most eight of them.
IndicatorFits == (8 * shownLevel) \div 100 <= 8
=============================================================================
