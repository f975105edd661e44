----------------------------- MODULE LevelLeds -----------------------------
(***************************************************************************)
(* The indicator of the switch: SliderDriver::start, set_front_led and     *)
(* set_level_led on the registers of the IS31FL3235A LED driver.           *)
(*                                                                         *)
(* The chip is external.  It is modelled from its use: what setPWM and     *)
(* setLEDControl wrote takes effect together at the next updatePWM, so     *)
(* writes up to an update are one step.  A poll of sliderTask sets the     *)
(* front LED, then the level.                                              *)
(*                                                                         *)
(* The level may be a Matter level, up to 254: when the light is off,      *)
(* getLevelRaw returns m_previous_level, which getLevel may have set.  The *)
(* bar then has up to 20 LEDs and 7 - i wraps to channels the chip has     *)
(* not.  What the library does with such a write is not known: nothing, or *)
(* its two values land in the registers of other LEDs.                     *)
(***************************************************************************)
EXTENDS SliderMath

CONSTANT Levels    \* the levels set_level_led is called with

LevelsAssumption == Levels \subseteq UInt8

Channel == 0 .. 9
LevelChannel == 0 .. 7
PWM_LEVEL == 100
PWM_FRONT == 40

VARIABLES
  pwm, control,        \* registers of the chip
  pc,                  \* "start", "front", "level" or "loop"
  i, n_led, led_status,
  level, shown,        \* argument of the call in progress, of the last complete one
  power                \* argument of the last set_front_led; "none" before

vars == <<pwm, control, pc, i, n_led, led_status, level, shown, power>>
ledVars == <<pwm, control>>

Lit == {c \in Channel : control[c] /\ pwm[c] > 0}

\* n_led of a level other than 0: at most 20, so its uint8_t does not wrap.
Lights(lvl) == (8 * lvl) \div 100

\* The bar of a level: its LEDs count down from channel 7.
Bar(lvl) == {c \in LevelChannel : 7 - c < Lights(lvl)}

\* setPWM, setLEDControl and updatePWM for one LED.
WriteLed(c, duty, on) ==
  /\ pwm' = [pwm EXCEPT ![c] = duty]
  /\ control' = [control EXCEPT ![c] = on]

\* The same for a channel beyond the chip's.
WriteBeyond ==
  \/ UNCHANGED ledVars
  \/ \E c, d \in Channel :
       /\ pwm' = [pwm EXCEPT ![c] = PWM_LEVEL]
       /\ control' = [control EXCEPT ![d] = led_status]

-----------------------------------------------------------------------------
\* After a reset of the device the chip may still show what it showed.
Init ==
  /\ \E duty \in {0, PWM_LEVEL} : pwm = [c \in Channel |-> duty]
  /\ \E on \in BOOLEAN : control = [c \in Channel |-> on]
  /\ pc = "start" /\ i = 0 /\ n_led = 0 /\ led_status = FALSE
  /\ level = 0 /\ shown = 0 /\ power = "none"

\* start(): one iteration of its loop.
Start ==
  /\ pc = "start"
  /\ WriteLed(i, 0, FALSE)
  /\ IF i < 7 THEN i' = i + 1 /\ UNCHANGED pc ELSE i' = 0 /\ pc' = "front"
  /\ UNCHANGED <<n_led, led_status, level, shown, power>>

\* set_front_led: both colours are written before the update.
SetFrontLed(on) ==
  /\ pc = "front"
  /\ pwm' = [pwm EXCEPT ![9] = IF on THEN PWM_FRONT ELSE 0,
                        ![8] = IF on THEN 0 ELSE PWM_FRONT]
  /\ control' = [control EXCEPT ![9] = on, ![8] = ~on]
  /\ power' = (IF on THEN "on" ELSE "off") /\ pc' = "level"
  /\ UNCHANGED <<i, n_led, led_status, level, shown>>

\* set_level_led up to its loops: level 0 walks all eight LEDs with status off.
SetLevelLed(lvl) ==
  /\ pc = "level"
  /\ led_status' = (Lights(lvl) > 0)
  /\ n_led' = IF lvl = 0 THEN 8 ELSE Lights(lvl)
  /\ i' = 0 /\ level' = lvl /\ pc' = "loop"
  /\ UNCHANGED <<ledVars, shown, power>>

\* First loop: the LEDs of the bar, and those the bar would have beyond them.
LightLed ==
  /\ pc = "loop" /\ i < n_led
  /\ IF i < 8 THEN WriteLed(7 - i, PWM_LEVEL, led_status) ELSE WriteBeyond
  /\ i' = i + 1
  /\ UNCHANGED <<pc, n_led, led_status, level, shown, power>>

\* Mutant of ClearLed: the brightness is left as it was.
ClearLedControlOnly ==
  /\ pc = "loop" /\ i >= n_led /\ i < 8
  /\ WriteLed(7 - i, pwm[7 - i], ~led_status)
  /\ i' = i + 1
  /\ UNCHANGED <<pc, n_led, led_status, level, shown, power>>

\* Second loop: the remaining LEDs are dimmed to 0 (their control bit is the
\* inverse of led_status, so it is set when the bar is empty).
ClearLed ==
  /\ pc = "loop" /\ i >= n_led /\ i < 8
  /\ WriteLed(7 - i, 0, ~led_status)
  /\ i' = i + 1
  /\ UNCHANGED <<pc, n_led, led_status, level, shown, power>>

\* set_level_led returns; the next poll comes 50 ms later.
LevelDone ==
  /\ pc = "loop" /\ i >= n_led /\ i >= 8
  /\ shown' = level /\ i' = 0 /\ pc' = "front"
  /\ UNCHANGED <<ledVars, n_led, led_status, level, power>>

Next ==
  \/ Start
  \/ \E on \in BOOLEAN : SetFrontLed(on)
  \/ \E lvl \in Levels : SetLevelLed(lvl)
  \/ LightLed \/ ClearLed \/ LevelDone

Spec == Init /\ [][Next]_vars

-----------------------------------------------------------------------------
\* set_level_led and start: between two refreshes the LEDs lit are exactly the
\* bar of the last level, whatever was shown before and in whatever order the
\* levels came.
BarShowsLevel == pc \in {"front", "level"} => Lit \cap LevelChannel = Bar(shown)

\* set_level_led updates LED by LED: during a refresh a LED of both the old and
\* the new bar never goes dark, and one of neither never lights up.
NoFlicker ==
  pc = "loop" => /\ Bar(shown) \cap Bar(level) \subseteq Lit
                 /\ Lit \cap LevelChannel \subseteq Bar(shown) \cup Bar(level)

\* A write has gone beyond the chip since the last set_front_led.
Overrun == n_led > 8 /\ (pc = "front" \/ (pc = "loop" /\ i > 8))

\* set_front_led: from the first poll on exactly the colour of the power state
\* is lit, also while the level LEDs are refreshed, until a write that goes
\* beyond the chip; the next poll repairs it before it shows the level.
FrontShowsPower == power # "none" /\ ~Overrun => Lit \ LevelChannel = {IF power = "on" THEN 9 ELSE 8}

-----------------------------------------------------------------------------
(* The inductive invariant of the proofs.                                  *)

LedType ==
  /\ pwm \in [Channel -> {0, PWM_LEVEL, PWM_FRONT}] /\ control \in [Channel -> BOOLEAN]
  /\ pc \in {"start", "front", "level", "loop"}
  /\ i \in 0 .. 20 /\ n_led \in 0 .. 20 /\ level \in UInt8 /\ shown \in UInt8
  /\ power \in {"none", "on", "off"}

LitAt(c) == control[c] /\ pwm[c] > 0

\* start has put out the LEDs below i and nothing has been shown yet.
StartInv == pc = "start" => i < 8 /\ shown = 0 /\ \A c \in LevelChannel : c < i => ~LitAt(c)

\* Between two refreshes the bar is that of the last complete one.
RestInv == pc \in {"front", "level"} => \A c \in LevelChannel : LitAt(c) <=> c \in Bar(shown)

\* During a refresh the LEDs already walked show the new level, the others the old.
LoopInv ==
  pc = "loop" =>
    /\ led_status = (Lights(level) > 0)
    /\ n_led = IF level = 0 THEN 8 ELSE Lights(level)
    /\ \A c \in LevelChannel : LitAt(c) <=> c \in Bar(IF 7 - c < i THEN level ELSE shown)

FrontInv ==
  power # "none" /\ ~Overrun => (LitAt(9) <=> power = "on") /\ (LitAt(8) <=> power = "off")

LedInv == LedType /\ StartInv /\ RestInv /\ LoopInv /\ FrontInv
=============================================================================
