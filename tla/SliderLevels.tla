---------------------------- MODULE SliderLevels ----------------------------
(***************************************************************************)
(* Two computations of SliderDriver, step by step.                         *)
(*                                                                         *)
(* getLevel: its two bit loops, one iteration per step, on every mask the  *)
(* CAP1298 can report.  SliderMath!TopBit, which the other modules use, is *)
(* the reference definition.                                               *)
(*                                                                         *)
(* The build with FADE_ENABLE: set_brightness divides the way to the new   *)
(* firing delay into FADE_RESOLUTION - 1 steps, which on_timer_alarm_cb    *)
(* would take one per half period.  start_fade, which arms the steps, is   *)
(* never set: its only assignment is commented out.  A FADE_RESOLUTION of  *)
(* 1, which Kconfig also allows, makes the divisor 0 and is left out.  C   *)
(* division truncates towards zero.                                        *)
(***************************************************************************)
EXTENDS SliderMath

CONSTANTS Resolutions,  \* values of CONFIG_FADE_TIME
          Levels        \* brightness values set, in percent

FadeAssumption == Resolutions \subseteq (0 .. 100) \ {1} /\ Levels \subseteq Percent

VARIABLES touches,       \* the byte getNewTouches returned
          flipped_byte, value, i,
          loop           \* "flip", "scan" or "done"

VARIABLES resolution, m_level, interval, reminder, alarm_count, start_fade, step_cpt,
          total,        \* history: the way the last set_brightness divided
          alarms        \* half periods since set_power applied the level; -1: not yet

touchVars == <<touches, flipped_byte, value, i, loop>>

Bit(byte, n) == (byte \div 2 ^ n) % 2

MaskOf(byte) == {e \in Electrode : Bit(byte, e) = 1}

\* A zero byte returns m_previous_level before the loops.
TouchInit ==
  /\ touches \in UInt8 \ {0}
  /\ flipped_byte = 0 /\ value = 0 /\ i = 0 /\ loop = "flip"

\* Mutant of Flip: the bit is not mirrored.
FlipToOwnPlace ==
  /\ loop = "flip"
  /\ flipped_byte' = flipped_byte + Bit(touches, i) * 2 ^ i
  /\ IF i < 7 THEN i' = i + 1 /\ UNCHANGED loop ELSE i' = 7 /\ loop' = "scan"
  /\ UNCHANGED <<touches, value>>

\* flipped_byte |= ((level >> i) & 1) << (7 - i); a bit is set only once.
Flip ==
  /\ loop = "flip"
  /\ flipped_byte' = flipped_byte + Bit(touches, i) * 2 ^ (7 - i)
  /\ IF i < 7 THEN i' = i + 1 /\ UNCHANGED loop ELSE i' = 7 /\ loop' = "scan"
  /\ UNCHANGED <<touches, value>>

Scan ==
  /\ loop = "scan"
  /\ IF Bit(flipped_byte, i) = 1
     THEN value' = i /\ loop' = "done" /\ UNCHANGED i
     ELSE i' = i - 1 /\ UNCHANGED <<value, loop>>
  /\ UNCHANGED <<touches, flipped_byte>>

TouchNext == Flip \/ Scan

TouchSpec == TouchInit /\ [][TouchNext]_touchVars

-----------------------------------------------------------------------------
\* getLevel: whatever electrodes are touched together, the loops find the
\* position of the lowest-numbered one, counted from the far end of the strip.
DecodesTopBit == loop = "done" => value = TopBit(MaskOf(touches))

\* getLevel and set_brightness: a second finger never makes the light darker,
\* nor brighter than the electrode nearest the bright end makes it alone: the
\* triac fires with the shortest of the delays of the touched electrodes.
BrightestTouchWins ==
  loop = "done" =>
    LET DelayAt(v) == IntervalFor(StoredLevel(MatterToPercent(LevelAt(v))))
    IN  DelayAt(value) = Min({DelayAt(7 - e) : e \in MaskOf(touches)})

-----------------------------------------------------------------------------
(* The inductive invariant of the proofs.                                  *)

TouchType ==
  /\ touches \in UInt8 \ {0} /\ flipped_byte \in UInt8
  /\ loop \in {"flip", "scan", "done"} /\ i \in 0 .. 7 /\ value \in 0 .. 7

\* The first loop has mirrored the bits below i, and no other bit is set yet.
FlipInv ==
  loop = "flip" =>
    \A m \in 0 .. 7 : Bit(flipped_byte, m) = IF m > 7 - i THEN Bit(touches, 7 - m) ELSE 0

\* After it every bit is mirrored; the second loop has found none above i.
ScanInv ==
  loop # "flip" =>
    /\ \A m \in 0 .. 7 : Bit(flipped_byte, m) = Bit(touches, 7 - m)
    /\ \A m \in i + 1 .. 7 : Bit(flipped_byte, m) = 0
    /\ loop = "done" => value = i /\ Bit(flipped_byte, i) = 1

TouchInv == TouchType /\ FlipInv /\ ScanInv

-----------------------------------------------------------------------------
(* The build with fading.                                                  *)

fadeVars == <<resolution, m_level, interval, reminder, alarm_count, start_fade, step_cpt,
          total, alarms>>

TruncMod(a, b) == a - b * TruncDiv(a, b)
Divisor == resolution - 1

FadeInit ==
  /\ resolution \in Resolutions
  /\ m_level = 0 /\ interval = 0 /\ reminder = 0 /\ alarm_count = MAX_INTERVAL \div 2
  /\ start_fade = FALSE /\ step_cpt = 0 /\ total = 0 /\ alarms = -1

\* Mutant of Division: the remainder taken after the step is known.
DivisionSwapped(way, lit) ==
  LET step == TruncDiv(way, Divisor)
  IN [step |-> step,
      rest |-> IF lit THEN TruncMod(step, Divisor) ELSE -TruncMod(step, Divisor)]

\* Division of the way towards and away from a lit level; the sign of the
\* remainder is changed in the second.
Division(way, lit) ==
  [step |-> TruncDiv(way, Divisor),
   rest |-> IF lit THEN TruncMod(way, Divisor) ELSE -TruncMod(way, Divisor)]

\* The value divided: to dark, INTENSITY2TIME is applied to actual_level,
\* which is already a time.
Way(old, new) ==
  IF new > 1 THEN INTENSITY2TIME(new) ELSE -INTENSITY2TIME(INTENSITY2TIME(old))

\* set_brightness
SetBrightness(brightness) ==
  LET new == StoredLevel(brightness)
      div == Division(Way(m_level, new), new > 1)
  IN /\ m_level' = new /\ total' = Way(m_level, new)
     /\ interval' = div.step /\ reminder' = div.rest

Level ==
  /\ \E b \in Levels : SetBrightness(b)
  /\ alarms' = -1
  /\ UNCHANGED <<resolution, alarm_count, start_fade, step_cpt>>

\* set_power; alarm_count is 64 bits wide and unsigned, a negative interval is
\* a time that never comes (kept negative here).
PowerOn ==
  /\ alarm_count' = interval /\ alarms' = 0
  /\ UNCHANGED <<resolution, m_level, interval, reminder, start_fade, step_cpt, total>>

PowerOff ==
  /\ SetBrightness(0)
  /\ alarm_count' = interval' /\ alarms' = 0
  /\ UNCHANGED <<resolution, start_fade, step_cpt>>

\* on_timer_alarm_cb
Alarm ==
  /\ alarms' = IF alarms \in 0 .. resolution - 1 THEN alarms + 1 ELSE alarms
  /\ IF start_fade
     THEN LET last == step_cpt + 1 = Divisor
          IN /\ alarm_count' = alarm_count - interval - (IF last THEN reminder ELSE 0)
             /\ step_cpt' = IF last THEN 0 ELSE step_cpt + 1
             /\ start_fade' = ~last
     ELSE UNCHANGED <<alarm_count, step_cpt, start_fade>>
  /\ UNCHANGED <<resolution, m_level, interval, reminder, total>>

FadeNext == Level \/ PowerOn \/ PowerOff \/ Alarm

FadeSpec == FadeInit /\ [][FadeNext]_fadeVars

-----------------------------------------------------------------------------
\* set_brightness: FADE_RESOLUTION - 1 steps and the remainder together are the
\* whole way, for negative ways and a negative divisor too (the remainder is
\* kept with the opposite sign on the way to dark).
StepsAddUp ==
  /\ total = Divisor * interval + (IF m_level > 1 THEN reminder ELSE -reminder)
  /\ Abs(reminder) < Abs(Divisor)

\* set_brightness to a lit level and back: the step of a lit level is a delay
\* that fits in a half period as soon as there are two steps or more.
LitStepInRange == resolution >= 2 /\ m_level > 1 => interval \in Delay

\* Kconfig: "The duration of the fade: RES / 60 s": RES half periods after
\* set_power has applied a lit level the light fires with the delay of that level.
FadeEnds ==
  resolution >= 2 /\ alarms = resolution /\ m_level > 1
    => alarm_count = INTENSITY2TIME(m_level)

-----------------------------------------------------------------------------
(* The inductive invariant of the proofs.                                  *)

FadeType == resolution \in Resolutions /\ m_level \in Percent

FadeInv == FadeType /\ StepsAddUp /\ LitStepInRange

=============================================================================
