----------------------------- MODULE SliderMath -----------------------------
(***************************************************************************)
(* The arithmetic of the dimmer: Matter level -> brightness in percent ->  *)
(* firing delay of the triac in microseconds, and touched electrodes ->    *)
(* Matter level.  Pure operators, shared by every other module.            *)
(*                                                                         *)
(* A touch mask (uint8_t, one bit per electrode) is the set of electrodes  *)
(* whose bit is set.                                                       *)
(***************************************************************************)
EXTENDS Integers, FiniteSetsExt

MAX_INTERVAL        == 8333   \* microseconds: half a 60 Hz period
MATTER_BRIGHTNESS   == 254
STANDARD_BRIGHTNESS == 100
DEFAULT_BRIGHTNESS  == 180
DEFAULT_POWER       == TRUE

UInt8     == 0 .. 255
Percent   == 0 .. STANDARD_BRIGHTNESS
Delay     == 0 .. MAX_INTERVAL
Electrode == 0 .. 7

-----------------------------------------------------------------------------
Abs(n) == IF n < 0 THEN -n ELSE n

\* C integer division: truncation towards zero.
TruncDiv(a, b) ==
  LET q == Abs(a) \div Abs(b) IN IF a < 0 <=> b < 0 THEN q ELSE -q

\* Macro of the esp-matter device HAL.
REMAP_TO_RANGE(value, from, to) == (value * to) \div from

\* Mutant of MatterToPercent: the two ranges swapped.
MatterToPercentWide(v) == REMAP_TO_RANGE(v, STANDARD_BRIGHTNESS, MATTER_BRIGHTNESS) % 256

\* The uint8_t brightness handed to set_brightness for a Matter level.
MatterToPercent(v) == REMAP_TO_RANGE(v, MATTER_BRIGHTNESS, STANDARD_BRIGHTNESS) % 256

INTENSITY2TIME(x) == TruncDiv(MAX_INTERVAL * (100 - x), 100)

\* set_brightness: what is kept in m_level, and the firing delay for it.
StoredLevel(brightness) == IF brightness = 1 THEN 0 ELSE brightness

IntervalFor(lvl) == IF lvl > 1 THEN INTENSITY2TIME(lvl) ELSE MAX_INTERVAL

-----------------------------------------------------------------------------
\* getLevel: the byte is mirrored and its most significant set bit kept.
TopBit(touches) == Max({7 - e : e \in touches})

\* ((float)max_level / 7.0) * value, truncated to uint8_t.  For the only
\* max_level in use (254) the double product truncates to the same integer.
LevelAt(value) == (MATTER_BRIGHTNESS * value) \div 7

TouchLevel(touches) == LevelAt(TopBit(touches))
=============================================================================
