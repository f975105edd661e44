------------------------------- MODULE Button -------------------------------
(***************************************************************************)
(* The state machine of one push button (iot_button.c, button_handler).    *)
(* The timer task samples the input every scan; the machine debounces the  *)
(* samples and calls the client back with presses, clicks and holds.       *)
(***************************************************************************)
EXTENDS Integers, Sequences, SequencesExt

CONSTANTS
  DebounceTicks,   \* DEBOUNCE_TICKS
  ShortTicks,      \* SHORT_TICKS
  SerialTicks,     \* SERIAL_TICKS
  long_press_ticks, short_press_ticks,   \* of this button
  TickMod,         \* 2^16: ticks is a uint16_t
  MaxPresses       \* bound on the presses of one sequence

ButtonAssumption ==
  /\ DebounceTicks \in 1 .. 8 /\ {ShortTicks, SerialTicks} \subseteq Nat
  /\ {long_press_ticks, short_press_ticks} \subseteq 1 .. TickMod - 2 /\ MaxPresses \in 1 .. 255

VARIABLES
  ticks, long_press_hold_cnt, repeat, state, debounce_cnt,
  button_level,   \* TRUE: the active level
  calls,          \* the callbacks of the last scan, in their order
  raw, stable,    \* history: the last sample, and how often in a row (up to 8)
  presses         \* history: PRESS_DOWNs since the machine was last idle

vars == <<ticks, long_press_hold_cnt, repeat, state, debounce_cnt, button_level, calls, raw, stable, presses>>

\* button_create_com
Init ==
  /\ ticks = 0 /\ long_press_hold_cnt = 0 /\ repeat = 0 /\ state = 0 /\ debounce_cnt = 0
  /\ button_level = FALSE /\ calls = <<>>
  /\ raw = FALSE /\ stable = 8 /\ presses = 0

\* The else of the debounce code.
AgreeingSample == debounce_cnt' = 0

\* debounce_cnt is a field of 3 bits
NextCount == (debounce_cnt + 1) % 8

Debounce(level) ==
  IF level # button_level
  THEN IF NextCount >= DebounceTicks
       THEN button_level' = level /\ debounce_cnt' = 0
       ELSE debounce_cnt' = NextCount /\ UNCHANGED button_level
  ELSE AgreeingSample /\ UNCHANGED button_level

\* What every scan does before the switch, and the sample it is given.
Sample(level) ==
  /\ presses = MaxPresses => ~level
  /\ Debounce(level)
  /\ raw' = level
  /\ stable' = IF level # raw THEN 1 ELSE IF stable < 8 THEN stable + 1 ELSE 8

tick == (ticks + 1) % TickMod

\* case 0
Idle(level) ==
  /\ state = 0
  /\ Sample(level)
  /\ IF button_level'
     THEN /\ calls' = <<"PRESS_DOWN">>
          /\ ticks' = 0 /\ repeat' = 1 /\ state' = 1 /\ presses' = 1
     ELSE calls' = <<>> /\ UNCHANGED <<ticks, repeat, state, presses>>
  /\ UNCHANGED long_press_hold_cnt

\* case 1
Pressed(level) ==
  /\ state = 1
  /\ Sample(level)
  /\ CASE ~button_level' -> calls' = <<"PRESS_UP">> /\ ticks' = 0 /\ state' = 2
       [] button_level' /\ tick > long_press_ticks ->
            calls' = <<"LONG_PRESS_START">> /\ ticks' = tick /\ state' = 5
       [] OTHER -> calls' = <<>> /\ ticks' = tick /\ UNCHANGED state
  /\ UNCHANGED <<repeat, long_press_hold_cnt, presses>>

\* The callbacks at the end of a sequence of clicks.
Clicks(n) ==
  CASE n = 1 -> <<"SINGLE_CLICK", "PRESS_REPEAT_DONE">>
    [] n = 2 -> <<"DOUBLE_CLICK", "PRESS_REPEAT_DONE">>
    [] OTHER -> <<"PRESS_REPEAT_DONE">>

\* case 2
Released(level) ==
  /\ state = 2
  /\ Sample(level)
  /\ CASE button_level' ->
            /\ calls' = <<"PRESS_DOWN", "PRESS_REPEAT">>
            /\ repeat' = (repeat + 1) % 256 /\ ticks' = 0 /\ state' = 3 /\ presses' = presses + 1
       [] ~button_level' /\ tick > short_press_ticks ->
            calls' = Clicks(repeat) /\ ticks' = tick /\ state' = 0 /\ presses' = 0 /\ UNCHANGED repeat
       [] OTHER -> calls' = <<>> /\ ticks' = tick /\ UNCHANGED <<repeat, state, presses>>
  /\ UNCHANGED long_press_hold_cnt

\* Mutant of ReleaseRepeated: a repeated press is taken for a first one.
ReleaseRepeatedAsFirst ==
  calls' = <<"PRESS_UP">> /\ ticks' = 0 /\ state' = 2 /\ repeat' = 1 /\ UNCHANGED presses

ReleaseRepeated ==
  /\ calls' = <<"PRESS_UP">>
  /\ IF tick < ShortTicks THEN ticks' = 0 /\ state' = 2 /\ UNCHANGED <<repeat, presses>>
     ELSE ticks' = tick /\ state' = 0 /\ presses' = 0 /\ UNCHANGED repeat

\* case 3
Repeated(level) ==
  /\ state = 3
  /\ Sample(level)
  /\ IF ~button_level' THEN ReleaseRepeated
     ELSE calls' = <<>> /\ ticks' = tick /\ UNCHANGED <<state, repeat, presses>>
  /\ UNCHANGED long_press_hold_cnt

ReleaseLong == calls' = <<"PRESS_UP">> /\ state' = 0 /\ presses' = 0 /\ long_press_hold_cnt' = 0

\* case 5
LongPress(level) ==
  /\ state = 5
  /\ Sample(level)
  /\ ticks' = tick
  /\ IF button_level'
     THEN /\ UNCHANGED <<state, presses>>
          /\ IF tick >= (long_press_hold_cnt + 1) * SerialTicks
             THEN calls' = <<"LONG_PRESS_HOLD">> /\ long_press_hold_cnt' = (long_press_hold_cnt + 1) % TickMod
             ELSE calls' = <<>> /\ UNCHANGED long_press_hold_cnt
     ELSE ReleaseLong
  /\ UNCHANGED repeat

\* button_handler, once per period of the timer
Scan(level) == Idle(level) \/ Pressed(level) \/ Released(level) \/ Repeated(level) \/ LongPress(level)

Next == \E level \in BOOLEAN : Scan(level)

\* The timer of the button never stops while there is a button.
Spec == Init /\ [][Next]_vars /\ WF_vars(Next)

-----------------------------------------------------------------------------
\* button_handler: a level that lasts less than DEBOUNCE_TICKS scans, however often
\* the contact bounces, makes no press and no release.
BouncesAreFiltered ==
  [][button_level' # button_level => stable' >= DebounceTicks /\ raw' = button_level']_vars

\* The callbacks of a press come in pairs: between two PRESS_DOWNs there is exactly
\* one PRESS_UP, whichever way the press ends (click, repetition, long press), and
\* the client never sees a click or the end of a sequence while the button is down.
Down == state \in {1, 3, 5}
UpsMatchDowns ==
  [][/\ Contains(calls', "PRESS_DOWN") <=> ~Down /\ Down'
     /\ Contains(calls', "PRESS_UP") <=> Down /\ ~Down'
     /\ Contains(calls', "PRESS_REPEAT_DONE") => ~Down /\ ~button_level']_vars

\* A single or double click is reported for exactly one or two presses since the
\* last idle time, and get_repeat is their number.
ClicksCountPresses ==
  [][/\ Contains(calls', "SINGLE_CLICK") => presses = 1
     /\ Contains(calls', "DOUBLE_CLICK") => presses = 2
     /\ Contains(calls', "PRESS_REPEAT_DONE") => repeat = presses]_vars

\* Every long press that lasts reports a hold, also after earlier long ones.
HoldIsReported ==
  Contains(calls, "LONG_PRESS_START") ~> Contains(calls, "LONG_PRESS_HOLD") \/ state # 5

\* "DEBOUNCE_TICKS ... MAX 8": a button that is pressed and stays so is reported.
PressIsSeen == <>[]raw => <>[]button_level

\* A released button always comes back to rest, whatever it was in the middle of.
ReleaseComesToRest == <>[]~raw => <>[](state = 0)

\* "continue hold trigger": a button that is held goes on reporting that it is.
HoldsGoOn == <>[](state = 5) => []<>Contains(calls, "LONG_PRESS_HOLD")

-----------------------------------------------------------------------------
(* The inductive invariant of the proofs.                                  *)

ButtonType ==
  /\ state \in {0, 1, 2, 3, 5} /\ debounce_cnt \in 0 .. 7 /\ stable \in 0 .. 8
  /\ button_level \in BOOLEAN /\ raw \in BOOLEAN
  /\ repeat \in 0 .. 255 /\ presses \in 0 .. MaxPresses

\* The samples counted against the level are the last ones, and all alike.
CountInv == debounce_cnt > 0 => raw # button_level /\ stable >= debounce_cnt

\* The machine is in a pressed state exactly when the level is active, and repeat
\* counts the presses of a sequence.
MachineInv == (button_level <=> Down) /\ (state # 0 => repeat = presses)

ButtonInv == ButtonType /\ CountInv /\ MachineInv
=============================================================================
