------------------------------ MODULE MCBoard -------------------------------
(***************************************************************************)
(* The parts of the board, each on its own: the indicator LEDs, the triac  *)
(* timer, the decoding of a touch, the debouncing, the build with fading,  *)
(* and the button drivers. A behaviour is a behaviour of one of them; the  *)
(* others stand still.                                                     *)
(***************************************************************************)
EXTENDS Integers, Sequences, FiniteSetsExt

CONSTANTS
    Delays, HalfPeriods,                                       \* TriacTimer
    Modulus, DEBOUNCE_TIME, DEBOUNCE_TIME_TOUCH, PollTicks,    \* Debounce
    Resolutions, FadeLevels,                                   \* SliderLevels
    LedLevels,                                                 \* LevelLeds
    DebounceTicks, ShortTicks, SerialTicks, long_press_ticks,
    short_press_ticks, TickMod, MaxPresses,                    \* Button
    Channels, Keys, MaxChannels, MaxList                       \* ButtonAdc

\* What getLevelRaw returns: a brightness in percent, or the Matter level of a touch.
AllLedLevels == (0 .. 100) \cup {(254 * v) \div 7 : v \in 0 .. 7}

VARIABLES
    part,  \* the component that runs in this behaviour
    leds_pwm, leds_control, leds_pc, leds_i, leds_n_led, leds_led_status,
    leds_level, leds_shown, leds_power,
    triac_phase, triac_length, triac_running, triac_count, triac_alarm,
    triac_syncPending, triac_alarmPending, triac_firedAt, triac_quiet,
    touch_touches, touch_flipped_byte, touch_value, touch_i, touch_loop,
    debounce_now, debounce_old_tick_btn, debounce_old_tick_touch,
    debounce_sinceEdge, debounce_sinceRead, debounce_waiting,
    debounce_nextPoll, debounce_pressed,
    fade_resolution, fade_m_level, fade_interval, fade_reminder,
    fade_alarm_count, fade_start_fade, fade_step_cpt, fade_total, fade_alarms,
    button_ticks, button_long_press_hold_cnt, button_repeat, button_state,
    button_debounce_cnt, button_button_level, button_calls, button_raw,
    button_stable, button_presses,
    adc_voltage, adc_slot, adc_is_configured, adc_unit, adc_list, adc_timer,
    adc_owned, adc_vol, adc_todo, adc_sampled, adc_level

Leds == INSTANCE LevelLeds WITH
    Levels <- LedLevels,
    pwm <- leds_pwm, control <- leds_control, pc <- leds_pc, i <- leds_i,
    n_led <- leds_n_led, led_status <- leds_led_status, level <- leds_level,
    shown <- leds_shown, power <- leds_power

Triac == INSTANCE TriacTimer WITH
    phase <- triac_phase, length <- triac_length, running <- triac_running,
    count <- triac_count, alarm <- triac_alarm,
    syncPending <- triac_syncPending, alarmPending <- triac_alarmPending,
    firedAt <- triac_firedAt, quiet <- triac_quiet

Slider == INSTANCE SliderLevels WITH
    Levels <- FadeLevels,
    touches <- touch_touches, flipped_byte <- touch_flipped_byte,
    value <- touch_value, i <- touch_i, loop <- touch_loop,
    resolution <- fade_resolution, m_level <- fade_m_level,
    interval <- fade_interval, reminder <- fade_reminder,
    alarm_count <- fade_alarm_count, start_fade <- fade_start_fade,
    step_cpt <- fade_step_cpt, total <- fade_total, alarms <- fade_alarms

Debounced == INSTANCE Debounce WITH
    now <- debounce_now, old_tick_btn <- debounce_old_tick_btn,
    old_tick_touch <- debounce_old_tick_touch,
    sinceEdge <- debounce_sinceEdge, sinceRead <- debounce_sinceRead,
    waiting <- debounce_waiting, nextPoll <- debounce_nextPoll,
    pressed <- debounce_pressed

Button == INSTANCE Button WITH
    ticks <- button_ticks, long_press_hold_cnt <- button_long_press_hold_cnt,
    repeat <- button_repeat, state <- button_state,
    debounce_cnt <- button_debounce_cnt, button_level <- button_button_level,
    calls <- button_calls, raw <- button_raw, stable <- button_stable,
    presses <- button_presses

Adc == INSTANCE ButtonAdc WITH
    voltage <- adc_voltage, slot <- adc_slot,
    is_configured <- adc_is_configured, unit <- adc_unit, list <- adc_list,
    timer <- adc_timer, owned <- adc_owned, vol <- adc_vol, todo <- adc_todo,
    sampled <- adc_sampled, level <- adc_level

ledsVars ==
    <<leds_pwm, leds_control, leds_pc, leds_i, leds_n_led, leds_led_status,
      leds_level, leds_shown, leds_power>>
triacVars ==
    <<triac_phase, triac_length, triac_running, triac_count, triac_alarm,
      triac_syncPending, triac_alarmPending, triac_firedAt, triac_quiet>>
touchVars ==
    <<touch_touches, touch_flipped_byte, touch_value, touch_i, touch_loop>>
debounceVars ==
    <<debounce_now, debounce_old_tick_btn, debounce_old_tick_touch,
      debounce_sinceEdge, debounce_sinceRead, debounce_waiting,
      debounce_nextPoll, debounce_pressed>>
fadeVars ==
    <<fade_resolution, fade_m_level, fade_interval, fade_reminder,
      fade_alarm_count, fade_start_fade, fade_step_cpt, fade_total,
      fade_alarms>>
buttonVars ==
    <<button_ticks, button_long_press_hold_cnt, button_repeat, button_state,
      button_debounce_cnt, button_button_level, button_calls, button_raw,
      button_stable, button_presses>>
adcVars ==
    <<adc_voltage, adc_slot, adc_is_configured, adc_unit, adc_list, adc_timer,
      adc_owned, adc_vol, adc_todo, adc_sampled, adc_level>>
vars == <<part, ledsVars, triacVars, touchVars, debounceVars, fadeVars, buttonVars, adcVars>>

Init ==
    /\ part \in {"leds", "triac", "touch", "debounce", "fade", "button", "adc"}
    /\ Leds!Init
    /\ part = "leds" \/ (leds_pwm[0] = 0 /\ ~leds_control[0])
    /\ Triac!Init
    /\ part = "triac" \/ (triac_length = Min(HalfPeriods) /\ triac_alarm = Min(Delays))
    /\ Slider!TouchInit
    /\ part = "touch" \/ touch_touches = 1
    /\ Debounced!Init
    /\ Slider!FadeInit
    /\ part = "fade" \/ fade_resolution = Min(Resolutions)
    /\ Button!Init
    /\ Adc!Init

Next ==
    \/ /\ part = "leds" /\ Leds!Next
       /\ UNCHANGED <<part, triacVars, touchVars, debounceVars, fadeVars,
                       buttonVars, adcVars>>
    \/ /\ part = "triac" /\ Triac!Next
       /\ UNCHANGED <<part, ledsVars, touchVars, debounceVars, fadeVars,
                       buttonVars, adcVars>>
    \/ /\ part = "touch" /\ Slider!TouchNext
       /\ UNCHANGED <<part, ledsVars, triacVars, debounceVars, fadeVars,
                       buttonVars, adcVars>>
    \/ /\ part = "debounce" /\ Debounced!Next
       /\ UNCHANGED <<part, ledsVars, triacVars, touchVars, fadeVars,
                       buttonVars, adcVars>>
    \/ /\ part = "fade" /\ Slider!FadeNext
       /\ UNCHANGED <<part, ledsVars, triacVars, touchVars, debounceVars,
                       buttonVars, adcVars>>
    \/ /\ part = "button" /\ Button!Next
       /\ UNCHANGED <<part, ledsVars, triacVars, touchVars, debounceVars,
                       fadeVars, adcVars>>
    \/ /\ part = "adc" /\ Adc!Next
       /\ UNCHANGED <<part, ledsVars, triacVars, touchVars, debounceVars,
                       fadeVars, buttonVars>>

Spec == Init /\ [][Next]_vars

(***************************************************************************)
(* Properties                                                              *)
(***************************************************************************)

ASSUME BoardAssumptions ==
    /\ Button!ButtonAssumption /\ Adc!AdcAssumption
    /\ Leds!LevelsAssumption /\ Triac!TimingAssumption
    /\ Debounced!DebounceAssumption /\ Slider!FadeAssumption

\* set_level_led and start: between two refreshes the LEDs lit are exactly the
\* bar of the last level, and during a refresh a LED of both bars never goes
\* dark and one of neither never lights up; a level above 112, for which the loop
\* runs past the eight LEDs and the channel wraps, lights all of them.  From the
\* first poll on exactly the colour of the power state is lit on the front, also
\* during a refresh; left out is the time from a write to a wrapped channel to
\* the next set_front_led, since such a write may land in the front LED.
BarShowsLevel == Leds!BarShowsLevel /\ Leds!NoFlicker /\ Leds!FrontShowsPower

\* gpio_isr_handler and on_timer_alarm_cb: once the delay has been left alone
\* for two half periods, the gate is pulsed at that phase of every half period
\* and at no other, and the timer is never left running with its alarm behind
\* it, where no later sync could restart it.
FiresAtDelay == Triac!FiresAtDelay /\ Triac!NeverOverrun

\* getLevel: whatever electrodes are touched together, the loops find the
\* position of the lowest-numbered one, and the light is as bright as the
\* brightest of the touched electrodes makes it alone.  set_brightness of the
\* fading build: the steps and the remainder together are the whole way, and the
\* step of a lit level is a delay that fits in a half period as soon as there are
\* two steps or more.
LevelsAddUp ==
    /\ Slider!DecodesTopBit /\ Slider!BrightestTouchWins
    /\ Slider!StepsAddUp /\ Slider!LitStepInRange

\* buttonCb: an edge within the window of the one before (a bounce) is never a
\* press, wherever the counter wraps; an edge after the window and within one
\* turn of the counter always is.  sliderTask: a change waits for the rest of the
\* window and two polls, even when the counter has gone once round and
\* old_tick_touch looks recent again, and two handled changes are more than the
\* window apart.
EdgesAreJudged ==
    /\ Debounced!EdgesAreJudged /\ Debounced!ReadsAreApart
    /\ [](Debounced!TouchWaitIsBounded)

\* button_handler: a level that lasts less than DEBOUNCE_TICKS scans makes no
\* press; between two PRESS_DOWNs there is exactly one PRESS_UP, whichever way the
\* press ends; a single or double click is reported for exactly one or two
\* presses, and get_repeat is their number.
ClicksCountPresses ==
    Button!ClicksCountPresses /\ Button!UpsMatchDowns /\ Button!BouncesAreFiltered

\* button_adc_init, button_adc_deinit: whatever was created and deleted before,
\* each button of the client has its range in the slot find_channel gives for it,
\* no two slots are for the same channel, and a button is never left out of the
\* scan.
ButtonsHaveSlots == Adc!ButtonsHaveSlots /\ Adc!ButtonsAreScanned

=============================================================================
